--------------------------- MODULE Protocol_proofs ---------------------------
(***************************************************************************)
(* The two protocols that run over the control channel.                    *)
(*                                                                         *)
(* Reliable input: proofs for every number of events, retry limit and      *)
(* timeout.  What an ACK means depends on sequence numbers being unique,   *)
(* so those theorems assume that a session has at most SeqMod events.      *)
(*                                                                         *)
(* The handshake (second part) agrees for any number of managers and       *)
(* sessions.                                                               *)
(***************************************************************************)
EXTENDS Handshake, ReliableInput, FiniteSetTheorems, TLAPS

NoWrap == MaxEvents <= SeqMod

\* The bookkeeping that ties the queue, the network and the history together.
IInv ==
    /\ \A i \in Ids : i \in Pending <=> outcome[i] = "pending"
    /\ \A i \in Ids : i >= next <=> outcome[i] = "unsent"
    /\ \A i \in Ids : i \in wire <=> outcome[i] \notin {"unsent", "rejected"}
    /\ applied \subseteq wire
    /\ \A s \in acks : \E i \in applied : SeqOf(i) = s
    /\ \A i \in Ids : outcome[i] = "unsent" => sends[i] = 0

-----------------------------------------------------------------------------
\* A remainder stays in range, and is the number itself below the modulus.
LEMMA SeqOfType ==
    ASSUME NEW i \in Nat
    PROVE  SeqOf(i) \in SeqNums /\ (i < SeqMod => SeqOf(i) = i)
BY ConstAssumption DEF SeqOf, SeqNums

\* Sets of events are finite, so their cardinalities are numbers.
LEMMA IdsFinite == \A S \in SUBSET Ids : IsFiniteSet(S) /\ Cardinality(S) \in Nat
<1>1. IsFiniteSet(Ids)
  BY FS_Interval, ConstAssumption DEF Ids
<1> QED BY <1>1, FS_Subset, FS_CardinalityType

\* The initial state is well typed.
LEMMA InitType == Init => TypeOK
<1> SUFFICES ASSUME Init PROVE TypeOK
  OBVIOUS
<1>1. pending = [x \in {} |-> {}] /\ Pending = {}
  BY DEF Init, Pending
<1>2. pending \in [Pending -> Entry] /\ Pending \subseteq Ids
  BY <1>1
<1> QED
  BY <1>2, ConstAssumption DEF Init, TypeOK, Ids, SeqNums, Counters, D!Outcomes, D!Settled

\* Every handler of the sender, the receiver and the clock keeps the types.
LEMMA NextType == TypeOK /\ [Next]_vars => TypeOK'
<1> SUFFICES ASSUME TypeOK, [Next]_vars PROVE TypeOK'
  OBVIOUS
<1> USE ConstAssumption
<1>1. CASE SendInputEvent
  <2>1. next \in Ids /\ next' \in 0 .. MaxEvents
    BY <1>1 DEF SendInputEvent, TypeOK, Ids
  <2>2. /\ outcome' \in [Ids -> D!Outcomes]
        /\ sends' \in [Ids -> Nat]
        /\ wire' \subseteq Ids
    BY <1>1, <2>1 DEF SendInputEvent, TypeOK, D!Outcomes
  <2>3. stats' \in [Counters -> Nat]
    BY <1>1 DEF SendInputEvent, TypeOK, Counters
  <2>4. pending' \in [Pending' -> Entry] /\ Pending' \subseteq Ids
    BY <1>1, <2>1 DEF SendInputEvent, TypeOK, Pending, Entry
  <2> QED BY <1>1, <2>1, <2>2, <2>3, <2>4 DEF SendInputEvent, TypeOK, receiver
<1>2. ASSUME NEW seq \in SeqNums, OnAckMessage(seq) PROVE TypeOK'
  <2> DEFINE kept == Pending \ (PoppedBelow(seq) \cup Matched(seq))
  <2>1. pending' = [i \in kept |-> pending[i]]
    BY <1>2 DEF OnAckMessage, Restrict
  <2>2. pending' \in [Pending' -> Entry] /\ Pending' \subseteq Ids
    BY <2>1 DEF TypeOK, Pending
  <2>3. Matched(seq) \subseteq Ids /\ Cardinality(Matched(seq)) \in Nat
    BY IdsFinite DEF Matched, TypeOK
  <2>4. stats' \in [Counters -> Nat]
    BY <1>2, <2>3 DEF OnAckMessage, TypeOK, Counters
  <2>5. outcome' \in [Ids -> D!Outcomes]
    BY <1>2 DEF OnAckMessage, TypeOK, D!Outcomes, D!Settled
  <2> QED BY <1>2, <2>2, <2>4, <2>5 DEF OnAckMessage, TypeOK, receiver
<1>3. CASE ProcessRetries
  <2> PICK sent \in SUBSET Retryable :
         /\ pending' = [i \in Pending \ (Due \ sent) |->
                          IF i \in sent
                          THEN [retry_count |-> pending[i].retry_count + 1, age |-> 0]
                          ELSE pending[i]]
         /\ stats' = [stats EXCEPT !.events_retried = @ + Cardinality(sent),
                                   !.events_failed = @ + Cardinality(Due \ sent)]
         /\ wire' = wire \cup sent
         /\ outcome' = [i \in Ids |-> IF i \in Due \ sent THEN "failed" ELSE outcome[i]]
         /\ sends' = [i \in Ids |-> IF i \in sent THEN sends[i] + 1 ELSE sends[i]]
    BY <1>3 DEF ProcessRetries, Retried
  <2>1. sent \subseteq Ids /\ Due \ sent \subseteq Ids
    BY DEF Retryable, Due, TypeOK
  <2>2. stats' \in [Counters -> Nat]
    <3>1. Cardinality(sent) \in Nat /\ Cardinality(Due \ sent) \in Nat
      BY <2>1, IdsFinite
    <3>2. /\ stats.events_retried + Cardinality(sent) \in Nat
          /\ stats.events_failed + Cardinality(Due \ sent) \in Nat
      BY <3>1 DEF TypeOK, Counters
    <3>3. \A c \in Counters : stats'[c] \in Nat
      BY <3>2 DEF TypeOK, Counters
    <3>4. stats' = [c \in Counters |-> stats'[c]]
      BY DEF TypeOK, Counters
    <3> QED BY <3>3, <3>4
  <2>3. \A i \in sent : i \in Pending /\ pending[i].retry_count + 1 \in 0 .. kMaxRetries
    BY DEF Retryable, Due, TypeOK, Entry
  <2>4. pending' \in [Pending' -> Entry] /\ Pending' \subseteq Ids
    BY <2>3 DEF TypeOK, Pending, Entry
  <2>5. /\ outcome' \in [Ids -> D!Outcomes]
        /\ sends' \in [Ids -> Nat]
        /\ wire' \subseteq Ids
    BY <2>1 DEF TypeOK, D!Outcomes, D!Settled
  <2> QED BY <1>3, <2>2, <2>4, <2>5 DEF ProcessRetries, TypeOK, receiver
<1>4. CASE Tick
  <2>1. pending' \in [Pending' -> Entry] /\ Pending' \subseteq Ids
    BY <1>4 DEF Tick, TypeOK, Pending, Entry
  <2> QED BY <1>4, <2>1 DEF Tick, TypeOK, receiver
<1>5. ASSUME NEW i \in Ids, OnControlMessage(i) PROVE TypeOK'
  <2>1. SeqOf(i) \in SeqNums
    BY SeqOfType DEF Ids
  <2>2. acks' \subseteq SeqNums /\ applied' \subseteq Ids
    BY <1>5, <2>1 DEF OnControlMessage, TypeOK
  <2>3. ack_sequence_number' \in SeqNums
    BY <1>5 DEF OnControlMessage, TypeOK, SeqNums
  <2> QED BY <1>5, <2>2, <2>3 DEF OnControlMessage, TypeOK, sender, Pending
<1>6. CASE UNCHANGED vars
  BY <1>6 DEF vars, sender, receiver, TypeOK, Pending
<1> QED BY <1>1, <1>2, <1>3, <1>4, <1>5, <1>6 DEF Next

\* Every variable keeps its type for every number of events, every sequence
\* number width, retry limit and timeout.
THEOREM TypeCorrect == Spec => []TypeOK
BY InitType, NextType, PTL DEF Spec

-----------------------------------------------------------------------------
\* The bookkeeping holds before anything is sent.
LEMMA InitIInv == Init => IInv
BY ConstAssumption DEF Init, IInv, Pending, Ids

\* Every handler keeps the bookkeeping, also when sequence numbers wrap.
LEMMA NextIInv == TypeOK /\ IInv /\ [Next]_vars => IInv'
<1> SUFFICES ASSUME TypeOK, IInv, [Next]_vars PROVE IInv'
  OBVIOUS
<1> USE ConstAssumption
<1>1. CASE SendInputEvent
  <2>1. next \in Ids /\ outcome[next] = "unsent" /\ next \notin Pending /\ next \notin wire
    BY <1>1 DEF SendInputEvent, TypeOK, IInv, Ids
  <2>2. Pending' = Pending \/ Pending' = Pending \cup {next}
    BY <1>1 DEF SendInputEvent, Pending
  <2>3. \A i \in Ids : i \in Pending' <=> outcome'[i] = "pending"
    BY <1>1, <2>1 DEF SendInputEvent, TypeOK, IInv, Pending
  <2>4. \A i \in Ids : i >= next' <=> outcome'[i] = "unsent"
    BY <1>1, <2>1 DEF SendInputEvent, TypeOK, IInv, Ids
  <2>5. \A i \in Ids : i \in wire' <=> outcome'[i] \notin {"unsent", "rejected"}
    BY <1>1, <2>1 DEF SendInputEvent, TypeOK, IInv
  <2>6. /\ applied' \subseteq wire'
        /\ \A s \in acks' : \E i \in applied' : SeqOf(i) = s
    BY <1>1 DEF SendInputEvent, IInv, receiver
  <2>7. \A i \in Ids : outcome'[i] = "unsent" => sends'[i] = 0
    BY <1>1, <2>1 DEF SendInputEvent, TypeOK, IInv
  <2> QED BY <2>3, <2>4, <2>5, <2>6, <2>7 DEF IInv
<1>2. ASSUME NEW seq \in SeqNums, OnAckMessage(seq) PROVE IInv'
  <2>1. Pending' = Pending \ (PoppedBelow(seq) \cup Matched(seq))
    BY <1>2 DEF OnAckMessage, Restrict, Pending
  <2>2. PoppedBelow(seq) \subseteq Pending /\ Matched(seq) \subseteq Pending
    BY DEF PoppedBelow, Matched
  <2>3. \A i \in Ids : outcome'[i] = IF i \in Matched(seq) THEN "acked"
                                   ELSE IF i \in PoppedBelow(seq) THEN "skipped"
                                   ELSE outcome[i]
    BY <1>2 DEF OnAckMessage
  <2> QED BY <1>2, <2>1, <2>2, <2>3 DEF OnAckMessage, IInv, receiver
<1>3. CASE ProcessRetries
  <2> PICK sent \in SUBSET Retryable :
         /\ pending' = [i \in Pending \ (Due \ sent) |->
                          IF i \in sent
                          THEN [retry_count |-> pending[i].retry_count + 1, age |-> 0]
                          ELSE pending[i]]
         /\ wire' = wire \cup sent
         /\ outcome' = [i \in Ids |-> IF i \in Due \ sent THEN "failed" ELSE outcome[i]]
         /\ sends' = [i \in Ids |-> IF i \in sent THEN sends[i] + 1 ELSE sends[i]]
    BY <1>3 DEF ProcessRetries
  <2>1. sent \subseteq Pending /\ Due \subseteq Pending /\ Pending \subseteq Ids
    BY DEF Retryable, Due, TypeOK
  <2>2. Pending' = Pending \ (Due \ sent)
    BY DEF Pending
  <2>3. sent \subseteq wire
    BY <2>1 DEF IInv
  <2> QED BY <1>3, <2>1, <2>2, <2>3 DEF ProcessRetries, IInv, receiver
<1>4. CASE Tick
  <2>1. Pending' = Pending
    BY <1>4 DEF Tick, Pending
  <2> QED BY <1>4, <2>1 DEF Tick, IInv, receiver
<1>5. ASSUME NEW i \in Ids, OnControlMessage(i) PROVE IInv'
  BY <1>5 DEF OnControlMessage, IInv, sender, Pending
<1>6. CASE UNCHANGED vars
  BY <1>6 DEF vars, sender, receiver, IInv, Pending
<1> QED BY <1>1, <1>2, <1>3, <1>4, <1>5, <1>6 DEF Next

\* The bookkeeping of queue, network and history holds in every reachable state.
THEOREM IInvCorrect == Spec => [](TypeOK /\ IInv)
BY InitType, NextType, InitIInv, NextIInv, PTL DEF Spec

-----------------------------------------------------------------------------
\* An ACK in the network names exactly one event, and that one was applied.
LEMMA AckNamesApplied ==
    ASSUME NoWrap, TypeOK, IInv, NEW seq \in acks
    PROVE  /\ seq \in applied
           /\ \A i \in Ids : SeqOf(i) = seq <=> i = seq
<1>1. \A i \in Ids : SeqOf(i) = i
  BY SeqOfType, ConstAssumption DEF NoWrap, Ids
<1>2. PICK i \in applied : SeqOf(i) = seq
  BY DEF IInv
<1> QED BY <1>1, <1>2 DEF TypeOK

AckInv == AckedWasApplied /\ SkippedBehindApplied

\* Without a wrap, no ACK moves the sender ahead of the receiver.
LEMMA NextAckInv == NoWrap /\ TypeOK /\ IInv /\ AckInv /\ [Next]_vars => AckInv'
<1> SUFFICES ASSUME NoWrap, TypeOK, IInv, AckInv, [Next]_vars PROVE AckInv'
  OBVIOUS
<1> USE ConstAssumption
<1>1. CASE SendInputEvent
  <2>1. next \in Ids /\ outcome'[next] \in {"pending", "rejected"}
    BY <1>1 DEF SendInputEvent, TypeOK, Ids
  <2>2. \A i \in Ids \ {next} : outcome'[i] = outcome[i]
    BY <1>1 DEF SendInputEvent, TypeOK
  <2> QED BY <1>1, <2>1, <2>2
          DEF SendInputEvent, AckInv, AckedWasApplied, SkippedBehindApplied, receiver
<1>2. ASSUME NEW seq \in SeqNums, OnAckMessage(seq) PROVE AckInv'
  <2>1. seq \in applied /\ \A i \in Ids : SeqOf(i) = seq <=> i = seq
    BY <1>2, AckNamesApplied DEF OnAckMessage
  <2>2. \A i \in Ids : SeqOf(i) = i
    BY SeqOfType DEF NoWrap, Ids
  <2>3. \A i \in Matched(seq) : i = seq
    BY <2>1 DEF Matched, TypeOK
  <2>4. \A i \in PoppedBelow(seq) : seq > i
    BY <2>2 DEF PoppedBelow, TypeOK, Ids
  <2>5. \A i \in Ids : outcome'[i] = IF i \in Matched(seq) THEN "acked"
                                   ELSE IF i \in PoppedBelow(seq) THEN "skipped"
                                   ELSE outcome[i]
    BY <1>2 DEF OnAckMessage
  <2>6. applied' = applied /\ seq \in Ids
    BY <1>2, <2>1 DEF OnAckMessage, receiver, TypeOK
  <2>7. AckedWasApplied'
    BY <2>1, <2>3, <2>5, <2>6 DEF AckInv, AckedWasApplied
  <2>8. SkippedBehindApplied'
    BY <2>1, <2>4, <2>5, <2>6 DEF AckInv, SkippedBehindApplied
  <2> QED BY <2>7, <2>8 DEF AckInv
<1>3. CASE ProcessRetries
  <2>1. \A i \in Ids : outcome'[i] = "failed" \/ outcome'[i] = outcome[i]
    BY <1>3 DEF ProcessRetries
  <2> QED BY <1>3, <2>1
          DEF ProcessRetries, AckInv, AckedWasApplied, SkippedBehindApplied, receiver
<1>4. CASE Tick
  BY <1>4 DEF Tick, AckInv, AckedWasApplied, SkippedBehindApplied, receiver
<1>5. ASSUME NEW i \in Ids, OnControlMessage(i) PROVE AckInv'
  BY <1>5 DEF OnControlMessage, AckInv, AckedWasApplied, SkippedBehindApplied, sender
<1>6. CASE UNCHANGED vars
  BY <1>6 DEF vars, sender, receiver, AckInv, AckedWasApplied, SkippedBehindApplied
<1> QED BY <1>1, <1>2, <1>3, <1>4, <1>5, <1>6 DEF Next

\* So acknowledged and popped events never outrun what was applied.
LEMMA AckInvCorrect == ASSUME NoWrap PROVE Spec => []AckInv
<1>1. Init => AckInv
  BY DEF Init, AckInv, AckedWasApplied, SkippedBehindApplied
<1>2. TypeOK /\ IInv /\ AckInv /\ [Next]_vars => AckInv'
  BY NextAckInv
<1> QED BY <1>1, <1>2, IInvCorrect, PTL DEF Spec

\* In a session whose numbers do not wrap, every event counted as
\* acknowledged was applied on the controlled host, however many datagrams
\* and ACKs are lost, duplicated or reordered.
THEOREM AckedImpliesApplied == ASSUME NoWrap PROVE Spec => []AckedWasApplied
BY AckInvCorrect, PTL DEF AckInv

\* In such a session an event is given up without a report only when a later
\* event has been applied.
THEOREM SkippedImpliesLaterApplied == ASSUME NoWrap PROVE Spec => []SkippedBehindApplied
BY AckInvCorrect, PTL DEF AckInv

-----------------------------------------------------------------------------
\* Every step of the protocol is a step of the delivery specification, or none.
LEMMA StepImplements ==
    NoWrap /\ TypeOK /\ IInv /\ [Next]_vars => [D!Next]_(D!vars)
<1> SUFFICES ASSUME NoWrap, TypeOK, IInv, [Next]_vars PROVE [D!Next]_(D!vars)
  OBVIOUS
<1> USE ConstAssumption
<1>0. D!Outstanding = Pending
  BY DEF D!Outstanding, IInv, TypeOK
<1>1. CASE SendInputEvent
  <2>1. next \in Ids /\ outcome[next] = "unsent"
    BY <1>1 DEF SendInputEvent, TypeOK, IInv, Ids
  <2>2. D!Offer(next)
    BY <1>1, <2>1 DEF SendInputEvent, D!Offer, receiver
  <2> QED BY <2>1, <2>2 DEF D!Next
<1>2. ASSUME NEW seq \in SeqNums, OnAckMessage(seq) PROVE [D!Next]_(D!vars)
  <2>1. seq \in applied /\ seq \in Ids /\ \A i \in Ids : SeqOf(i) = i
    BY <1>2, AckNamesApplied, SeqOfType DEF OnAckMessage, TypeOK, NoWrap, Ids
  <2>2. \A i \in Pending : i \in PoppedBelow(seq) <=> i < seq
    BY <2>1 DEF PoppedBelow, TypeOK, Ids
  <2>3. \A i \in Ids : i \in Matched(seq) <=> i = seq /\ i \in Pending
    BY <2>1, <2>2 DEF Matched, TypeOK
  <2> DEFINE old == PoppedBelow(seq)
  <2>4. old \in SUBSET {j \in D!Outstanding : j < seq}
    BY <1>0, <2>2 DEF PoppedBelow
  <2>5. seq \notin old
    BY <2>1, <2>4 DEF Ids
  <2>6. outcome' = [j \in Ids |-> IF j \in old THEN "skipped"
                                 ELSE IF j = seq /\ j \in D!Outstanding THEN "acked"
                                 ELSE outcome[j]]
    BY <1>0, <1>2, <2>3, <2>5 DEF OnAckMessage
  <2>7. D!Confirm(seq)
    BY <1>2, <2>1, <2>4, <2>6 DEF D!Confirm, OnAckMessage, receiver
  <2> QED BY <2>1, <2>7 DEF D!Next
<1>3. CASE ProcessRetries
  <2>1. PICK sent \in SUBSET Retryable :
           outcome' = [i \in Ids |-> IF i \in Due \ sent THEN "failed" ELSE outcome[i]]
    BY <1>3 DEF ProcessRetries
  <2>2. Due \ sent \in SUBSET D!Outstanding
    BY <1>0 DEF Due
  <2>3. D!GiveUp
    BY <1>3, <2>1, <2>2 DEF D!GiveUp, ProcessRetries, receiver
  <2> QED BY <2>3 DEF D!Next
<1>4. CASE Tick
  BY <1>4 DEF Tick, receiver, D!vars
<1>5. ASSUME NEW i \in Ids, OnControlMessage(i) PROVE [D!Next]_(D!vars)
  <2>1. D!Apply(i)
    BY <1>5 DEF OnControlMessage, D!Apply, D!Accepted, IInv, sender
  <2> QED BY <2>1 DEF D!Next
<1>6. CASE UNCHANGED vars
  BY <1>6 DEF vars, sender, receiver, D!vars
<1> QED BY <1>1, <1>2, <1>3, <1>4, <1>5, <1>6 DEF Next

\* In a session whose numbers do not wrap, the protocol of sequence numbers,
\* ACKs and retries does only what the delivery specification allows.
THEOREM Refinement == ASSUME NoWrap PROVE Spec => ImplementsDelivery
<1>1. Init => D!Init
  BY DEF Init, D!Init
<1>2. TypeOK /\ IInv /\ [Next]_vars => [D!Next]_(D!vars)
  BY StepImplements
<1> QED BY <1>1, <1>2, IInvCorrect, PTL DEF Spec, ImplementsDelivery, D!Spec

-----------------------------------------------------------------------------
\* The first two parts of SendsBounded, which do not need the third.
SendsLimited ==
    /\ \A i \in Ids : sends[i] <= 1 + kMaxRetries
    /\ \A i \in Pending : sends[i] = 1 + pending[i].retry_count

RetriesCounted == stats.events_retried = Cardinality(Repetitions)

LEMMA RepetitionsFinite == IsFiniteSet(Repetitions) /\ Cardinality(Repetitions) \in Nat
<1>1. IsFiniteSet(Ids) /\ IsFiniteSet(2 .. 1 + kMaxRetries)
  BY FS_Interval, ConstAssumption DEF Ids
<1>2. IsFiniteSet(Ids \X (2 .. 1 + kMaxRetries))
  BY <1>1, FS_Product
<1>3. Repetitions \in SUBSET (Ids \X (2 .. 1 + kMaxRetries))
  BY DEF Repetitions
<1> QED BY <1>2, <1>3, FS_Subset, FS_CardinalityType

\* A retry pass repeats one datagram for each resend that the connection took.
LEMMA RetriesKeepCount ==
    ASSUME TypeOK, SendsLimited, RetriesCounted, ProcessRetries
    PROVE  RetriesCounted'
<1> USE ConstAssumption
<1>1. PICK sent \in SUBSET Retryable :
        /\ stats' = [stats EXCEPT !.events_retried = @ + Cardinality(sent),
                                  !.events_failed = @ + Cardinality(Due \ sent)]
        /\ sends' = [i \in Ids |-> IF i \in sent THEN sends[i] + 1 ELSE sends[i]]
  BY DEF ProcessRetries, Retried
<1>2. \A i \in sent : i \in Ids /\ sends[i] \in Nat /\ sends[i] + 1 \in 2 .. 1 + kMaxRetries
  BY DEF Retryable, Due, TypeOK, Entry, SendsLimited
<1> DEFINE again == {<<i, sends[i] + 1>> : i \in sent}
           f == [i \in sent |-> <<i, sends[i] + 1>>]
<1>3. IsFiniteSet(sent) /\ Cardinality(sent) \in Nat
  BY <1>2, IdsFinite
<1>4. IsFiniteSet(again) /\ Cardinality(again) = Cardinality(sent)
  <2>1. f \in [sent -> again] /\ \A i \in sent : f[i] = <<i, sends[i] + 1>>
    OBVIOUS
  <2>2. \A i, j \in sent : f[i] = f[j] => i = j
    BY <2>1
  <2>3. \A r \in again : \E i \in sent : f[i] = r
    BY <2>1
  <2> HIDE DEF f, again
  <2>4. f \in Bijection(sent, again)
    BY <2>1, <2>2, <2>3 DEF Bijection, Injection, Surjection, IsInjective
  <2>5. ExistsBijection(sent, again)
    BY <2>4 DEF ExistsBijection
  <2> QED BY <1>3, <2>5, FS_Bijection
<1>5. again \subseteq Ids \X (2 .. 1 + kMaxRetries)
  BY <1>2
<1>6. Repetitions \cap again = {}
  <2> SUFFICES ASSUME NEW r \in again PROVE r \notin Repetitions
    OBVIOUS
  <2>1. PICK i \in sent : r = <<i, sends[i] + 1>>
    OBVIOUS
  <2> QED BY <1>2, <2>1 DEF Repetitions
<1>7. Repetitions' = Repetitions \cup again
  <2> SUFFICES ASSUME NEW i \in Ids, NEW k \in 2 .. 1 + kMaxRetries
               PROVE  k <= sends'[i] <=> k <= sends[i] \/ <<i, k>> \in again
    BY <1>5 DEF Repetitions
  <2>1. sends[i] \in Nat /\ k \in Nat
    BY DEF TypeOK
  <2>2. <<i, k>> \in again <=> i \in sent /\ k = sends[i] + 1
    OBVIOUS
  <2>3. sends'[i] = IF i \in sent THEN sends[i] + 1 ELSE sends[i]
    BY <1>1
  <2> HIDE DEF again
  <2> QED BY <2>1, <2>2, <2>3
<1> HIDE DEF again
<1>8. Cardinality(Repetitions') = Cardinality(Repetitions) + Cardinality(sent)
  <2>1. Cardinality(Repetitions \cup again)
          = Cardinality(Repetitions) + Cardinality(again) - Cardinality({})
    BY <1>4, <1>6, RepetitionsFinite, FS_Union
  <2> QED BY <1>3, <1>4, <1>7, <2>1, RepetitionsFinite, FS_EmptySet
<1>9. stats'.events_retried = stats.events_retried + Cardinality(sent)
  BY <1>1 DEF TypeOK, Counters
<1> QED BY <1>8, <1>9 DEF RetriesCounted

\* No other step repeats a datagram or counts one.
LEMMA NextKeepsCount ==
    ASSUME TypeOK, IInv, SendsLimited, RetriesCounted, [Next]_vars
    PROVE  RetriesCounted'
<1>1. ASSUME stats'.events_retried = stats.events_retried, sends' = sends
      PROVE  RetriesCounted'
  BY <1>1 DEF RetriesCounted, Repetitions
<1>2. CASE SendInputEvent
  <2>1. next \in Ids /\ sends[next] = 0
    BY <1>2, ConstAssumption DEF SendInputEvent, TypeOK, IInv, Ids
  <2>2. CASE UNCHANGED <<stats, sends>>
    BY <1>1, <2>2
  <2>3. CASE /\ stats' = [stats EXCEPT !.events_sent = @ + 1]
             /\ sends' = [sends EXCEPT ![next] = @ + 1]
    <3>1. stats'.events_retried = stats.events_retried
      BY <2>3 DEF TypeOK, Counters
    <3>2. \A i \in Ids : /\ sends[i] \in Nat
                         /\ sends'[i] = IF i = next THEN 1 ELSE sends[i]
      BY <2>1, <2>3 DEF TypeOK
    <3>3. ASSUME NEW i \in Ids, NEW k \in 2 .. 1 + kMaxRetries
          PROVE  k <= sends'[i] <=> k <= sends[i]
      BY <2>1, <3>2, ConstAssumption
    <3>4. Repetitions' = Repetitions
      BY <3>3 DEF Repetitions
    <3> QED BY <3>1, <3>4 DEF RetriesCounted
  <2> QED BY <1>2, <2>2, <2>3 DEF SendInputEvent
<1>3. ASSUME NEW seq \in SeqNums, OnAckMessage(seq) PROVE RetriesCounted'
  <2>1. stats'.events_retried = stats.events_retried /\ sends' = sends
    BY <1>3 DEF OnAckMessage, TypeOK, Counters
  <2> QED BY <1>1, <2>1
<1>4. CASE Tick
  BY <1>1, <1>4 DEF Tick
<1>5. ASSUME NEW i \in Ids, OnControlMessage(i) PROVE RetriesCounted'
  BY <1>1, <1>5 DEF OnControlMessage, sender
<1>6. CASE UNCHANGED vars
  BY <1>1, <1>6 DEF vars, sender
<1> QED BY <1>2, <1>3, <1>4, <1>5, <1>6, RetriesKeepCount DEF Next

\* The retry limit bounds the datagrams of every event, and events_retried counts
\* the repetitions among them.
THEOREM RetriesBounded == Spec => []SendsBounded
<1> USE ConstAssumption
<1>1. Init => SendsLimited
  BY DEF Init, SendsLimited, Pending, Ids
<1>2. TypeOK /\ IInv /\ SendsLimited /\ [Next]_vars => SendsLimited'
  <2> SUFFICES ASSUME TypeOK, IInv, SendsLimited, [Next]_vars PROVE SendsLimited'
    OBVIOUS
  <2>1. CASE SendInputEvent
    <3>1. next \in Ids /\ sends[next] = 0 /\ next \notin Pending
      BY <2>1 DEF SendInputEvent, TypeOK, IInv, Ids
    <3> QED BY <2>1, <3>1 DEF SendInputEvent, SendsLimited, TypeOK, Pending
  <2>2. ASSUME NEW seq \in SeqNums, OnAckMessage(seq) PROVE SendsLimited'
    <3>1. /\ Pending' \subseteq Pending
          /\ \A i \in Pending' : pending'[i] = pending[i]
      BY <2>2 DEF OnAckMessage, Restrict, Pending
    <3> QED BY <2>2, <3>1 DEF OnAckMessage, SendsLimited
  <2>3. CASE ProcessRetries
    <3> PICK sent \in SUBSET Retryable :
           /\ pending' = [i \in Pending \ (Due \ sent) |->
                            IF i \in sent
                            THEN [retry_count |-> pending[i].retry_count + 1, age |-> 0]
                            ELSE pending[i]]
           /\ sends' = [i \in Ids |-> IF i \in sent THEN sends[i] + 1 ELSE sends[i]]
      BY <2>3 DEF ProcessRetries
    <3>1. \A i \in sent : /\ i \in Pending
                          /\ pending[i].retry_count \in 0 .. kMaxRetries - 1
      BY DEF Retryable, Due, TypeOK, Entry
    <3>2. /\ Pending' \subseteq Pending
          /\ \A i \in Pending' : pending'[i].retry_count =
                IF i \in sent THEN pending[i].retry_count + 1 ELSE pending[i].retry_count
      BY DEF Pending
    <3>3. ASSUME NEW i \in Pending' PROVE sends'[i] = 1 + pending'[i].retry_count
      <4>1. /\ i \in Ids /\ i \in Pending
            /\ pending[i].retry_count \in Nat
            /\ sends[i] = 1 + pending[i].retry_count
        BY <3>2 DEF SendsLimited, TypeOK, Entry
      <4>2. sends'[i] = IF i \in sent THEN sends[i] + 1 ELSE sends[i]
        BY <4>1
      <4>3. pending'[i].retry_count =
                IF i \in sent THEN pending[i].retry_count + 1 ELSE pending[i].retry_count
        BY <3>2
      <4>4. CASE i \in sent
        BY <4>1, <4>2, <4>3, <4>4
      <4>5. CASE i \notin sent
        BY <4>1, <4>2, <4>3, <4>5
      <4> QED BY <4>4, <4>5
    <3>4. \A i \in Ids : sends'[i] <= 1 + kMaxRetries
      BY <3>1 DEF SendsLimited, TypeOK
    <3> QED BY <3>3, <3>4 DEF SendsLimited
  <2>4. CASE Tick
    <3>1. Pending' = Pending /\ \A i \in Pending : pending'[i].retry_count = pending[i].retry_count
      BY <2>4 DEF Tick, Pending, TypeOK, Entry
    <3> QED BY <2>4, <3>1 DEF Tick, SendsLimited
  <2>5. ASSUME NEW i \in Ids, OnControlMessage(i) PROVE SendsLimited'
    BY <2>5 DEF OnControlMessage, SendsLimited, sender, Pending
  <2>6. CASE UNCHANGED vars
    BY <2>6 DEF vars, sender, SendsLimited, Pending
  <2> QED BY <2>1, <2>2, <2>3, <2>4, <2>5, <2>6 DEF Next
<1>3. Init => RetriesCounted
  <2> SUFFICES ASSUME Init PROVE RetriesCounted
    OBVIOUS
  <2>1. Repetitions = {}
    BY DEF Init, Repetitions, Ids
  <2> QED BY <2>1, FS_EmptySet DEF Init, RetriesCounted, Counters
<1>4. SendsBounded <=> SendsLimited /\ RetriesCounted
  BY DEF SendsBounded, SendsLimited, RetriesCounted
<1>5. TypeOK /\ IInv /\ SendsBounded /\ [Next]_vars => SendsBounded'
  <2>1. SendsBounded' <=> SendsLimited' /\ RetriesCounted'
    BY DEF SendsBounded, SendsLimited, RetriesCounted
  <2> QED BY <1>2, <1>4, <2>1, NextKeepsCount
<1> QED BY <1>1, <1>3, <1>4, <1>5, IInvCorrect, PTL DEF Spec

-----------------------------------------------------------------------------
\* An event that left the queue is never touched or transmitted again, also
\* when sequence numbers wrap.
THEOREM SettledForGood == Spec => SettledStaysSettled
<1> DEFINE Kept == \A i \in Ids : outcome[i] \in D!Settled =>
                      /\ outcome'[i] = outcome[i]
                      /\ sends'[i] = sends[i]
                      /\ i \notin Pending'
<1>1. TypeOK /\ IInv /\ [Next]_vars => Kept
  <2> SUFFICES ASSUME TypeOK, IInv, [Next]_vars,
                      NEW i \in Ids, outcome[i] \in D!Settled
               PROVE  outcome'[i] = outcome[i] /\ sends'[i] = sends[i] /\ i \notin Pending'
    OBVIOUS
  <2> DEFINE Same == outcome'[i] = outcome[i] /\ sends'[i] = sends[i]
  <2> USE ConstAssumption DEF D!Settled
  <2>1. i \notin Pending /\ outcome[i] # "unsent"
    BY DEF IInv
  <2>2. ASSUME SendInputEvent PROVE Same
    BY <2>1, <2>2 DEF SendInputEvent, TypeOK, IInv
  <2>3. ASSUME NEW seq \in SeqNums, OnAckMessage(seq) PROVE Same
    BY <2>1, <2>3 DEF OnAckMessage, PoppedBelow, Matched
  <2>4. ASSUME ProcessRetries PROVE Same
    BY <2>1, <2>4 DEF ProcessRetries, Retryable, Due
  <2>5. ASSUME Tick PROVE Same
    BY <2>5 DEF Tick
  <2>6. ASSUME NEW j \in Ids, OnControlMessage(j) PROVE Same
    BY <2>6 DEF OnControlMessage, sender
  <2>7. ASSUME UNCHANGED vars PROVE Same
    BY <2>7 DEF vars, sender
  <2>8. Same
    BY <2>2, <2>3, <2>4, <2>5, <2>6, <2>7 DEF Next
  <2>9. i \notin Pending'
    <3>1. IInv'
      BY NextIInv
    <3> QED BY <3>1, <2>8 DEF IInv
  <2> QED BY <2>8, <2>9
<1> QED BY <1>1, IInvCorrect, PTL DEF Spec, SettledStaysSettled

-----------------------------------------------------------------------------
\* Counting disjoint and nested sets of events.
LEMMA CountEvents ==
    /\ \A S, T \in SUBSET Ids :
          S \cap T = {} => Cardinality(S \cup T) = Cardinality(S) + Cardinality(T)
    /\ \A S, T \in SUBSET Ids :
          T \subseteq S => Cardinality(S \ T) = Cardinality(S) - Cardinality(T)
<1>1. ASSUME NEW S \in SUBSET Ids, NEW T \in SUBSET Ids, S \cap T = {}
      PROVE  Cardinality(S \cup T) = Cardinality(S) + Cardinality(T)
  <2>1. Cardinality(S \cap T) = 0
    BY <1>1, FS_EmptySet
  <2>2. Cardinality(S \cup T) = Cardinality(S) + Cardinality(T) - Cardinality(S \cap T)
    BY IdsFinite, FS_Union
  <2> QED BY <2>1, <2>2, IdsFinite
<1>2. ASSUME NEW S \in SUBSET Ids, NEW T \in SUBSET Ids, T \subseteq S
      PROVE  Cardinality(S \ T) = Cardinality(S) - Cardinality(T)
  <2>1. S \cap T = T
    BY <1>2
  <2>2. Cardinality(S \ T) = Cardinality(S) - Cardinality(S \cap T)
    BY IdsFinite, FS_Difference
  <2> QED BY <2>1, <2>2
<1> QED BY <1>1, <1>2

\* An ACK moves events from the queue to acknowledged or popped, none twice.
LEMMA AckKeepsAccount ==
    ASSUME TypeOK, IInv, StatsAccount, NEW seq \in SeqNums, OnAckMessage(seq)
    PROVE  StatsAccount'
<1> DEFINE hit == Matched(seq)
           quiet == PoppedBelow(seq) \ Matched(seq)
<1>1. /\ hit \subseteq Pending /\ quiet \subseteq Pending /\ hit \cap quiet = {}
      /\ Pending \subseteq Ids /\ Skipped \subseteq Ids
      /\ Skipped \cap Pending = {}
  BY DEF Matched, PoppedBelow, TypeOK, IInv, Skipped
<1>2. Pending' = Pending \ (hit \cup quiet)
  BY DEF OnAckMessage, Restrict, Pending
<1>3. Skipped' = Skipped \cup quiet
  BY <1>1 DEF OnAckMessage, Skipped
<1> HIDE DEF hit, quiet
<1>4. Cardinality(Pending') = Cardinality(Pending) - Cardinality(hit \cup quiet)
  BY <1>1, <1>2, CountEvents
<1>5. Cardinality(hit \cup quiet) = Cardinality(hit) + Cardinality(quiet)
  BY <1>1, CountEvents
<1>6. Cardinality(Skipped') = Cardinality(Skipped) + Cardinality(quiet)
  BY <1>1, <1>3, CountEvents
<1>7. /\ stats'.events_acked = stats.events_acked + Cardinality(hit)
      /\ stats'.events_sent = stats.events_sent
      /\ stats'.events_failed = stats.events_failed
  BY DEF OnAckMessage, TypeOK, Counters, hit
<1>8. /\ Cardinality(hit) \in Nat /\ Cardinality(quiet) \in Nat
      /\ Cardinality(Pending) \in Nat /\ Cardinality(Skipped) \in Nat
      /\ stats.events_sent \in Nat /\ stats.events_acked \in Nat
      /\ stats.events_failed \in Nat
  BY <1>1, IdsFinite DEF TypeOK, Counters
<1> QED BY <1>4, <1>5, <1>6, <1>7, <1>8 DEF StatsAccount

\* A retry pass moves dropped events from the queue to failed.
LEMMA RetriesKeepAccount ==
    ASSUME TypeOK, IInv, StatsAccount, ProcessRetries
    PROVE  StatsAccount'
<1>1. PICK sent \in SUBSET Retryable :
        /\ Pending' = Pending \ (Due \ sent)
        /\ stats' = [stats EXCEPT !.events_retried = @ + Cardinality(sent),
                                  !.events_failed = @ + Cardinality(Due \ sent)]
        /\ outcome' = [i \in Ids |-> IF i \in Due \ sent THEN "failed" ELSE outcome[i]]
  BY DEF ProcessRetries, Retried, Pending
<1> DEFINE lost == Due \ sent
<1>2. lost \subseteq Pending /\ Pending \subseteq Ids /\ Skipped \subseteq Ids
  BY DEF Due, TypeOK, Skipped
<1>3. Skipped' = Skipped
  BY <1>1, <1>2 DEF Skipped, IInv
<1>4. /\ stats'.events_failed = stats.events_failed + Cardinality(lost)
      /\ stats'.events_sent = stats.events_sent
      /\ stats'.events_acked = stats.events_acked
  BY <1>1 DEF TypeOK, Counters
<1>5. Cardinality(Pending') = Cardinality(Pending) - Cardinality(lost)
  BY <1>1, <1>2, CountEvents
<1> HIDE DEF lost
<1>6. /\ Cardinality(lost) \in Nat
      /\ Cardinality(Pending) \in Nat /\ Cardinality(Skipped) \in Nat
      /\ stats.events_sent \in Nat /\ stats.events_acked \in Nat
      /\ stats.events_failed \in Nat
  BY <1>2, IdsFinite DEF TypeOK, Counters
<1> QED BY <1>3, <1>4, <1>5, <1>6 DEF StatsAccount

\* A sent event is queued and counted together, a refused one neither.
LEMMA SendKeepsAccount ==
    ASSUME TypeOK, IInv, StatsAccount, SendInputEvent
    PROVE  StatsAccount'
<1>1. next \in Ids /\ next \notin Pending /\ outcome[next] = "unsent"
  BY ConstAssumption DEF SendInputEvent, TypeOK, IInv, Ids
<1>2. Skipped' = Skipped
  BY <1>1 DEF SendInputEvent, Skipped, TypeOK
<1>3. CASE UNCHANGED <<pending, stats>>
  BY <1>2, <1>3 DEF StatsAccount, Pending
<1>4. CASE /\ Pending' = Pending \cup {next}
           /\ stats' = [stats EXCEPT !.events_sent = @ + 1]
  <2>1. IsFiniteSet(Pending) /\ Cardinality(Pending) \in Nat /\ Cardinality(Skipped) \in Nat
    BY IdsFinite DEF TypeOK, Skipped
  <2>2. Cardinality(Pending') = Cardinality(Pending) + 1
    BY <1>1, <1>4, <2>1, FS_AddElement
  <2>3. /\ stats'.events_sent = stats.events_sent + 1
        /\ stats'.events_acked = stats.events_acked
        /\ stats'.events_failed = stats.events_failed
        /\ stats.events_sent \in Nat /\ stats.events_acked \in Nat
        /\ stats.events_failed \in Nat
    BY <1>4 DEF TypeOK, Counters
  <2> QED BY <1>2, <2>1, <2>2, <2>3 DEF StatsAccount
<1> QED BY <1>3, <1>4 DEF SendInputEvent, Pending

\* The statistics account for every accepted event exactly once; what they
\* miss are exactly the events an ACK of a later event popped.
THEOREM StatsAccounted == Spec => []StatsAccount
<1>1. Init => StatsAccount
  <2> SUFFICES ASSUME Init PROVE StatsAccount
    OBVIOUS
  <2>1. Pending = {} /\ Skipped = {}
    BY DEF Init, Pending, Skipped
  <2> QED BY <2>1, FS_EmptySet DEF Init, StatsAccount, Counters
<1>2. TypeOK /\ IInv /\ StatsAccount /\ [Next]_vars => StatsAccount'
  <2> SUFFICES ASSUME TypeOK, IInv, StatsAccount, [Next]_vars PROVE StatsAccount'
    OBVIOUS
  <2>1. CASE Tick
    <3>1. Pending' = Pending
      BY <2>1 DEF Tick, Pending
    <3> QED BY <2>1, <3>1 DEF Tick, StatsAccount, Skipped
  <2>2. ASSUME NEW i \in Ids, OnControlMessage(i) PROVE StatsAccount'
    BY <2>2 DEF OnControlMessage, sender, StatsAccount, Skipped, Pending
  <2>3. CASE UNCHANGED vars
    BY <2>3 DEF vars, sender, StatsAccount, Skipped, Pending
  <2> QED BY <2>1, <2>2, <2>3, SendKeepsAccount, AckKeepsAccount, RetriesKeepAccount DEF Next
<1> QED BY <1>1, <1>2, IInvCorrect, PTL DEF Spec

-----------------------------------------------------------------------------
(* The handshake.                                                          *)


\* Sessions identify controller attempts, and every answer in the network still
\* describes the host manager that sent it, as far as no direct call of
\* SendHandshakeResponse made that manager answer again.
HandshakeInv ==
    /\ \A c \in Controllers : state[c] = "kIdle" <=> session_id[c] = None
    /\ \A c, d \in Controllers :
          session_id[c] = session_id[d] /\ session_id[c] # None => c = d
    /\ \A req \in requests : session_id[req.ssrc] = req.session_id
    /\ \A h \in Hosts : /\ directly[h] \subseteq requests
                        /\ directly[h] # {} => state[h] # "kIdle"

Answers(ack, req) ==
    /\ req.session_id = ack.session_id
    /\ directly[ack.ssrc] \subseteq {req} =>
          remote_ssrc[ack.ssrc] = req.ssrc /\ session_id[ack.ssrc] = req.session_id
    /\ directly[ack.ssrc] = {} => state[ack.ssrc] = "kCompleted"

AnswersInv == \A ack \in responses : \E req \in requests : Answers(ack, req)

Safe == HandshakeTypeOK /\ HandshakeInv /\ AnswersInv /\ HostKnowsPeer /\ Agreement

\* Nothing is sent and nobody has completed at first.
LEMMA InitSafe == HandshakeInit => Safe
<1> SUFFICES ASSUME HandshakeInit PROVE Safe
  OBVIOUS
<1> USE ManagersAssumption DEF HandshakeInit, Managers
<1>1. HandshakeTypeOK
  BY DEF HandshakeTypeOK, States, Payload
<1>2. HandshakeInv /\ AnswersInv
  BY DEF HandshakeInv, AnswersInv
<1>3. HostKnowsPeer /\ Agreement
  BY DEF HostKnowsPeer, Agreement
<1> QED BY <1>1, <1>2, <1>3 DEF Safe

\* Starting an attempt draws a new session id and disturbs no other manager.
LEMMA InitiateSafe ==
    ASSUME Safe, NEW c \in Controllers, InitiateHandshake(c)
    PROVE  Safe'
<1> USE ManagersAssumption DEF Managers
<1>1. PICK s \in Unused :
        /\ session_id' = [session_id EXCEPT ![c] = s]
        /\ \/ /\ requests' = requests \cup {[session_id |-> s, ssrc |-> c]}
              /\ state' = [state EXCEPT ![c] = "kRequestSent"]
           \/ /\ state' = [state EXCEPT ![c] = "kFailed"]
              /\ UNCHANGED requests
  BY DEF InitiateHandshake
<1>2. /\ s \in SessionIds /\ s # None
      /\ \A d \in Controllers : session_id[d] # s
      /\ state[c] = "kIdle" /\ session_id[c] = None
      /\ \A h \in Hosts : h # c
  BY DEF Unused, InitiateHandshake, Safe, HandshakeInv
<1>3. UNCHANGED <<remote_ssrc, responses, directly>> /\ requests \subseteq requests'
  BY <1>1 DEF InitiateHandshake
<1>4. HandshakeTypeOK'
  BY <1>1, <1>2, <1>3 DEF Safe, HandshakeTypeOK, States, Payload
<1>5. /\ session_id'[c] = s /\ state'[c] \in {"kRequestSent", "kFailed"}
      /\ \A m \in Managers \ {c} : session_id'[m] = session_id[m] /\ state'[m] = state[m]
  BY <1>1 DEF Safe, HandshakeTypeOK
<1>6. \A req \in requests : req.ssrc \in Controllers \ {c}
  BY <1>2 DEF Safe, HandshakeTypeOK, HandshakeInv, Payload
<1>7. \A ack \in responses : ack.ssrc \in Hosts
  BY DEF Safe, HandshakeTypeOK, Payload
<1>8. HandshakeInv'
  <2>1. \A req \in requests' : session_id'[req.ssrc] = req.session_id
    BY <1>1, <1>5, <1>6 DEF Safe, HandshakeInv
  <2>2. \A h \in Hosts : /\ directly'[h] \subseteq requests'
                         /\ directly'[h] # {} => state'[h] # "kIdle"
    BY <1>2, <1>3, <1>5 DEF Safe, HandshakeInv
  <2>3. /\ \A d \in Controllers : state'[d] = "kIdle" <=> session_id'[d] = None
        /\ \A d, e \in Controllers :
              session_id'[d] = session_id'[e] /\ session_id'[d] # None => d = e
    BY <1>2, <1>5 DEF Safe, HandshakeInv
  <2> QED BY <2>1, <2>2, <2>3 DEF HandshakeInv
<1>9. AnswersInv'
  <2> SUFFICES ASSUME NEW ack \in responses
               PROVE  \E req \in requests' : Answers(ack, req)'
    BY <1>3 DEF AnswersInv
  <2>1. PICK req \in requests : Answers(ack, req)
    BY DEF Safe, AnswersInv
  <2>2. Answers(ack, req)'
    BY <1>2, <1>3, <1>5, <1>7, <2>1 DEF Answers
  <2> QED BY <1>3, <2>2
<1>10. HostKnowsPeer'
  BY <1>2, <1>3, <1>5 DEF Safe, HostKnowsPeer
<1>11. Agreement'
  <2> SUFFICES ASSUME NEW d \in Controllers, state'[d] = "kCompleted"
               PROVE  \E h \in Hosts :
                         /\ remote_ssrc'[d] = h
                         /\ directly'[h] \subseteq {Request(d)'} =>
                               remote_ssrc'[h] = d /\ session_id'[h] = session_id'[d]
                         /\ directly'[h] = {} => state'[h] = "kCompleted"
    BY DEF Agreement
  <2>1. d # c /\ state[d] = "kCompleted" /\ Request(d)' = Request(d)
    BY <1>5 DEF Request
  <2> QED BY <1>2, <1>3, <1>5, <2>1 DEF Safe, Agreement
<1> QED BY <1>4, <1>8, <1>9, <1>10, <1>11 DEF Safe

\* An accepted answer comes from the host manager that met this very attempt.
LEMMA ResponseSafe ==
    ASSUME Safe, NEW c \in Controllers, WaitForHandshakeResponse(c)
    PROVE  Safe'
<1> USE ManagersAssumption DEF Managers
<1>1. /\ state[c] = "kRequestSent" /\ session_id[c] # None
      /\ UNCHANGED <<session_id, requests, responses, directly>>
      /\ \A h \in Hosts : h # c
      /\ \A ack \in responses : ack.ssrc \in Hosts
      /\ \A d \in Controllers : Request(d)' = Request(d)
  BY DEF WaitForHandshakeResponse, Safe, HandshakeInv, HandshakeTypeOK, Payload, Request
<1>2. /\ state' = [state EXCEPT ![c] = state'[c]] /\ state'[c] \in {"kCompleted", "kFailed"}
      /\ remote_ssrc' = [remote_ssrc EXCEPT ![c] = remote_ssrc'[c]]
      /\ remote_ssrc'[c] \in Managers \cup {None}
  BY <1>1 DEF WaitForHandshakeResponse, Safe, HandshakeTypeOK
<1>3. /\ \A m \in Managers \ {c} : state'[m] = state[m] /\ remote_ssrc'[m] = remote_ssrc[m]
      /\ \A h \in Hosts : state'[h] = state[h] /\ remote_ssrc'[h] = remote_ssrc[h]
  BY <1>1, <1>2 DEF Safe, HandshakeTypeOK
<1>4. HandshakeTypeOK'
  BY <1>1, <1>2 DEF Safe, HandshakeTypeOK, States
<1>5. HandshakeInv'
  BY <1>1, <1>2, <1>3 DEF Safe, HandshakeInv
<1>6. AnswersInv'
  <2> SUFFICES ASSUME NEW ack \in responses
               PROVE  \E req \in requests : Answers(ack, req)'
    BY <1>1 DEF AnswersInv
  <2>1. PICK req \in requests : Answers(ack, req)
    BY DEF Safe, AnswersInv
  <2>2. Answers(ack, req)'
    BY <1>1, <1>3, <2>1 DEF Answers
  <2> QED BY <2>2
<1>7. HostKnowsPeer'
  BY <1>1, <1>2, <1>3 DEF Safe, HandshakeTypeOK, HostKnowsPeer
<1>8. Agreement'
  <2> SUFFICES ASSUME NEW d \in Controllers, state'[d] = "kCompleted"
               PROVE  \E h \in Hosts :
                         /\ remote_ssrc'[d] = h
                         /\ directly'[h] \subseteq {Request(d)'} =>
                               remote_ssrc'[h] = d /\ session_id'[h] = session_id'[d]
                         /\ directly'[h] = {} => state'[h] = "kCompleted"
    BY DEF Agreement
  <2>1. CASE d # c
    <3>1. state[d] = "kCompleted" /\ remote_ssrc'[d] = remote_ssrc[d]
      BY <1>3, <2>1
    <3> QED BY <1>1, <1>3, <3>1 DEF Safe, Agreement
  <2>2. CASE d = c
    <3>1. PICK ack \in responses :
            ack.session_id = session_id[c] /\ remote_ssrc'[c] = ack.ssrc
      BY <1>1, <2>2 DEF WaitForHandshakeResponse, Accepts, Safe, HandshakeTypeOK
    <3>2. PICK req \in requests : Answers(ack, req)
      BY DEF Safe, AnswersInv
    <3>3. req.ssrc = c /\ req.session_id = session_id[c] /\ req = Request(c)
      BY <1>1, <3>1, <3>2 DEF Answers, Safe, HandshakeTypeOK, HandshakeInv, Payload, Request
    <3> QED BY <1>1, <1>3, <2>2, <3>1, <3>2, <3>3 DEF Answers
  <2> QED BY <2>1, <2>2
<1> QED BY <1>4, <1>5, <1>6, <1>7, <1>8 DEF Safe

\* What an answer, sent or refused, changes: only the manager that gives it.
Responded(h, req) ==
    /\ requests' = requests
    /\ \A c \in Controllers : /\ c # h
                              /\ state'[c] = state[c]
                              /\ session_id'[c] = session_id[c]
                              /\ remote_ssrc'[c] = remote_ssrc[c]
                              /\ Request(c)' = Request(c)
    /\ \A g \in Hosts \ {h} : /\ state'[g] = state[g]
                              /\ session_id'[g] = session_id[g]
                              /\ remote_ssrc'[g] = remote_ssrc[g]
                              /\ directly'[g] = directly[g]
    /\ session_id'[h] = req.session_id /\ remote_ssrc'[h] = req.ssrc
    /\ \/ /\ responses' = responses \cup {[session_id |-> req.session_id, ssrc |-> h]}
          /\ state'[h] = "kCompleted"
       \/ responses' = responses /\ state'[h] = "kFailed"

\* An answer changes nobody else, and its manager knows who asked.
LEMMA RespondChanges ==
    ASSUME Safe, NEW h \in Hosts, NEW req \in requests, Respond(h, req),
           \/ directly' = directly /\ state[h] = "kIdle"
           \/ directly' = [directly EXCEPT ![h] = @ \cup {req}]
    PROVE  Responded(h, req) /\ HandshakeTypeOK' /\ HandshakeInv' /\ HostKnowsPeer'
<1> USE ManagersAssumption DEF Managers
<1>1. /\ \A c \in Controllers : h # c
      /\ \A ack \in responses : ack.ssrc \in Hosts
      /\ requests' = requests
  BY DEF Respond, Safe, HandshakeTypeOK, Payload
<1>2. /\ req.ssrc \in Controllers /\ req.session_id \in SessionIds
      /\ session_id[req.ssrc] = req.session_id /\ state[req.ssrc] # "kIdle"
      /\ req \in Payload(Controllers)
  BY DEF Safe, HandshakeTypeOK, HandshakeInv, Payload
<1>3. /\ session_id'[h] = req.session_id /\ remote_ssrc'[h] = req.ssrc
      /\ \A m \in Managers \ {h} : /\ session_id'[m] = session_id[m]
                                   /\ remote_ssrc'[m] = remote_ssrc[m]
                                   /\ state'[m] = state[m]
  BY DEF Respond, Learn, Safe, HandshakeTypeOK
<1>4. \/ /\ responses' = responses \cup {[session_id |-> req.session_id, ssrc |-> h]}
         /\ state'[h] = "kCompleted"
      \/ responses' = responses /\ state'[h] = "kFailed"
  BY DEF Respond, Answer, Safe, HandshakeTypeOK
<1>5. /\ \A g \in Hosts \ {h} : directly'[g] = directly[g]
      /\ directly'[h] \in {directly[h], directly[h] \cup {req}}
      /\ directly' \in [Hosts -> SUBSET Payload(Controllers)]
  BY <1>2 DEF Safe, HandshakeTypeOK
<1>6. HandshakeTypeOK'
  BY <1>1, <1>2, <1>5
     DEF Respond, Learn, Answer, Safe, HandshakeTypeOK, States, Payload
<1>7. \A c \in Controllers : Request(c)' = Request(c)
  BY <1>1, <1>3 DEF Request
<1>8. HandshakeInv'
  <2>1. \A r \in requests' : session_id'[r.ssrc] = r.session_id
    BY <1>1, <1>3 DEF Safe, HandshakeTypeOK, HandshakeInv, Payload
  <2>2. \A c \in Controllers : state'[c] = state[c] /\ session_id'[c] = session_id[c]
    BY <1>1, <1>3
  <2>3. \A g \in Hosts : /\ directly'[g] \subseteq requests'
                         /\ directly'[g] # {} => state'[g] # "kIdle"
    BY <1>1, <1>3, <1>4, <1>5 DEF Safe, HandshakeInv
  <2> QED BY <2>1, <2>2, <2>3 DEF Safe, HandshakeInv
<1>9. HostKnowsPeer'
  BY <1>1, <1>2, <1>3 DEF Safe, HostKnowsPeer
<1>10. Responded(h, req)
  BY <1>1, <1>3, <1>4, <1>5, <1>7 DEF Responded
<1> QED BY <1>6, <1>8, <1>9, <1>10

\* From kIdle, by WaitForHandshakeRequest, nobody knows the manager yet.
LEMMA RequestSafe ==
    ASSUME Safe, NEW h \in Hosts, WaitForHandshakeRequest(h)
    PROVE  Safe'
<1>1. PICK req \in requests : Respond(h, req)
  BY DEF WaitForHandshakeRequest
<1>2. state[h] = "kIdle" /\ directly' = directly /\ directly[h] = {}
  BY DEF WaitForHandshakeRequest, Waiting, Safe, HandshakeInv
<1>2a. Responded(h, req) /\ HandshakeTypeOK' /\ HandshakeInv' /\ HostKnowsPeer'
  BY <1>1, <1>2, RespondChanges
<1>3. \A ack \in responses : ack.ssrc \in Hosts \ {h}
  BY <1>2 DEF Safe, AnswersInv, Answers, HandshakeTypeOK, Payload
<1>4. AnswersInv'
  <2> SUFFICES ASSUME NEW ack \in responses'
               PROVE  \E r \in requests' : Answers(ack, r)'
    BY DEF AnswersInv
  <2>1. CASE ack \in responses
    <3>1. PICK r \in requests : Answers(ack, r)
      BY <2>1 DEF Safe, AnswersInv
    <3>2. Answers(ack, r)'
      BY <1>2a, <1>2, <1>3, <2>1, <3>1 DEF Answers, Responded
    <3> QED BY <1>2a, <1>2, <3>2 DEF Responded
  <2>2. CASE ack = [session_id |-> req.session_id, ssrc |-> h] /\ state'[h] = "kCompleted"
    <3>1. Answers(ack, req)'
      BY <1>2a, <1>2, <2>2 DEF Answers, Responded
    <3> QED BY <1>2a, <1>2, <3>1 DEF Responded
  <2> QED BY <1>2a, <1>2, <2>1, <2>2 DEF Responded
<1>5. Agreement'
  <2> SUFFICES ASSUME NEW c \in Controllers, state'[c] = "kCompleted"
               PROVE  \E g \in Hosts :
                         /\ remote_ssrc'[c] = g
                         /\ directly'[g] \subseteq {Request(c)'} =>
                               remote_ssrc'[g] = c /\ session_id'[g] = session_id'[c]
                         /\ directly'[g] = {} => state'[g] = "kCompleted"
    BY DEF Agreement
  <2>1. state[c] = "kCompleted"
    BY <1>2a, <1>2 DEF Responded
  <2>2. PICK g \in Hosts :
          /\ remote_ssrc[c] = g
          /\ directly[g] \subseteq {Request(c)} =>
                remote_ssrc[g] = c /\ session_id[g] = session_id[c]
          /\ directly[g] = {} => state[g] = "kCompleted"
    BY <2>1 DEF Safe, Agreement
  <2>3. g # h
    BY <1>2, <2>2
  <2> QED BY <1>2a, <1>2, <2>2, <2>3 DEF Responded
<1> QED BY <1>2a, <1>2, <1>4, <1>5 DEF Safe, Responded

\* A direct call may change the peer of a manager others know already, but it
\* leaves the request it answers in the history.
LEMMA DirectSafe ==
    ASSUME Safe, NEW h \in Hosts, SendHandshakeResponse(h)
    PROVE  Safe'
<1>1. PICK req \in requests :
        Respond(h, req) /\ directly' = [directly EXCEPT ![h] = @ \cup {req}]
  BY DEF SendHandshakeResponse
<1>2. /\ directly'[h] = directly[h] \cup {req}
      /\ req.ssrc \in Controllers
      /\ session_id[req.ssrc] = req.session_id
      /\ \A ack \in responses : ack.ssrc \in Hosts
      /\ \A g \in Hosts \ {h} : directly'[g] = directly[g]
  BY <1>1 DEF Safe, HandshakeTypeOK, HandshakeInv, Payload
<1>2a. Responded(h, req) /\ HandshakeTypeOK' /\ HandshakeInv' /\ HostKnowsPeer'
  BY <1>1, RespondChanges
<1>3. AnswersInv'
  <2> SUFFICES ASSUME NEW ack \in responses'
               PROVE  \E r \in requests' : Answers(ack, r)'
    BY DEF AnswersInv
  <2>1. CASE ack \in responses
    <3>1. PICK r \in requests : Answers(ack, r)
      BY <2>1 DEF Safe, AnswersInv
    <3>2. Answers(ack, r)'
      BY <1>2a, <1>2, <2>1, <3>1 DEF Answers, Responded
    <3> QED BY <1>2a, <3>2 DEF Responded
  <2>2. CASE ack = [session_id |-> req.session_id, ssrc |-> h] /\ state'[h] = "kCompleted"
    <3>1. Answers(ack, req)'
      BY <1>2a, <2>2 DEF Answers, Responded
    <3> QED BY <1>2a, <3>1 DEF Responded
  <2> QED BY <1>2a, <2>1, <2>2 DEF Responded
<1>4. Agreement'
  <2> SUFFICES ASSUME NEW c \in Controllers, state'[c] = "kCompleted"
               PROVE  \E g \in Hosts :
                         /\ remote_ssrc'[c] = g
                         /\ directly'[g] \subseteq {Request(c)'} =>
                               remote_ssrc'[g] = c /\ session_id'[g] = session_id'[c]
                         /\ directly'[g] = {} => state'[g] = "kCompleted"
    BY DEF Agreement
  <2>1. state[c] = "kCompleted"
    BY <1>2a DEF Responded
  <2>2. PICK g \in Hosts :
          /\ remote_ssrc[c] = g
          /\ directly[g] \subseteq {Request(c)} =>
                remote_ssrc[g] = c /\ session_id[g] = session_id[c]
          /\ directly[g] = {} => state[g] = "kCompleted"
    BY <2>1 DEF Safe, Agreement
  <2>3. remote_ssrc'[c] = g /\ session_id'[c] = session_id[c] /\ Request(c)' = Request(c)
    BY <1>2a, <2>2 DEF Responded
  <2>4. CASE g # h
    BY <1>2a, <2>2, <2>3, <2>4 DEF Responded
  <2>5. CASE g = h
    <3>1. directly'[h] \subseteq {Request(c)} => req.ssrc = c /\ req.session_id = session_id[c]
      BY <1>2 DEF Request
    <3>2. remote_ssrc'[h] = req.ssrc /\ session_id'[h] = req.session_id
      BY <1>2a DEF Responded
    <3> QED BY <1>2, <2>3, <2>5, <3>1, <3>2
  <2> QED BY <2>4, <2>5
<1> QED BY <1>2a, <1>3, <1>4 DEF Safe, Responded

\* The inductive invariant holds in every reachable state.
THEOREM SafeCorrect == HandshakeSpec => []Safe
<1>1. Safe /\ [HandshakeNext]_handshakeVars => Safe'
  <2> SUFFICES ASSUME Safe, [HandshakeNext]_handshakeVars PROVE Safe'
    OBVIOUS
  <2>1. CASE UNCHANGED handshakeVars
    BY <2>1 DEF handshakeVars, Safe, HandshakeTypeOK, HandshakeInv, AnswersInv, Answers,
                HostKnowsPeer, Agreement, Request
  <2> QED BY <2>1, InitiateSafe, ResponseSafe, RequestSafe, DirectSafe DEF HandshakeNext
<1> QED BY <1>1, InitSafe, PTL DEF HandshakeSpec

\* A controller that completed agrees with a completed host manager on the
\* session and on both SSRCs, until the application itself has that manager
\* answer another request, or answer again.
THEOREM HandshakeAgreement == HandshakeSpec => []Agreement
BY SafeCorrect, PTL DEF Safe

\* A host manager that answered knows the controller attempt that asked, also
\* when direct calls made it answer several.
THEOREM HostPeerKnown == HandshakeSpec => []HostKnowsPeer
BY SafeCorrect, PTL DEF Safe

\* Two controller attempts never complete with the same host manager, unless
\* the application called SendHandshakeResponse on it directly.
THEOREM HostsServeOne == HandshakeSpec => []HostServesOne
<1>1. Safe => HostServesOne
  BY DEF Safe, Agreement, HostServesOne
<1> QED BY <1>1, SafeCorrect, PTL
=============================================================================
