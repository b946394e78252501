--------------------------- MODULE ReliableInput ---------------------------
(***************************************************************************)
(* Input events over UDP: ReliableInputSender on the controller,           *)
(* ReliableInputReceiver on the controlled host (network/protocol/         *)
(* reliable_input.{h,cpp}), and the datagrams between them.                *)
(*                                                                         *)
(* The i-th call of SendInputEvent that reaches the connection is event i; *)
(* it carries the 16-bit number SeqOf(i), which is all that an ACK echoes. *)
(* pending_messages_ is a FIFO queue whose order is the send order (a      *)
(* retry keeps its place), so it is a function on the set of queued        *)
(* events, and its front is the smallest of them.                          *)
(*                                                                         *)
(* UDP may lose, duplicate, delay and reorder: a datagram, once sent, may  *)
(* be delivered never, or at any later moments, any number of times.       *)
(***************************************************************************)
EXTENDS Integers, FiniteSets, Functions

CONSTANTS
    MaxEvents,      \* bound: how many events the controller tries to send
    SeqMod,         \* 2^16 in the code: sequence numbers are uint16_t
    kMaxRetries,    \* 3 in the code
    RetryTicks      \* kRetryTimeoutMs, in ticks of the model's clock

ASSUME ConstAssumption ==
    /\ MaxEvents \in Nat
    /\ SeqMod \in Nat \ {0}
    /\ kMaxRetries \in Nat
    /\ RetryTicks \in Nat \ {0}

VARIABLES
    \* ReliableInputSender
    next,           \* next_sequence_number_, before it wraps
    pending,        \* pending_messages_: [retry_count, age of send_time]
    stats,          \* Stats
    \* ReliableInputReceiver
    ack_sequence_number,
    applied,        \* the events callback_ was called with
    \* the network
    wire,           \* events with a datagram handed to the socket
    acks,           \* acked_sequence of the ACK datagrams sent back
    \* history
    outcome,        \* how each event left pending_messages_
    sends           \* datagrams sent for each event

sender == <<next, pending, stats, outcome, sends>>
receiver == <<ack_sequence_number, applied>>
vars == <<sender, receiver, wire, acks>>

Ids == 0 .. MaxEvents - 1
SeqNums == 0 .. SeqMod - 1
SeqOf(i) == i % SeqMod

Pending == DOMAIN pending

Entry == [retry_count : 0 .. kMaxRetries, age : 0 .. RetryTicks]
Counters == {"events_sent", "events_acked", "events_retried", "events_failed"}

Init ==
    /\ next = 0
    /\ pending = << >>
    /\ stats = [c \in Counters |-> 0]
    /\ ack_sequence_number = 0
    /\ applied = {}
    /\ wire = {}
    /\ acks = {}
    /\ outcome = [i \in Ids |-> "unsent"]
    /\ sends = [i \in Ids |-> 0]

-----------------------------------------------------------------------------
(* The sender.  A connection that is not initialized makes SendInputEvent  *)
(* return before it touches anything: no step.                             *)

\* The number is used up even when the connection refuses the datagram; the
\* event is queued and counted only when it was sent.
SendInputEvent ==
    /\ next < MaxEvents
    /\ next' = next + 1
    /\ \/ /\ pending' = [j \in Pending \cup {next} |->
                           IF j = next THEN [retry_count |-> 0, age |-> 0]
                                       ELSE pending[j]]
          /\ stats' = [stats EXCEPT !.events_sent = @ + 1]
          /\ wire' = wire \cup {next}
          /\ outcome' = [outcome EXCEPT ![next] = "pending"]
          /\ sends' = [sends EXCEPT ![next] = @ + 1]
       \/ /\ outcome' = [outcome EXCEPT ![next] = "rejected"]
          /\ UNCHANGED <<pending, stats, wire, sends>>
    /\ UNCHANGED <<receiver, acks>>

\* (Bug: pop whatever is not the acknowledged event, however it is numbered.)
PoppedBelow_NoOrder(seq) ==
    {i \in Pending : \A j \in Pending : j <= i => SeqOf(j) # seq}

\* Queued events popped because everything before and including them is
\* numbered below the ACK.  The comparison is of plain integers.
PoppedBelow(seq) ==
    {i \in Pending : \A j \in Pending : j <= i => SeqOf(j) < seq}

\* (Bug: count every event up to the ACK as acknowledged.)
Matched_Cumulative(seq) ==
    {i \in Pending : \A j \in Pending : j <= i => SeqOf(j) <= seq}

\* (Bug: count an ACK whose event has already left the queue.)
Matched_Unqueued(seq) ==
    {i \in Ids : i < next /\ SeqOf(i) = seq}

\* The event at the front of what is left, when it is the one acknowledged.
Matched(seq) ==
    {i \in Pending : /\ SeqOf(i) = seq
                     /\ \A j \in Pending : j < i => j \in PoppedBelow(seq)}

OnAckMessage(seq) ==
    /\ seq \in acks
    /\ LET below == PoppedBelow(seq)
           hit == Matched(seq)
       IN  /\ pending' = Restrict(pending, Pending \ (below \cup hit))
           /\ stats' = [stats EXCEPT !.events_acked = @ + Cardinality(hit)]
           /\ outcome' = [i \in Ids |-> IF i \in hit THEN "acked"
                                        ELSE IF i \in below THEN "skipped"
                                        ELSE outcome[i]]
    /\ UNCHANGED <<next, sends, receiver, wire, acks>>

\* (Bug: an age at the timeout does not count.)
Due_Later == {i \in Pending : pending[i].age > RetryTicks}

Due == {i \in Pending : pending[i].age >= RetryTicks}

\* (Bug: one retry too many.)
Retryable_OneMore == {i \in Due : pending[i].retry_count <= kMaxRetries}

Retryable == {i \in Due : pending[i].retry_count < kMaxRetries}

\* (Bug: count a resend before it is known whether the connection took it.)
Retried_Attempts(sent) == Cardinality(Retryable)

Retried(sent) == Cardinality(sent)

\* One pass over the queue.  sent holds the resends the connection took; an
\* event that is due and not resent is dropped and counted as failed.
ProcessRetries ==
    /\ Due # {}
    /\ \E sent \in SUBSET Retryable :
          LET failed == Due \ sent
          IN  /\ pending' = [i \in Pending \ failed |->
                               IF i \in sent
                               THEN [retry_count |-> pending[i].retry_count + 1,
                                     age |-> 0]
                               ELSE pending[i]]
              /\ stats' = [stats EXCEPT
                             !.events_retried = @ + Retried(sent),
                             !.events_failed = @ + Cardinality(failed)]
              /\ wire' = wire \cup sent
              /\ outcome' = [i \in Ids |-> IF i \in failed THEN "failed"
                                           ELSE outcome[i]]
              /\ sends' = [i \in Ids |-> IF i \in sent THEN sends[i] + 1
                                         ELSE sends[i]]
    /\ UNCHANGED <<next, receiver, acks>>

\* A tick of steady_clock.  Ages past the timeout are all the same.
Tick ==
    /\ \E i \in Pending : pending[i].age < RetryTicks
    /\ pending' = [i \in Pending |->
                     [pending[i] EXCEPT !.age = IF @ < RetryTicks THEN @ + 1 ELSE @]]
    /\ UNCHANGED <<next, stats, outcome, sends, receiver, wire, acks>>

-----------------------------------------------------------------------------
(* The receiver: it applies what arrives, new or not, and acknowledges it. *)
(* Whether the ACK could be sent is not looked at.                         *)

OnControlMessage(i) ==
    /\ i \in wire
    /\ applied' = applied \cup {i}
    /\ ack_sequence_number' = (ack_sequence_number + 1) % SeqMod
    /\ \E ackSent \in BOOLEAN :
          acks' = IF ackSent THEN acks \cup {SeqOf(i)} ELSE acks
    /\ UNCHANGED <<sender, wire>>

Next ==
    \/ SendInputEvent
    \/ \E seq \in SeqNums : OnAckMessage(seq)
    \/ ProcessRetries
    \/ Tick
    \/ \E i \in Ids : OnControlMessage(i)

Spec == Init /\ [][Next]_vars

\* Time passes, and the controller's loop keeps calling ProcessRetries.
FairSpec == Spec /\ WF_vars(Tick) /\ WF_vars(ProcessRetries)

-----------------------------------------------------------------------------
D == INSTANCE InputDelivery
        WITH Ids <- Ids, outcome <- outcome, applied <- applied

TypeOK ==
    /\ next \in 0 .. MaxEvents
    /\ pending \in [Pending -> Entry] /\ Pending \subseteq Ids
    /\ stats \in [Counters -> Nat]
    /\ ack_sequence_number \in SeqNums
    /\ applied \subseteq Ids
    /\ wire \subseteq Ids
    /\ acks \subseteq SeqNums
    /\ outcome \in [Ids -> D!Outcomes]
    /\ sends \in [Ids -> Nat]

\* An event the sender counts as acknowledged was applied on the other host:
\* no ACK of another event, a duplicate or a stale one, is taken for its own.
AckedWasApplied == \A i \in Ids : outcome[i] = "acked" => i \in applied

\* OnAckMessage pops older events without a count.  Whenever that happened to
\* an event, some later event really was applied: the sender never runs ahead
\* of the receiver.
SkippedBehindApplied ==
    \A i \in Ids : outcome[i] = "skipped" =>
        \E j \in Ids : j > i /\ j \in applied

Skipped == {i \in Ids : outcome[i] = "skipped"}

\* Stats accounts for every accepted event exactly once, except for the ones
\* OnAckMessage pops silently: those are missing from every counter.
StatsAccount ==
    stats.events_sent = stats.events_acked + stats.events_failed
                        + Cardinality(Pending) + Cardinality(Skipped)

\* A datagram sent again, as its event and its rank among that event's datagrams.
Repetitions == {r \in Ids \X (2 .. 1 + kMaxRetries) : r[2] <= sends[r[1]]}

\* No event is put on the wire more than 1 + kMaxRetries times; a queued event
\* was sent once more than it was retried; and events_retried counts every
\* repetition that reached the wire once, and no resend that was refused.
SendsBounded ==
    /\ \A i \in Ids : sends[i] <= 1 + kMaxRetries
    /\ \A i \in Pending : sends[i] = 1 + pending[i].retry_count
    /\ stats.events_retried = Cardinality(Repetitions)

\* An event that has left the queue is settled for good: no late ACK, retry
\* or send changes its outcome or puts it on the wire again.
SettledStaysSettled ==
    [][\A i \in Ids : outcome[i] \in D!Settled =>
            /\ outcome'[i] = outcome[i]
            /\ sends'[i] = sends[i]
            /\ i \notin Pending']_vars

\* The protocol implements the delivery specification.
ImplementsDelivery == D!Spec

\* Every event leaves the queue, whatever the network does: the retry limit
\* bounds the wait.
QueueDrains == \A i \in Ids : (i \in Pending) ~> (i \notin Pending)

\* What the design documents promise: an accepted event that is no longer
\* being retried was either applied or reported as failed.
NoEventLost ==
    \A i \in Ids : (outcome[i] \in D!Settled /\ i \notin applied)
                        => outcome[i] = "failed"
=============================================================================
