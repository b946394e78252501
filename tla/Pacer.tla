------------------------------- MODULE Pacer -------------------------------
(***************************************************************************)
(* Pacer (network/protocol/pacer.{h,cpp}): batches of packets, one batch   *)
(* per interval.  The caller asks CanSend, sends, and tells OnPacketSent.  *)
(* Times are kept as ages: elapsed is the time since last_send_time_, and  *)
(* whatever is older than the interval is as old as the interval.          *)
(***************************************************************************)
EXTENDS Integers

CONSTANTS
    PacingInterval,     \* pacing_interval_ms, in ticks
    MaxPerBatch         \* max_packets_per_batch

ASSUME PacerAssumption == PacingInterval \in Nat \ {0} /\ MaxPerBatch \in Nat

VARIABLES
    elapsed,            \* now - last_send_time_, at most PacingInterval
    packets_in_batch,
    granted,            \* the caller: CanSend said yes, nothing sent since
    sentWithin          \* history: sentWithin[a] packets were sent at most a ticks ago

pacer == <<elapsed, packets_in_batch, granted, sentWithin>>

Window == 0 .. PacingInterval - 1

PacerInit ==
    /\ elapsed = 0
    /\ packets_in_batch = 0
    /\ granted = FALSE
    /\ sentWithin = [a \in Window |-> 0]

IntervalOver == elapsed >= PacingInterval

\* (Bug: one packet too many in a batch.)
HasRoom_OneMore == packets_in_batch <= MaxPerBatch

HasRoom == packets_in_batch < MaxPerBatch

\* CanSend that says yes.  When it says no nothing changes.
CanSend ==
    /\ ~granted
    /\ IntervalOver \/ HasRoom
    /\ packets_in_batch' = IF IntervalOver THEN 0 ELSE packets_in_batch
    /\ granted' = TRUE
    /\ UNCHANGED <<elapsed, sentWithin>>

OnPacketSent ==
    /\ granted
    /\ elapsed' = IF IntervalOver THEN 0 ELSE elapsed
    /\ packets_in_batch' = IF IntervalOver THEN 1 ELSE packets_in_batch + 1
    /\ granted' = FALSE
    /\ sentWithin' = [a \in Window |-> sentWithin[a] + 1]

\* Another stream begins, and the history with it.
PacerReset ==
    /\ elapsed' = 0
    /\ packets_in_batch' = 0
    /\ granted' = FALSE
    /\ sentWithin' = [a \in Window |-> 0]

PacerTick ==
    /\ elapsed' = IF IntervalOver THEN elapsed ELSE elapsed + 1
    /\ sentWithin' = [a \in Window |-> IF a = 0 THEN 0 ELSE sentWithin[a - 1]]
    /\ UNCHANGED <<packets_in_batch, granted>>

-----------------------------------------------------------------------------
BatchLimit == IF MaxPerBatch = 0 THEN 1 ELSE MaxPerBatch

PacerTypeOK ==
    /\ elapsed \in 0 .. PacingInterval
    /\ packets_in_batch \in Nat
    /\ granted \in BOOLEAN
    /\ sentWithin \in [Window -> Nat]

\* The end of one batch and all of the next may fall into the same interval,
\* but never more: no window of one interval holds more than two batches,
\* wherever it starts and however the calls fall between the ticks.
WindowBounded == \A a \in Window : sentWithin[a] <= 2 * BatchLimit
=============================================================================
