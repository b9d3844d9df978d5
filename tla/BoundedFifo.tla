----------------------------- MODULE BoundedFifo -----------------------------
(***************************************************************************)
(* What src/lib/channel.h promises to its two users: a bounded             *)
(* first-in first-out channel between one producer and one consumer, which *)
(* can be poisoned "so that any further send/receive will fail".           *)
(*                                                                         *)
(* The state is the history of the elements accepted from the producer and *)
(* of those handed over to the consumer; the queue is what the first has   *)
(* and the second has not yet.                                             *)
(***************************************************************************)
EXTENDS Integers, Sequences

CONSTANTS
    Capacity,   \* the "capacity" argument of channel_new
    Values      \* what an element may contain

VARIABLES
    sent,       \* elements accepted by channel_send / channel_send_reserved
    rcvd,       \* elements acknowledged by channel_recv / channel_ack
    poisoned,   \* channel_poison has been called
    inflight    \* sides whose call had passed its last check at that moment

fifoVars == <<sent, rcvd, poisoned, inflight>>

Sides == {"producer", "consumer"}

Init ==
    /\ sent = <<>>
    /\ rcvd = <<>>
    /\ poisoned = FALSE
    /\ inflight = {}

\* After the poison a side completes at most the call it was in the middle of.
Permitted(side) == poisoned => side \in inflight

Send(v) ==
    /\ Permitted("producer")
    /\ Len(sent) - Len(rcvd) < Capacity
    /\ sent' = Append(sent, v)
    /\ inflight' = inflight \ {"producer"}
    /\ UNCHANGED <<rcvd, poisoned>>

Receive ==
    /\ Permitted("consumer")
    /\ Len(rcvd) < Len(sent)
    /\ rcvd' = Append(rcvd, sent[Len(rcvd) + 1])
    /\ inflight' = inflight \ {"consumer"}
    /\ UNCHANGED <<sent, poisoned>>

Poison ==
    /\ ~poisoned
    /\ poisoned' = TRUE
    /\ inflight' \in SUBSET Sides
    /\ UNCHANGED <<sent, rcvd>>

Next ==
    \/ \E v \in Values : Send(v)
    \/ Receive
    \/ Poison

Spec == Init /\ [][Next]_fifoVars

=============================================================================
