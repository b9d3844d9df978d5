------------------------------- MODULE Channel -------------------------------
(***************************************************************************)
(* src/lib/channel.c: the single-producer single-consumer ring buffer that *)
(* joins the threads of the sender and of the receiver.                    *)
(*                                                                         *)
(* A step is one access to memory the other thread can see.  Both users    *)
(* run the same shape of code,                                             *)
(*                                                                         *)
(*   producer: channel_reserve, fill the buffer, channel_send_reserved     *)
(*   consumer: channel_peek,    use the buffer,  channel_ack               *)
(*                                                                         *)
(* (channel_send and channel_recv are these pairs around a memcpy), so the *)
(* actions below take the side as a parameter.  channel_poison is called   *)
(* by a third party: the interface allows any thread to call it at any     *)
(* moment.  Memory is sequentially consistent, which covers the x86        *)
(* machines the program is built for.                                      *)
(*                                                                         *)
(* The clients are those of src/test/channel_test.c: the producer sends    *)
(* SendAmount elements, the consumer stops after as many, and either gives *)
(* up when a call fails.                                                   *)
(***************************************************************************)
EXTENDS Integers, Sequences

CONSTANTS
    Capacity,     \* argument of channel_new: elements the channel holds
    Values,       \* contents an element may have
    Garbage,      \* content of a slot nobody has written yet
    SendAmount    \* number of elements the producer sends

ASSUME CapacityAssumption == Capacity \in Nat \ {0}
ASSUME SendAmountAssumption == SendAmount \in Nat \ {0}

Sides == {"producer", "consumer"}
NoSide == "none"

Slots == 0 .. Capacity       \* capacity + 1 slots: one always stays unused

VARIABLES
    wr_idx, rd_idx,   \* next slot to be written, next slot to be read
    elts,             \* the ring buffer
    poisoned,
    mutex,            \* the side that holds chan->mutex, or NoSide
    waiting,          \* sides blocked on their condition variable
    pc,               \* where each side is in its call
    slot,             \* the slot the call returned a pointer to
    held,             \* what the consumer read through that pointer
    poisoner,         \* progress of the channel_poison call
    sent, rcvd        \* history of the elements published / acknowledged

chan == <<wr_idx, rd_idx, elts, poisoned, mutex, waiting>>
vars == <<wr_idx, rd_idx, elts, poisoned, mutex, waiting,
          pc, slot, held, poisoner, sent, rcvd>>

Other(t) == IF t = "producer" THEN "consumer" ELSE "producer"

-----------------------------------------------------------------------------

\* Mutant: the index does not wrap around.
channel_next_NoWrap(i) == i + 1

channel_next(i) == (i + 1) % (Capacity + 1)

\* Mutant: the test of a full channel is missing.
channel_is_full_Never == FALSE

channel_is_full == rd_idx = channel_next(wr_idx) /\ ~poisoned

channel_is_empty == rd_idx = wr_idx /\ ~poisoned

\* The test a side waits on, and the index it owns.
MustWait(t) == IF t = "producer" THEN channel_is_full ELSE channel_is_empty
Idx(t) == IF t = "producer" THEN wr_idx ELSE rd_idx

\* channel_new
Init ==
    /\ wr_idx = 0
    /\ rd_idx = 0
    /\ elts = [s \in Slots |-> Garbage]
    /\ poisoned = FALSE
    /\ mutex = NoSide
    /\ waiting = {}
    /\ pc = [t \in Sides |-> "call"]
    /\ slot = [t \in Sides |-> 0]
    /\ held = Garbage
    /\ poisoner = "idle"
    /\ sent = <<>>
    /\ rcvd = <<>>

Goto(t, l) == pc' = [pc EXCEPT ![t] = l]

-----------------------------------------------------------------------------
(* channel_reserve (producer) and channel_peek (consumer).                 *)

\* POISON_CHECK, then the test of _channel_wait_lock made without the mutex.
\* A poison between the two only moves the failure to the second check.
Enter(t) ==
    /\ pc[t] = "call"
    /\ IF poisoned THEN Goto(t, "failed")
       ELSE IF MustWait(t) THEN Goto(t, "lock")
       ELSE Goto(t, "recheck")
    /\ UNCHANGED <<chan, slot, held, poisoner, sent, rcvd>>

\* Mutant: the test is not repeated after the wake-up.
LockAndTest_Once(t) ==
    /\ \/ pc[t] = "lock"
       \/ pc[t] = "asleep" /\ t \notin waiting
    /\ mutex = NoSide
    /\ IF MustWait(t) /\ pc[t] = "lock"
       THEN Goto(t, "cond_wait") /\ mutex' = t
       ELSE Goto(t, "recheck") /\ UNCHANGED mutex
    /\ UNCHANGED <<wr_idx, rd_idx, elts, poisoned, waiting,
                   slot, held, poisoner, sent, rcvd>>

\* The mutex is taken - for the first time, or again on the way out of
\* pthread_cond_wait - and the test repeated under it.
LockAndTest(t) ==
    /\ \/ pc[t] = "lock"
       \/ pc[t] = "asleep" /\ t \notin waiting
    /\ mutex = NoSide
    /\ IF MustWait(t)
       THEN Goto(t, "cond_wait") /\ mutex' = t
       ELSE Goto(t, "recheck") /\ UNCHANGED mutex
    /\ UNCHANGED <<wr_idx, rd_idx, elts, poisoned, waiting,
                   slot, held, poisoner, sent, rcvd>>

\* pthread_cond_wait releases the mutex and starts waiting in one step.
CondWait(t) ==
    /\ pc[t] = "cond_wait"
    /\ mutex' = NoSide
    /\ waiting' = waiting \union {t}
    /\ Goto(t, "asleep")
    /\ UNCHANGED <<wr_idx, rd_idx, elts, poisoned,
                   slot, held, poisoner, sent, rcvd>>

\* POSIX lets a condition variable wake its waiter for no reason.
SpuriousWakeup(t) ==
    /\ t \in waiting
    /\ waiting' = waiting \ {t}
    /\ UNCHANGED <<wr_idx, rd_idx, elts, poisoned, mutex,
                   pc, slot, held, poisoner, sent, rcvd>>

\* The second POISON_CHECK; the call returns the slot.
Return(t) ==
    /\ pc[t] = "recheck"
    /\ IF poisoned
       THEN Goto(t, "failed") /\ UNCHANGED slot
       ELSE Goto(t, "buffer") /\ slot' = [slot EXCEPT ![t] = Idx(t)]
    /\ UNCHANGED <<chan, held, poisoner, sent, rcvd>>

-----------------------------------------------------------------------------
(* Between the two calls the client uses the buffer without the mutex.     *)

Fill(v) ==
    /\ pc["producer"] = "buffer"
    /\ elts' = [elts EXCEPT ![slot["producer"]] = v]
    /\ Goto("producer", "commit")
    /\ UNCHANGED <<wr_idx, rd_idx, poisoned, mutex, waiting,
                   slot, held, poisoner, sent, rcvd>>

Use ==
    /\ pc["consumer"] = "buffer"
    /\ held' = elts[slot["consumer"]]
    /\ Goto("consumer", "commit")
    /\ UNCHANGED <<chan, slot, poisoner, sent, rcvd>>

-----------------------------------------------------------------------------
(* channel_send_reserved (producer) and channel_ack (consumer).            *)

\* Mutant: no POISON_CHECK.
CommitCheck_Unpoisoned(t) ==
    /\ pc[t] = "commit"
    /\ Goto(t, IF slot[t] # Idx(t) THEN "failed" ELSE "advance")
    /\ UNCHANGED <<chan, slot, held, poisoner, sent, rcvd>>

\* POISON_CHECK, and the pointer must be the one of the current slot.
CommitCheck(t) ==
    /\ pc[t] = "commit"
    /\ IF poisoned \/ slot[t] # Idx(t)
       THEN Goto(t, "failed")
       ELSE Goto(t, "advance")
    /\ UNCHANGED <<chan, slot, held, poisoner, sent, rcvd>>

\* pthread_cond_signal on the other side's condition variable.
SignalIf(was, t) == waiting' = IF was THEN waiting \ {t} ELSE waiting

\* After SendAmount elements the client of channel_test.c stops.
CallAgain(t, count) == Goto(t, IF count = SendAmount THEN "done" ELSE "call")

\* Mutant: whether the channel was empty is decided after the increment.
Publish_TestsLate ==
    /\ pc["producer"] = "advance"
    /\ mutex = NoSide
    /\ wr_idx' = channel_next(wr_idx)
    /\ SignalIf(rd_idx = wr_idx', "consumer")
    /\ sent' = Append(sent, elts[slot["producer"]])
    /\ CallAgain("producer", Len(sent'))
    /\ UNCHANGED <<rd_idx, elts, poisoned, mutex, slot, held, poisoner, rcvd>>

\* The critical section of channel_send_reserved.
Publish ==
    /\ pc["producer"] = "advance"
    /\ mutex = NoSide
    /\ wr_idx' = channel_next(wr_idx)
    /\ SignalIf(channel_is_empty, "consumer")
    /\ sent' = Append(sent, elts[slot["producer"]])
    /\ CallAgain("producer", Len(sent'))
    /\ UNCHANGED <<rd_idx, elts, poisoned, mutex, slot, held, poisoner, rcvd>>

\* Mutant: the producer is not signalled.
Acknowledge_Silent ==
    /\ pc["consumer"] = "advance"
    /\ mutex = NoSide
    /\ rd_idx' = channel_next(rd_idx)
    /\ rcvd' = Append(rcvd, held)
    /\ CallAgain("consumer", Len(rcvd'))
    /\ UNCHANGED <<wr_idx, elts, poisoned, mutex, waiting, slot, held, poisoner, sent>>

\* The critical section of channel_ack.
Acknowledge ==
    /\ pc["consumer"] = "advance"
    /\ mutex = NoSide
    /\ rd_idx' = channel_next(rd_idx)
    /\ SignalIf(channel_is_full, "producer")
    /\ rcvd' = Append(rcvd, held)
    /\ CallAgain("consumer", Len(rcvd'))
    /\ UNCHANGED <<wr_idx, elts, poisoned, mutex, slot, held, poisoner, sent>>

-----------------------------------------------------------------------------
(* channel_poison: the flag is set, then both conditions are signalled,    *)
(* all of it without the mutex.                                            *)

SetPoison ==
    /\ poisoner = "idle"
    /\ poisoner' = "signal"
    /\ poisoned' = TRUE
    /\ UNCHANGED <<wr_idx, rd_idx, elts, mutex, waiting,
                   pc, slot, held, sent, rcvd>>

SignalPoison ==
    /\ poisoner = "signal"
    /\ poisoner' = "done"
    /\ waiting' = {}
    /\ UNCHANGED <<wr_idx, rd_idx, elts, poisoned, mutex,
                   pc, slot, held, sent, rcvd>>

-----------------------------------------------------------------------------

Returned(t) == pc[t] \in {"done", "failed"}

\* Both clients have stopped: nothing is left to do.
Finished ==
    /\ \A t \in Sides : Returned(t)
    /\ UNCHANGED vars

\* One step of a side inside its two calls.
Step(t) ==
    \/ Enter(t)
    \/ LockAndTest(t)
    \/ CondWait(t)
    \/ Return(t)
    \/ CommitCheck(t)

Next ==
    \/ \E t \in Sides : Step(t) \/ SpuriousWakeup(t)
    \/ \E v \in Values : Fill(v)
    \/ Use
    \/ Publish
    \/ Acknowledge
    \/ SetPoison
    \/ SignalPoison
    \/ Finished

Spec == Init /\ [][Next]_vars

(***************************************************************************)
(* Threads are scheduled and a mutex that keeps becoming free is obtained. *)
(* Nobody is obliged to poison the channel, but a call to channel_poison   *)
(* runs to its end; spurious wake-ups cannot be counted on.                *)
(***************************************************************************)
Fairness ==
    /\ \A t \in Sides : SF_vars(Step(t))
    /\ WF_vars(\E v \in Values : Fill(v))
    /\ WF_vars(Use)
    /\ SF_vars(Publish)
    /\ SF_vars(Acknowledge)
    /\ WF_vars(SignalPoison)

FairSpec == Spec /\ Fairness

-----------------------------------------------------------------------------
(* Properties.                                                             *)

Labels == {"call", "lock", "cond_wait", "asleep", "recheck",
           "buffer", "commit", "advance", "done", "failed"}

\* Every variable of struct channel and of the two calls keeps its type.
TypeOK ==
    /\ wr_idx \in Slots /\ rd_idx \in Slots
    /\ elts \in [Slots -> Values \union {Garbage}]
    /\ poisoned \in BOOLEAN
    /\ mutex \in Sides \union {NoSide}
    /\ waiting \in SUBSET Sides
    /\ pc \in [Sides -> Labels]
    /\ slot \in [Sides -> Slots]
    /\ held \in Values \union {Garbage}
    /\ poisoner \in {"idle", "signal", "done"}
    /\ sent \in Seq(Values)
    /\ rcvd \in Seq(Values \union {Garbage})

\* A thread sleeps in pthread_cond_wait only while the condition it waits for
\* still holds: channel_ack and channel_send_reserved signal only on the
\* transition out of full or empty, decided from an index the sleeper also
\* tested without the mutex, and no wake-up may be missed on that path.
NoMissedWakeup ==
    \A t \in waiting : ~poisoned => MustWait(t)

\* The producer never holds a pointer to the slot the consumer still has one
\* to: channel_reserve recycles a slot only after channel_ack gave it back,
\* although both hand out pointers after a test without the mutex.
UsesBuffer(t) == pc[t] \in {"buffer", "commit", "advance"}

SlotExclusion ==
    UsesBuffer("producer") /\ UsesBuffer("consumer")
        => slot["producer"] # slot["consumer"]

\* Elements come out once each, in the order they went in, never more than
\* Capacity of them inside, and after channel_poison each side completes at
\* most the call it was in: the channel implements BoundedFifo.
Fifo == INSTANCE BoundedFifo WITH
            inflight <- IF poisoned
                        THEN {t \in Sides : pc[t] = "advance"}
                        ELSE {}

FifoSpec == Fifo!Spec

\* Unless somebody poisons the channel, every element sent is received:
\* producer and consumer never end up both asleep, nor one of them for ever.
AllDelivered == <>(poisoned \/ Len(rcvd) = SendAmount)

\* channel.h on channel_poison: "any further send/receive will fail".  That
\* includes a producer which is blocked in channel_reserve at that moment: the
\* second POISON_CHECK of channel_reserve ("May have been poisoned while
\* waiting") is there for it, and it must get that far.
PoisonReleasesProducer == poisoned ~> Returned("producer")

-----------------------------------------------------------------------------
(* The inductive invariant behind NoMissedWakeup, SlotExclusion and the    *)
(* refinement.                                                             *)

\* Elements in the ring, and the slot of the k-th of them (k = 1 is next).
Count ==
    IF wr_idx >= rd_idx THEN wr_idx - rd_idx ELSE wr_idx - rd_idx + Capacity + 1

SlotOf(k) ==
    IF rd_idx + k - 1 <= Capacity THEN rd_idx + k - 1
                                  ELSE rd_idx + k - 2 - Capacity

\* The side may use the slot at its index.
Ready(t) ==
    IF t = "producer" THEN rd_idx # channel_next(wr_idx) ELSE rd_idx # wr_idx

\* The ring holds exactly what was sent and not yet received, in order.
RingInv ==
    /\ Len(sent) = Len(rcvd) + Count
    /\ \A k \in 1 .. Count : elts[SlotOf(k)] = sent[Len(rcvd) + k]

\* Once a side has seen its index ready it stays so until it advances.
CallInv ==
    \A t \in Sides :
        /\ pc[t] = "recheck" => poisoned \/ Ready(t)
        /\ UsesBuffer(t) => Ready(t) /\ slot[t] = Idx(t)

\* Whoever goes to sleep, or is about to with the mutex in hand, has to.
WaitInv ==
    \A t \in Sides :
        /\ mutex = t <=> pc[t] = "cond_wait"
        /\ t \in waiting => pc[t] = "asleep"
        /\ t \in waiting \/ pc[t] = "cond_wait" => poisoned \/ ~Ready(t)

\* What the clients carry between their two calls.
ClientInv ==
    /\ pc["producer"] \in {"commit", "advance"} => elts[slot["producer"]] \in Values
    /\ pc["consumer"] \in {"commit", "advance"} => held = sent[Len(rcvd) + 1]

\* The ring buffer, the two calls and the waiters of channel.c stay consistent
\* with each other at every step, whatever the interleaving.
ChannelInv ==
    /\ TypeOK
    /\ rcvd \in Seq(Values)
    /\ poisoned <=> poisoner # "idle"
    /\ RingInv
    /\ CallInv
    /\ WaitInv
    /\ ClientInv

=============================================================================
