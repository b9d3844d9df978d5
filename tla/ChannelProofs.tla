---------------------------- MODULE ChannelProofs ----------------------------
(***************************************************************************)
(* Proofs about Channel, for every capacity, every set of values and every *)
(* number of elements: ChannelInv is inductive, no wake-up is missed, no   *)
(* slot is shared, and the channel implements BoundedFifo.                 *)
(***************************************************************************)
EXTENDS Channel, TLAPS

\* channel_next without the modulo.
LEMMA NextSlot ==
    ASSUME NEW i \in Slots
    PROVE  channel_next(i) = IF i = Capacity THEN 0 ELSE i + 1
  BY CapacityAssumption DEF channel_next, Slots

\* Ready, which the code decides by comparing indices, in terms of Count.
LEMMA ReadyIsCount ==
    ASSUME wr_idx \in Slots, rd_idx \in Slots
    PROVE  /\ Count \in 0 .. Capacity
           /\ Ready("producer") <=> Count < Capacity
           /\ Ready("consumer") <=> Count > 0
  BY CapacityAssumption, NextSlot DEF Count, Ready, Slots

\* What channel_new leaves satisfies the invariant.
LEMMA InitInv == Init => ChannelInv
  BY CapacityAssumption
  DEF Init, ChannelInv, TypeOK, RingInv, CallInv, WaitInv, ClientInv,
      Count, Slots, Sides, NoSide, Labels, UsesBuffer

-----------------------------------------------------------------------------
(* Steps that move neither an index nor an element.                        *)

\* What such a step has to show.
LEMMA RingUnchanged ==
    ASSUME ChannelInv, UNCHANGED <<wr_idx, rd_idx, elts, sent, rcvd>>
    PROVE  RingInv' /\ (\A t \in Sides : Ready(t)' = Ready(t) /\ Idx(t)' = Idx(t))
  BY DEF ChannelInv, RingInv, Count, SlotOf, Ready, channel_next, Idx

\* The test without the mutex: seen ready means ready.
LEMMA EnterInv ==
    ASSUME ChannelInv, NEW t \in Sides, Enter(t)
    PROVE  ChannelInv'
  <1>1. UNCHANGED <<wr_idx, rd_idx, elts, sent, rcvd>>
    BY DEF Enter, chan
  <1>2. TypeOK' /\ rcvd' \in Seq(Values) /\ (poisoned <=> poisoner # "idle")'
    BY DEF ChannelInv, TypeOK, Enter, chan, Goto, Labels
  <1>3. CallInv'
    BY <1>1, RingUnchanged
    DEF ChannelInv, TypeOK, CallInv, Enter, chan, Goto, UsesBuffer, MustWait,
        channel_is_full, channel_is_empty, Ready
  <1>4. WaitInv'
    BY <1>1, RingUnchanged
    DEF ChannelInv, TypeOK, WaitInv, Enter, chan, Goto
  <1>5. ClientInv'
    BY DEF ChannelInv, TypeOK, ClientInv, Enter, chan, Goto, Sides
  <1>. QED BY <1>1, <1>2, <1>3, <1>4, <1>5, RingUnchanged DEF ChannelInv

\* The test under the mutex: whoever goes on to wait is not ready.
LEMMA LockAndTestInv ==
    ASSUME ChannelInv, NEW t \in Sides, LockAndTest(t)
    PROVE  ChannelInv'
  <1>1. UNCHANGED <<wr_idx, rd_idx, elts, sent, rcvd>>
    BY DEF LockAndTest, chan
  <1>2. TypeOK' /\ rcvd' \in Seq(Values) /\ (poisoned <=> poisoner # "idle")'
    BY DEF ChannelInv, TypeOK, LockAndTest, Goto, Labels
  <1>3. CallInv'
    BY <1>1, RingUnchanged
    DEF ChannelInv, TypeOK, CallInv, LockAndTest, Goto, UsesBuffer, MustWait,
        channel_is_full, channel_is_empty, Ready
  <1>4. WaitInv'
    BY <1>1, RingUnchanged
    DEF ChannelInv, TypeOK, WaitInv, LockAndTest, Goto, Sides, NoSide, MustWait,
        channel_is_full, channel_is_empty, Ready
  <1>5. ClientInv'
    BY DEF ChannelInv, TypeOK, ClientInv, LockAndTest, Goto, Sides
  <1>. QED BY <1>1, <1>2, <1>3, <1>4, <1>5, RingUnchanged DEF ChannelInv

\* Falling asleep with the mutex in hand.
LEMMA CondWaitInv ==
    ASSUME ChannelInv, NEW t \in Sides, CondWait(t)
    PROVE  ChannelInv'
  <1>1. UNCHANGED <<wr_idx, rd_idx, elts, sent, rcvd>>
    BY DEF CondWait, chan
  <1>2. TypeOK' /\ rcvd' \in Seq(Values) /\ (poisoned <=> poisoner # "idle")'
    BY DEF ChannelInv, TypeOK, CondWait, Goto, Labels
  <1>3. CallInv'
    BY <1>1, RingUnchanged
    DEF ChannelInv, CallInv, CondWait, Goto, UsesBuffer
  <1>4. WaitInv'
    BY <1>1, RingUnchanged
    DEF ChannelInv, TypeOK, WaitInv, CondWait, Goto, Sides, NoSide
  <1>5. ClientInv'
    BY DEF ChannelInv, ClientInv, CondWait, Goto
  <1>. QED BY <1>1, <1>2, <1>3, <1>4, <1>5, RingUnchanged DEF ChannelInv

\* A sleeper may wake at any time: it tests again.
LEMMA SpuriousWakeupInv ==
    ASSUME ChannelInv, NEW t \in Sides, SpuriousWakeup(t)
    PROVE  ChannelInv'
  <1>1. UNCHANGED <<wr_idx, rd_idx, elts, sent, rcvd>>
    BY DEF SpuriousWakeup, chan
  <1>2. TypeOK' /\ rcvd' \in Seq(Values) /\ (poisoned <=> poisoner # "idle")'
    BY DEF ChannelInv, TypeOK, SpuriousWakeup
  <1>3. CallInv'
    BY <1>1, RingUnchanged
    DEF ChannelInv, CallInv, SpuriousWakeup, UsesBuffer
  <1>4. WaitInv'
    BY <1>1, RingUnchanged
    DEF ChannelInv, WaitInv, SpuriousWakeup
  <1>5. ClientInv'
    BY DEF ChannelInv, ClientInv, SpuriousWakeup
  <1>. QED BY <1>1, <1>2, <1>3, <1>4, <1>5, RingUnchanged DEF ChannelInv

\* The slot a call returns is the one at the index of its side.
LEMMA ReturnInv ==
    ASSUME ChannelInv, NEW t \in Sides, Return(t)
    PROVE  ChannelInv'
  <1>1. UNCHANGED <<wr_idx, rd_idx, elts, sent, rcvd>>
    BY DEF Return, chan
  <1>2. TypeOK' /\ rcvd' \in Seq(Values) /\ (poisoned <=> poisoner # "idle")'
    BY DEF ChannelInv, TypeOK, Return, chan, Goto, Labels, Idx
  <1>3. CallInv'
    BY <1>1, RingUnchanged
    DEF ChannelInv, TypeOK, CallInv, Return, chan, Goto, UsesBuffer
  <1>4. WaitInv'
    BY <1>1, RingUnchanged
    DEF ChannelInv, TypeOK, WaitInv, Return, chan, Goto
  <1>5. ClientInv'
    BY DEF ChannelInv, TypeOK, ClientInv, Return, chan, Goto, Sides
  <1>. QED BY <1>1, <1>2, <1>3, <1>4, <1>5, RingUnchanged DEF ChannelInv

\* The consumer reads the oldest element.
LEMMA UseInv ==
    ASSUME ChannelInv, Use
    PROVE  ChannelInv'
  <1>1. UNCHANGED <<wr_idx, rd_idx, elts, sent, rcvd>>
    BY DEF Use, chan
  <1>2. TypeOK' /\ rcvd' \in Seq(Values) /\ (poisoned <=> poisoner # "idle")'
    BY DEF ChannelInv, TypeOK, Use, chan, Goto, Sides, Labels
  <1>3. CallInv'
    BY <1>1, RingUnchanged
    DEF ChannelInv, CallInv, Use, chan, Goto, UsesBuffer
  <1>4. WaitInv'
    BY <1>1, RingUnchanged
    DEF ChannelInv, WaitInv, Use, chan, Goto
  <1>5. ClientInv'
    <2>1. Count > 0 /\ slot["consumer"] = rd_idx
      BY ReadyIsCount DEF ChannelInv, TypeOK, CallInv, Use, UsesBuffer, Idx, Sides
    <2>2. SlotOf(1) = rd_idx
      BY CapacityAssumption DEF ChannelInv, TypeOK, SlotOf, Slots
    <2>3. elts[rd_idx] = sent[Len(rcvd) + 1]
      BY <2>1, <2>2, ReadyIsCount DEF ChannelInv, TypeOK, RingInv
    <2>. QED BY <2>1, <2>3 DEF ChannelInv, ClientInv, Use, chan, Goto
  <1>. QED BY <1>1, <1>2, <1>3, <1>4, <1>5, RingUnchanged DEF ChannelInv

\* The checks of channel_send_reserved and channel_ack change nothing.
LEMMA CommitCheckInv ==
    ASSUME ChannelInv, NEW t \in Sides, CommitCheck(t)
    PROVE  ChannelInv'
  <1>1. UNCHANGED <<wr_idx, rd_idx, elts, sent, rcvd>>
    BY DEF CommitCheck, chan
  <1>2. TypeOK' /\ rcvd' \in Seq(Values) /\ (poisoned <=> poisoner # "idle")'
    BY DEF ChannelInv, TypeOK, CommitCheck, chan, Goto, Labels
  <1>3. CallInv'
    BY <1>1, RingUnchanged
    DEF ChannelInv, TypeOK, CallInv, CommitCheck, chan, Goto, UsesBuffer
  <1>4. WaitInv'
    BY <1>1, RingUnchanged
    DEF ChannelInv, TypeOK, WaitInv, CommitCheck, chan, Goto
  <1>5. ClientInv'
    BY DEF ChannelInv, TypeOK, ClientInv, CommitCheck, chan, Goto, Sides
  <1>. QED BY <1>1, <1>2, <1>3, <1>4, <1>5, RingUnchanged DEF ChannelInv

\* The flag alone: from here on nothing is claimed about sleepers.
LEMMA SetPoisonInv ==
    ASSUME ChannelInv, SetPoison
    PROVE  ChannelInv'
  <1>1. UNCHANGED <<wr_idx, rd_idx, elts, sent, rcvd>>
    BY DEF SetPoison, chan
  <1>2. TypeOK' /\ rcvd' \in Seq(Values) /\ (poisoned <=> poisoner # "idle")'
    BY DEF ChannelInv, TypeOK, SetPoison
  <1>3. CallInv'
    BY <1>1, RingUnchanged
    DEF ChannelInv, CallInv, SetPoison, UsesBuffer
  <1>4. WaitInv'
    BY <1>1, RingUnchanged
    DEF ChannelInv, WaitInv, SetPoison
  <1>5. ClientInv'
    BY DEF ChannelInv, ClientInv, SetPoison
  <1>. QED BY <1>1, <1>2, <1>3, <1>4, <1>5, RingUnchanged DEF ChannelInv

\* The signals of channel_poison.
LEMMA SignalPoisonInv ==
    ASSUME ChannelInv, SignalPoison
    PROVE  ChannelInv'
  <1>1. UNCHANGED <<wr_idx, rd_idx, elts, sent, rcvd>>
    BY DEF SignalPoison, chan
  <1>2. TypeOK' /\ rcvd' \in Seq(Values) /\ (poisoned <=> poisoner # "idle")'
    BY DEF ChannelInv, TypeOK, SignalPoison
  <1>3. CallInv'
    BY <1>1, RingUnchanged
    DEF ChannelInv, CallInv, SignalPoison, UsesBuffer
  <1>4. WaitInv'
    BY <1>1, RingUnchanged
    DEF ChannelInv, WaitInv, SignalPoison
  <1>5. ClientInv'
    BY DEF ChannelInv, ClientInv, SignalPoison
  <1>. QED BY <1>1, <1>2, <1>3, <1>4, <1>5, RingUnchanged DEF ChannelInv

-----------------------------------------------------------------------------
(* Steps that move an index or an element.                                 *)

\* The ring ends at wr_idx: the slot being filled holds no queued element.
LEMMA RingEnd ==
    ASSUME wr_idx \in Slots, rd_idx \in Slots
    PROVE  /\ \A k \in 1 .. Count : SlotOf(k) \in Slots /\ SlotOf(k) # wr_idx
           /\ Count < Capacity => SlotOf(Count + 1) = wr_idx
  BY CapacityAssumption DEF Count, SlotOf, Slots

\* The producer's write touches no element of the ring.
LEMMA FillInv ==
    ASSUME ChannelInv, NEW v \in Values, Fill(v)
    PROVE  ChannelInv'
  <1>1. slot["producer"] = wr_idx /\ Ready("producer")
    BY DEF ChannelInv, CallInv, Fill, UsesBuffer, Idx, Sides
  <1>2. UNCHANGED <<wr_idx, rd_idx, poisoned, mutex, waiting, slot, held, sent, rcvd>>
    BY DEF Fill
  <1>3. TypeOK' /\ rcvd' \in Seq(Values) /\ (poisoned <=> poisoner # "idle")'
    BY DEF ChannelInv, TypeOK, Fill, Goto, Sides, Labels
  <1>4. RingInv'
    <2>1. Count' = Count /\ \A k \in 1 .. Count : SlotOf(k)' = SlotOf(k)
      BY <1>2 DEF Count, SlotOf
    <2>2. \A k \in 1 .. Count : elts'[SlotOf(k)] = elts[SlotOf(k)]
      BY <1>1, RingEnd DEF ChannelInv, TypeOK, Fill
    <2>. QED BY <1>2, <2>1, <2>2 DEF ChannelInv, RingInv
  <1>5. \A t \in Sides : Ready(t)' = Ready(t) /\ Idx(t)' = Idx(t)
    BY <1>2 DEF Ready, Idx, channel_next
  <1>6. CallInv'
    BY <1>1, <1>2, <1>5 DEF ChannelInv, TypeOK, CallInv, Fill, Goto, Sides, UsesBuffer
  <1>7. WaitInv'
    BY <1>2, <1>5 DEF ChannelInv, TypeOK, WaitInv, Fill, Goto, Sides
  <1>8. ClientInv'
    BY <1>1, <1>2 DEF ChannelInv, TypeOK, ClientInv, Fill, Goto, Sides
  <1>. QED BY <1>3, <1>4, <1>6, <1>7, <1>8 DEF ChannelInv

\* The critical section of channel_send_reserved: one more element, and the
\* consumer is awake if it has become ready.
LEMMA PublishInv ==
    ASSUME ChannelInv, Publish
    PROVE  ChannelInv'
  <1>1. /\ slot["producer"] = wr_idx
        /\ Count \in 0 .. Capacity - 1
        /\ elts[wr_idx] \in Values
    BY ReadyIsCount, CapacityAssumption
    DEF ChannelInv, TypeOK, CallInv, ClientInv, Publish, UsesBuffer, Idx, Sides
  <1>2. /\ wr_idx' \in Slots
        /\ Count' = Count + 1
        /\ \A k \in 1 .. Count + 1 : SlotOf(k)' = SlotOf(k)
    <2>1. /\ wr_idx \in Slots /\ rd_idx \in Slots
          /\ rd_idx' = rd_idx
          /\ wr_idx' = IF wr_idx = Capacity THEN 0 ELSE wr_idx + 1
      BY NextSlot DEF ChannelInv, TypeOK, Publish
    <2>2. wr_idx' \in Slots
      BY <2>1, CapacityAssumption DEF Slots
    <2>3. Count' = Count + 1
      BY <1>1, <2>1, CapacityAssumption DEF Count, Slots
    <2>4. \A k \in 1 .. Count + 1 : SlotOf(k)' = SlotOf(k)
      BY <2>1 DEF SlotOf
    <2>. QED BY <2>2, <2>3, <2>4
  <1>3. /\ sent' \in Seq(Values)
        /\ Len(sent') = Len(sent) + 1
        /\ sent'[Len(sent) + 1] = elts[wr_idx]
        /\ \A k \in 1 .. Len(sent) : sent'[k] = sent[k]
    BY <1>1 DEF ChannelInv, TypeOK, Publish
  <1>4. TypeOK' /\ rcvd' \in Seq(Values) /\ (poisoned <=> poisoner # "idle")'
    BY <1>2, <1>3
    DEF ChannelInv, TypeOK, Publish, Goto, CallAgain, SignalIf, Sides, Labels
  <1>5. RingInv'
    <2>1. /\ Len(sent) = Len(rcvd) + Count
          /\ Len(rcvd) \in Nat
          /\ rcvd' = rcvd /\ elts' = elts
      BY DEF ChannelInv, TypeOK, RingInv, Publish
    <2>2. ASSUME NEW k \in 1 .. Count + 1
          PROVE  elts[SlotOf(k)] = sent'[Len(rcvd) + k]
      <3>1. CASE k \in 1 .. Count
        <4>1. elts[SlotOf(k)] = sent[Len(rcvd) + k]
          BY <3>1 DEF ChannelInv, RingInv
        <4>. QED BY <1>1, <1>3, <2>1, <3>1, <4>1
      <3>2. CASE k = Count + 1
        <4>1. SlotOf(k) = wr_idx
          BY <1>1, <3>2, RingEnd, CapacityAssumption DEF ChannelInv, TypeOK
        <4>2. Len(rcvd) + k = Len(sent) + 1
          BY <1>1, <2>1, <3>2
        <4>. QED BY <1>3, <4>1, <4>2
      <3>. QED BY <1>1, <3>1, <3>2
    <2>. QED BY <1>1, <1>2, <1>3, <2>1, <2>2 DEF RingInv
  <1>6. Ready("consumer")'
    BY <1>1, <1>2, <1>4, ReadyIsCount DEF TypeOK, Ready, Count, Slots
  <1>7. CallInv'
    BY <1>6
    DEF ChannelInv, TypeOK, CallInv, Publish, Goto, CallAgain, Sides, UsesBuffer, Idx
  <1>8. WaitInv'
    BY DEF ChannelInv, TypeOK, WaitInv, Publish, Goto, CallAgain, SignalIf,
           Sides, NoSide, Ready, channel_is_empty
  <1>9. ClientInv'
    BY <1>3, ReadyIsCount
    DEF ChannelInv, TypeOK, RingInv, CallInv, ClientInv, Publish, Goto, CallAgain,
        Sides, UsesBuffer
  <1>. QED BY <1>4, <1>5, <1>7, <1>8, <1>9 DEF ChannelInv

\* The critical section of channel_ack: the oldest element leaves, and the
\* producer is awake if it has become ready.
LEMMA AcknowledgeInv ==
    ASSUME ChannelInv, Acknowledge
    PROVE  ChannelInv'
  <1>1. /\ Count \in 1 .. Capacity
        /\ held = sent[Len(rcvd) + 1]
        /\ Len(sent) = Len(rcvd) + Count
        /\ Len(rcvd) \in Nat
    BY ReadyIsCount, CapacityAssumption
    DEF ChannelInv, TypeOK, CallInv, ClientInv, RingInv, Acknowledge, UsesBuffer, Sides
  <1>2. /\ rd_idx' \in Slots
        /\ wr_idx' = wr_idx
        /\ rd_idx' = IF rd_idx = Capacity THEN 0 ELSE rd_idx + 1
    BY NextSlot, CapacityAssumption DEF ChannelInv, TypeOK, Acknowledge, Slots
  <1>10. Count' = Count - 1
    <2>1. wr_idx \in Slots /\ rd_idx \in Slots
      BY DEF ChannelInv, TypeOK
    <2>. QED BY <1>1, <1>2, <2>1, CapacityAssumption DEF Count, Slots
  <1>11. ASSUME NEW k \in 1 .. Count - 1
         PROVE  SlotOf(k)' = SlotOf(k + 1)
    <2>1. rd_idx \in Slots
      BY DEF ChannelInv, TypeOK
    <2>. QED BY <1>1, <1>2, <2>1, CapacityAssumption DEF SlotOf, Slots
  <1>3. /\ held \in Values
        /\ rcvd' \in Seq(Values)
        /\ Len(rcvd') = Len(rcvd) + 1
    BY <1>1 DEF ChannelInv, TypeOK, Acknowledge
  <1>4. TypeOK' /\ (poisoned <=> poisoner # "idle")'
    BY <1>2, <1>3
    DEF ChannelInv, TypeOK, Acknowledge, Goto, CallAgain, SignalIf, Sides, Labels
  <1>5. RingInv'
    <2>1. sent' = sent /\ elts' = elts
      BY DEF Acknowledge
    <2>2. ASSUME NEW k \in 1 .. Count - 1
          PROVE  elts[SlotOf(k + 1)] = sent[Len(rcvd) + 1 + k]
      BY <1>1 DEF ChannelInv, RingInv
    <2>. QED BY <1>1, <1>10, <1>11, <1>3, <2>1, <2>2 DEF RingInv
  <1>6. Ready("producer")'
    <2>1. rd_idx # wr_idx
      BY ReadyIsCount
      DEF ChannelInv, TypeOK, CallInv, Acknowledge, UsesBuffer, Ready, Sides
    <2>2. channel_next(wr_idx) = IF wr_idx = Capacity THEN 0 ELSE wr_idx + 1
      BY NextSlot DEF ChannelInv, TypeOK
    <2>3. channel_next(wr_idx)' = channel_next(wr_idx)
      BY <1>2 DEF channel_next
    <2>. QED
      BY <1>2, <2>1, <2>2, <2>3, CapacityAssumption DEF ChannelInv, TypeOK, Ready, Slots
  <1>7. CallInv'
    BY <1>6
    DEF ChannelInv, TypeOK, CallInv, Acknowledge, Goto, CallAgain, Sides, UsesBuffer,
        Idx
  <1>8. WaitInv'
    BY DEF ChannelInv, TypeOK, WaitInv, Acknowledge, Goto, CallAgain, SignalIf,
           Sides, NoSide, Ready, channel_is_full
  <1>9. ClientInv'
    BY DEF ChannelInv, TypeOK, ClientInv, Acknowledge, Goto, CallAgain, Sides
  <1>. QED BY <1>3, <1>4, <1>5, <1>7, <1>8, <1>9 DEF ChannelInv

-----------------------------------------------------------------------------

\* The invariant is inductive.
LEMMA NextInv == ChannelInv /\ [Next]_vars => ChannelInv'
  <1>. SUFFICES ASSUME ChannelInv, [Next]_vars PROVE ChannelInv'
    OBVIOUS
  <1>1. CASE \E t \in Sides : Step(t) \/ SpuriousWakeup(t)
    BY <1>1, EnterInv, LockAndTestInv, CondWaitInv, ReturnInv, CommitCheckInv,
       SpuriousWakeupInv DEF Step
  <1>2. CASE \E v \in Values : Fill(v)
    BY <1>2, FillInv
  <1>3. CASE Use \/ Publish \/ Acknowledge \/ SetPoison \/ SignalPoison
    BY <1>3, UseInv, PublishInv, AcknowledgeInv, SetPoisonInv, SignalPoisonInv
  <1>4. CASE UNCHANGED vars
    BY <1>4
    DEF ChannelInv, TypeOK, RingInv, CallInv, WaitInv, ClientInv, vars,
        Count, SlotOf, Ready, Idx, UsesBuffer, channel_next
  <1>. QED BY <1>1, <1>2, <1>3, <1>4 DEF Next, Finished

\* The indices, the elements, the waiters and the two calls of channel.c are
\* consistent with each other in every reachable state.
THEOREM ChannelCorrect == Spec => []ChannelInv
  BY InitInv, NextInv, PTL DEF Spec

\* The variables of channel.c keep their types.
THEOREM ChannelTyped == Spec => []TypeOK
  <1>1. ChannelInv => TypeOK
    BY DEF ChannelInv
  <1>. QED BY <1>1, ChannelCorrect, PTL

\* No wake-up is missed: whoever sleeps in pthread_cond_wait on an unpoisoned
\* channel finds it still full, or still empty.
THEOREM NoWakeupMissed == Spec => []NoMissedWakeup
  <1>1. ChannelInv => NoMissedWakeup
    BY DEF ChannelInv, TypeOK, WaitInv, NoMissedWakeup, MustWait, Ready,
           channel_is_full, channel_is_empty, Sides
  <1>. QED BY <1>1, ChannelCorrect, PTL

\* channel_reserve never hands out the slot the consumer still points to.
THEOREM SlotsExclusive == Spec => []SlotExclusion
  <1>1. ChannelInv => SlotExclusion
    BY DEF ChannelInv, TypeOK, CallInv, SlotExclusion, Ready, Idx, Sides
  <1>. QED BY <1>1, ChannelCorrect, PTL

-----------------------------------------------------------------------------
(* Channel implements BoundedFifo.                                         *)

\* The mapping of inflight: the sides past their last check when poisoned.
PastCheck == IF poisoned THEN {t \in Sides : pc[t] = "advance"} ELSE {}

fifoState == <<sent, rcvd, poisoned, PastCheck>>

\* Steps inside a call are invisible: they publish and acknowledge nothing, and
\* once the channel is poisoned none of them passes the last check.
LEMMA StepStutters ==
    ASSUME ChannelInv, NEW t \in Sides, Step(t) \/ SpuriousWakeup(t)
    PROVE  UNCHANGED fifoState
  <1>1. UNCHANGED <<sent, rcvd, poisoned>>
    BY DEF Step, Enter, LockAndTest, CondWait, Return, CommitCheck, SpuriousWakeup, chan
  <1>2. ASSUME poisoned, NEW u \in Sides
        PROVE  (pc[u] = "advance")' <=> pc[u] = "advance"
    BY <1>2
    DEF ChannelInv, TypeOK, Step, Enter, LockAndTest, CondWait, Return, CommitCheck,
        SpuriousWakeup, Goto
  <1>. QED BY <1>1, <1>2 DEF fifoState, PastCheck

\* So is what the clients do between the calls, and the signals of the poison.
LEMMA ClientStutters ==
    ASSUME ChannelInv, Use \/ SignalPoison \/ \E v \in Values : Fill(v)
    PROVE  UNCHANGED fifoState
  <1>1. UNCHANGED <<sent, rcvd, poisoned>>
    BY DEF Use, SignalPoison, Fill, chan
  <1>2. ASSUME NEW u \in Sides
        PROVE  (pc[u] = "advance")' <=> pc[u] = "advance"
    BY DEF ChannelInv, TypeOK, Use, SignalPoison, Fill, Goto
  <1>. QED BY <1>1, <1>2 DEF fifoState, PastCheck

\* channel_send_reserved, past its check, is the Send of BoundedFifo.
LEMMA PublishSends ==
    ASSUME ChannelInv, Publish
    PROVE  \E v \in Values : Fifo!Send(v)
  <1>1. /\ Len(sent) - Len(rcvd) < Capacity
        /\ elts[slot["producer"]] \in Values
    BY ReadyIsCount, CapacityAssumption
    DEF ChannelInv, TypeOK, RingInv, CallInv, ClientInv, Publish, UsesBuffer, Sides
  <1>2. poisoned => "producer" \in PastCheck
    BY DEF Publish, PastCheck, Sides
  <1>3. PastCheck' = PastCheck \ {"producer"}
    BY DEF ChannelInv, TypeOK, Publish, CallAgain, Goto, PastCheck, Sides
  <1>. QED BY <1>1, <1>2, <1>3 DEF Publish, Fifo!Send, Fifo!Permitted, PastCheck

\* channel_ack, past its check, is the Receive of BoundedFifo.
LEMMA AcknowledgeReceives ==
    ASSUME ChannelInv, Acknowledge
    PROVE  Fifo!Receive
  <1>1. /\ Len(rcvd) < Len(sent)
        /\ held = sent[Len(rcvd) + 1]
    BY ReadyIsCount, CapacityAssumption
    DEF ChannelInv, TypeOK, RingInv, CallInv, ClientInv, Acknowledge, UsesBuffer, Sides
  <1>2. poisoned => "consumer" \in PastCheck
    BY DEF Acknowledge, PastCheck, Sides
  <1>3. PastCheck' = PastCheck \ {"consumer"}
    BY DEF ChannelInv, TypeOK, Acknowledge, CallAgain, Goto, PastCheck, Sides
  <1>. QED BY <1>1, <1>2, <1>3 DEF Acknowledge, Fifo!Receive, Fifo!Permitted, PastCheck

\* Setting the flag is the Poison of BoundedFifo.
LEMMA SetPoisonPoisons ==
    ASSUME ChannelInv, SetPoison
    PROVE  Fifo!Poison
  BY DEF ChannelInv, SetPoison, Fifo!Poison, Fifo!Sides, Sides

\* channel.c implements what channel.h promises: elements are received once each
\* and in order, at most Capacity are inside, and a poisoned channel lets each
\* side complete at most the call it was in.
THEOREM ChannelImplementsFifo == Spec => FifoSpec
  <1>1. Init => Fifo!Init
    BY DEF Init, Fifo!Init
  <1>2. ChannelInv /\ [Next]_vars => [Fifo!Next]_Fifo!fifoVars
    <2>. SUFFICES ASSUME ChannelInv, [Next]_vars
                  PROVE  Fifo!Next \/ UNCHANGED fifoState
      BY DEF fifoState, PastCheck, Fifo!fifoVars
    <2>1. CASE \E t \in Sides : Step(t) \/ SpuriousWakeup(t)
      BY <2>1, StepStutters
    <2>2. CASE Use \/ SignalPoison \/ \E v \in Values : Fill(v)
      BY <2>2, ClientStutters
    <2>3. CASE Publish \/ Acknowledge \/ SetPoison
      BY <2>3, PublishSends, AcknowledgeReceives, SetPoisonPoisons DEF Fifo!Next
    <2>4. CASE UNCHANGED vars
      BY <2>4 DEF vars, fifoState, PastCheck
    <2>. QED BY <2>1, <2>2, <2>3, <2>4 DEF Next, Finished
  <1>. QED BY <1>1, <1>2, ChannelCorrect, PTL DEF Spec, FifoSpec, Fifo!Spec

=============================================================================
