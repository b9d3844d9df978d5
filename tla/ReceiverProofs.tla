---------------------------- MODULE ReceiverProofs ----------------------------
(***************************************************************************)
(* Proofs about Receiver, for any stream of packets, any capacities of the *)
(* channels, and whatever may be lost or fail: ReceiverInv is inductive,   *)
(* what is decoded is written as through a bounded FIFO, success is        *)
(* reported only after an END, and the threads wait for each other only    *)
(* after an error.                                                         *)
(***************************************************************************)
EXTENDS Receiver, DecoderProofs, SequenceTheorems

-----------------------------------------------------------------------------
(* Channels in order.                                                      *)

LEMMA PillOrFull ==
    /\ Pill.pill /\ Pill \in Buffers(Bodies) /\ Pill \in Buffers(Packet)
    /\ \A x : ~Full(x).pill /\ Full(x).data = x /\ Full(x) # Pill
    /\ \A x \in Bodies : Full(x) \in Buffers(Bodies)
    /\ \A x \in Packet : Full(x) \in Buffers(Packet)
  BY DEF Pill, Full, Buffers

LEMMA BufferData ==
    ASSUME NEW S, NEW b \in Buffers(S), ~b.pill
    PROVE  b.data \in S /\ b = Full(b.data)
  BY DEF Buffers, Full

LEMMA EmptyHolds ==
    ASSUME NEW s, NEW n
    PROVE  Holds(<<>>, s, n) /\ Load(<<>>) = 0 /\ ~HasPill(<<>>)
  BY DEF Holds, Load, HasPill

LEMMA LoadBounds ==
    ASSUME NEW q \in Seq(Buffers(Bodies))
    PROVE  Load(q) \in Nat /\ Load(q) <= Len(q) /\ Len(q) \in Nat
  BY DEF Load, HasPill

\* A chunk enters the channel.
LEMMA AppendChunk ==
    ASSUME NEW q \in Seq(Buffers(Bodies)), NEW s, NEW n \in Nat, Holds(q, s, n), ~HasPill(q),
           s[n + Len(q) + 1] \in Bodies
    PROVE  LET r == Append(q, Full(s[n + Len(q) + 1])) IN
           /\ r \in Seq(Buffers(Bodies)) /\ Holds(r, s, n)
           /\ ~HasPill(r) /\ Load(r) = Load(q) + 1 /\ Len(r) = Len(q) + 1
  <1>. DEFINE x == Full(s[n + Len(q) + 1])
              r == Append(q, x)
  <1>0. x \in Buffers(Bodies) /\ ~x.pill
    BY PillOrFull
  <1>. HIDE DEF x
  <1>1. /\ r \in Seq(Buffers(Bodies)) /\ Len(r) = Len(q) + 1 /\ r[Len(q) + 1] = x
        /\ \A i \in 1 .. Len(q) : r[i] = q[i]
    BY <1>0, AppendProperties
  <1>2. Len(q) \in Nat
    OBVIOUS
  <1>. HIDE DEF r
  <1>3. ~HasPill(r) /\ Load(r) = Len(r) /\ Load(q) = Len(q)
    BY <1>0, <1>1, <1>2 DEF HasPill, Load
  <1>4. ASSUME NEW i \in 1 .. Len(r) PROVE r[i] = Full(s[n + i])
    <2>1. CASE i = Len(q) + 1
      <3>1. n + i = n + Len(q) + 1
        BY <2>1, <1>2
      <3>. QED BY <2>1, <3>1, <1>1 DEF x
    <2>2. CASE i # Len(q) + 1
      <3>1. i \in 1 .. Len(q)
        BY <2>2, <1>1, <1>2
      <3>. QED BY <3>1, <1>1, <1>3 DEF Holds
    <2>. QED BY <2>1, <2>2
  <1>5. Holds(r, s, n)
    BY <1>3, <1>4 DEF Holds
  <1>. QED BY <1>1, <1>2, <1>3, <1>5 DEF r, x

\* The pill enters the channel.
LEMMA AppendPill ==
    ASSUME NEW q \in Seq(Buffers(Bodies)), ~HasPill(q)
    PROVE  LET r == Append(q, Pill) IN
           /\ r \in Seq(Buffers(Bodies)) /\ HasPill(r)
           /\ Load(r) = Load(q) /\ Len(r) = Len(q) + 1
           /\ \A s, n : Holds(q, s, n) => Holds(r, s, n)
  <1>. DEFINE r == Append(q, Pill)
  <1>1. /\ r \in Seq(Buffers(Bodies)) /\ Len(r) = Len(q) + 1 /\ r[Len(q) + 1] = Pill
        /\ \A i \in 1 .. Len(q) : r[i] = q[i]
    BY PillOrFull, AppendProperties
  <1>2. Len(q) \in Nat /\ r # <<>>
    OBVIOUS
  <1>. HIDE DEF r
  <1>3. HasPill(r) /\ Load(r) = Len(q) /\ Load(q) = Len(q)
    BY <1>1, <1>2, PillOrFull DEF HasPill, Load
  <1>4. ASSUME NEW s, NEW n, Holds(q, s, n), NEW i \in 1 .. Len(r)
        PROVE  r[i] = IF i <= Len(q) THEN Full(s[n + i]) ELSE Pill
    <2>1. CASE i = Len(q) + 1
      BY <2>1, <1>1, <1>2
    <2>2. CASE i # Len(q) + 1
      <3>1. i \in 1 .. Len(q)
        BY <2>2, <1>1, <1>2
      <3>. QED BY <3>1, <1>1, <1>2, <1>3, <1>4 DEF Holds
    <2>. QED BY <2>1, <2>2
  <1>5. \A s, n : Holds(q, s, n) => Holds(r, s, n)
    BY <1>3, <1>4 DEF Holds
  <1>. QED BY <1>1, <1>3, <1>5 DEF r

\* The first chunk leaves the channel.
LEMMA TailChunk ==
    ASSUME NEW q \in Seq(Buffers(Bodies)), NEW s, NEW n \in Nat, Holds(q, s, n),
           q # <<>>, ~Head(q).pill
    PROVE  /\ Head(q) = Full(s[n + 1]) /\ Head(q).data = s[n + 1] /\ s[n + 1] \in Bodies
           /\ Tail(q) \in Seq(Buffers(Bodies)) /\ Len(Tail(q)) = Len(q) - 1
           /\ Holds(Tail(q), s, n + 1) /\ Load(q) > 0 /\ Load(Tail(q)) = Load(q) - 1
           /\ HasPill(Tail(q)) <=> HasPill(q)
  <1>. DEFINE t == Tail(q)
  <1>1. Len(q) \in Nat /\ Len(q) > 0 /\ Head(q) = q[1] /\ q[1] \in Buffers(Bodies)
    BY EmptySeq
  <1>2. Load(q) > 0 /\ q[1] = Full(s[n + 1])
    BY <1>1, PillOrFull DEF Holds, Load, HasPill
  <1>3. s[n + 1] \in Bodies /\ Head(q).data = s[n + 1]
    <2>1. Head(q).data = s[n + 1]
      BY <1>1, <1>2, PillOrFull
    <2>. QED BY <1>1, <2>1, BufferData
  <1>4. /\ t \in Seq(Buffers(Bodies)) /\ Len(t) = Len(q) - 1
        /\ \A i \in 1 .. Len(q) - 1 : t[i] = q[i + 1]
    BY HeadTailProperties
  <1>. HIDE DEF t
  <1>5. HasPill(t) <=> HasPill(q)
    <2>1. CASE Len(q) = 1
      <3>1. t = <<>>
        BY <2>1, <1>4, EmptySeq
      <3>. QED BY <3>1, <2>1, <1>1 DEF HasPill
    <2>2. CASE Len(q) # 1
      <3>1. t # <<>> /\ t[Len(t)] = q[Len(q)]
        BY <2>2, <1>1, <1>4, EmptySeq
      <3>. QED BY <3>1 DEF HasPill
    <2>. QED BY <2>1, <2>2
  <1>6. Load(t) = Load(q) - 1
    BY <1>1, <1>4, <1>5 DEF Load
  <1>7. ASSUME NEW i \in 1 .. Len(t)
        PROVE  t[i] = IF i <= Load(t) THEN Full(s[n + 1 + i]) ELSE Pill
    <2>1. t[i] = q[i + 1] /\ i + 1 \in 1 .. Len(q) /\ n + 1 + i = n + (i + 1)
      BY <1>1, <1>4
    <2>2. q[i + 1] = IF i + 1 <= Load(q) THEN Full(s[n + (i + 1)]) ELSE Pill
      BY <2>1 DEF Holds
    <2>3. i <= Load(t) <=> i + 1 <= Load(q)
      BY <1>6, LoadBounds
    <2>. QED BY <2>1, <2>2, <2>3
  <1>8. Holds(t, s, n + 1)
    BY <1>7 DEF Holds
  <1>. QED BY <1>1, <1>2, <1>3, <1>4, <1>5, <1>6, <1>8 DEF t

\* The channel begins with the pill only if there is nothing else in it.
LEMMA HeadPill ==
    ASSUME NEW q \in Seq(Buffers(Bodies)), NEW s, NEW n \in Nat, Holds(q, s, n),
           q # <<>>, Head(q).pill
    PROVE  HasPill(q) /\ Load(q) = 0 /\ Tail(q) = <<>>
  <1>1. Len(q) \in Nat /\ Len(q) > 0 /\ q[1].pill
    BY EmptySeq
  <1>2. ~(1 <= Load(q))
    BY <1>1, PillOrFull DEF Holds
  <1>3. HasPill(q)
    BY <1>1, <1>2 DEF Load
  <1>4. Load(q) = Len(q) - 1
    BY <1>3 DEF Load
  <1>5. PICK l \in Nat : l = Len(q) /\ l > 0 /\ ~(1 <= l - 1)
    BY <1>1, <1>2, <1>4
  <1>6. Len(q) = 1 /\ Load(q) = 0
    BY <1>4, <1>5
  <1>7. Tail(q) \in Seq(Buffers(Bodies)) /\ Len(Tail(q)) = 0
    BY <1>6, HeadTailProperties
  <1>8. Tail(q) = <<>>
    BY <1>7, EmptySeq
  <1>. QED BY <1>3, <1>6, <1>8

\* More chunks are emitted than the channel holds.
LEMMA MoreEmitted ==
    ASSUME NEW q \in Seq(Buffers(Bodies)), NEW s \in Seq(Bodies), NEW n \in Nat, NEW x \in Bodies,
           Holds(q, s, n), n + Load(q) <= Len(s)
    PROVE  Holds(q, Append(s, x), n)
  <1>. DEFINE t == Append(s, x)
  <1>1. \A i \in 1 .. Len(s) : t[i] = s[i]
    BY AppendProperties
  <1>. HIDE DEF t
  <1>2. ASSUME NEW i \in 1 .. Len(q)
        PROVE  q[i] = IF i <= Load(q) THEN Full(t[n + i]) ELSE Pill
    <2>1. i <= Load(q) => n + i \in 1 .. Len(s)
      BY LoadBounds
    <2>. QED BY <1>1, <2>1 DEF Holds
  <1>. QED BY <1>2 DEF Holds, t

-----------------------------------------------------------------------------
(* The invariant.                                                          *)

\* The invariant but for the parts that need it.
CoreInv == TypeOK /\ OutputInv /\ WriterInv /\ DecoderInv /\ ReaderInv /\ ExitInv

LEMMA CoreInit == Init => CoreInv
  <1>. SUFFICES ASSUME Init PROVE CoreInv
    OBVIOUS
  <1>1. TypeOK
    <2>1. /\ <<>> \in Seq(Buffers(Packet)) /\ <<>> \in Seq(Buffers(Bodies)) /\ <<>> \in Seq(Bodies)
          /\ Len(<<>>) = 0
      BY EmptySeq
    <2>2. 0 \in 0 .. Len(Stream) /\ 0 <= NetCap /\ 0 <= OutCap
      BY ReceiverAssumption, StreamAssumption
    <2>3. dec \in DecoderState /\ buf \in Buffers(Bodies) /\ slot \in Packet \union {NULL}
      BY NewDecoder, PillOrFull DEF Init
    <2>4. /\ net2dec \in Seq(Buffers(Packet)) /\ Len(net2dec) <= NetCap
          /\ dec2out \in Seq(Buffers(Bodies)) /\ Len(dec2out) <= OutCap
          /\ written \in Seq(Bodies) /\ emitted \in Seq(Bodies)
      BY <2>1, <2>2 DEF Init
    <2>5. pos \in 0 .. Len(Stream) /\ decret \in Int /\ retval \in Nat /\ dret \in Nat /\ wret \in Nat
      BY <2>2 DEF Init, HGAP_SUCCESS
    <2>6. /\ poisoned \in BOOLEAN /\ flushed \in BOOLEAN
          /\ closing \in BOOLEAN /\ started \in BOOLEAN
      BY DEF Init
    <2>. QED BY <2>3, <2>4, <2>5, <2>6 DEF Init, TypeOK
  <1>2. OutputInv
    BY EmptyHolds DEF Init, OutputInv, InHand
  <1>3. DecoderInv
    BY DEF Init, DecoderInv, hgap_decoder_new
  <1>4. WriterInv /\ ReaderInv /\ ExitInv
    BY DEF Init, WriterInv, ReaderInv, ExitInv
  <1>. QED BY <1>1, <1>2, <1>3, <1>4 DEF CoreInv

\* Steps of the reader leave what is decoded and written alone.
LEMMA OutputUnchanged ==
    ASSUME OutputInv, UNCHANGED <<dec2out, dvars, wvars, emitted>>, rpc' # "exited", rpc # "exited"
    PROVE  OutputInv'
  BY DEF OutputInv, Holds, Load, HasPill, InHand, dvars, wvars

LEMMA OthersUnchanged ==
    ASSUME WriterInv, DecoderInv, UNCHANGED <<dec2out, dvars, wvars, emitted>>
    PROVE  WriterInv' /\ DecoderInv'
  BY DEF WriterInv, DecoderInv, dvars, wvars

LEMMA OpenSocketInv ==
    ASSUME CoreInv, OpenSocket
    PROVE  CoreInv'
  <1>. USE DEF CoreInv
  <1>1. /\ rpc' = "reserve" /\ ExitInv'
        /\ \/ UNCHANGED <<closing, retval>>
           \/ closing' = TRUE /\ retval' = HGAP_ERR_NETWORK
    BY DEF OpenSocket, Close, ExitInv, dvars, wvars
  <1>2. TypeOK'
    <2>1. retval' \in Nat
      BY <1>1 DEF TypeOK, HGAP_ERR_NETWORK
    <2>2. closing' \in BOOLEAN
      BY <1>1, Zenon DEF TypeOK
    <2>. QED BY <1>1, <2>1, <2>2 DEF TypeOK, OpenSocket, dvars, wvars
  <1>3. OutputInv' /\ WriterInv' /\ DecoderInv'
    BY <1>1, OutputUnchanged, OthersUnchanged DEF OpenSocket
  <1>4. ReaderInv'
    BY <1>1 DEF ReaderInv, OpenSocket, HGAP_SUCCESS, HGAP_ERR_NETWORK
  <1>. QED BY <1>1, <1>2, <1>3, <1>4

LEMMA ReserveInv ==
    ASSUME CoreInv, Reserve
    PROVE  CoreInv'
  <1>. USE DEF CoreInv
  <1>1. CASE poisoned /\ ~closing /\ Exit
    <2>1. TypeOK'
      BY <1>1 DEF TypeOK, Reserve, Exit
    <2>2. OutputInv'
      BY <1>1 DEF OutputInv, Reserve, Exit, HasPill
    <2>3. WriterInv' /\ DecoderInv' /\ ReaderInv' /\ ExitInv'
      BY <1>1 DEF WriterInv, DecoderInv, ReaderInv, ExitInv, Reserve, Exit
    <2>. QED BY <2>1, <2>2, <2>3
  <1>2. CASE /\ UNCHANGED <<dpc, wpc>>
             /\ \/ poisoned /\ closing /\ rpc' = "join_dec"
                \/ rpc' = IF Len(net2dec) >= NetCap THEN "window"
                          ELSE IF closing THEN "pill" ELSE "recv"
    <2>1. /\ UNCHANGED <<dvars, wvars>>
          /\ \/ closing /\ rpc' = "join_dec"
             \/ rpc' = "window"
             \/ rpc' = "pill" /\ closing /\ Len(net2dec) < NetCap
             \/ rpc' = "recv" /\ ~closing /\ Len(net2dec) < NetCap
      BY <1>2, ReceiverAssumption DEF Reserve, dvars, wvars, TypeOK
    <2>2. TypeOK'
      BY <2>1 DEF TypeOK, Reserve, dvars, wvars
    <2>3. ExitInv' /\ rpc' # "exited" /\ rpc # "exited"
      BY <2>1 DEF Reserve, ExitInv, dvars, wvars
    <2>4. OutputInv' /\ WriterInv' /\ DecoderInv'
      BY <2>1, <2>3, OutputUnchanged, OthersUnchanged DEF Reserve
    <2>5. ReaderInv'
      BY <2>1 DEF ReaderInv, Reserve
    <2>. QED BY <2>2, <2>3, <2>4, <2>5
  <1>. QED BY <1>1, <1>2 DEF Reserve

LEMMA SleepInv ==
    ASSUME CoreInv, FallAsleep \/ SpuriousWakeup
    PROVE  CoreInv'
  <1>. USE DEF CoreInv
  <1>1. /\ rpc' \in {"asleep", "reserve"} /\ rpc # "exited"
        /\ UNCHANGED <<pos, net2dec, poisoned, dec2out, closing, started, slot, retval,
                       dvars, wvars, emitted>>
    BY DEF FallAsleep, SpuriousWakeup
  <1>2. TypeOK' /\ ReaderInv' /\ ExitInv'
    BY <1>1 DEF TypeOK, ReaderInv, ExitInv, dvars, wvars
  <1>3. OutputInv' /\ WriterInv' /\ DecoderInv'
    BY <1>1, OutputUnchanged, OthersUnchanged
  <1>. QED BY <1>2, <1>3

LEMMA RecvPacketInv ==
    ASSUME CoreInv, RecvPacket
    PROVE  CoreInv'
  <1>. USE DEF CoreInv
  <1>1. pos' \in 1 .. Len(Stream) /\ slot' = Stream[pos']
    BY StreamAssumption DEF RecvPacket, TypeOK
  <1>2. slot' \in Packet /\ Len(Stream) \in Nat
    BY <1>1, StreamAssumption
  <1>3. TypeOK'
    <2>1. started' \in BOOLEAN
      BY DEF RecvPacket
    <2>. QED BY <1>1, <1>2, <2>1 DEF TypeOK, RecvPacket, dvars, wvars
  <1>4. OutputInv' /\ WriterInv' /\ DecoderInv'
    BY OutputUnchanged, OthersUnchanged DEF RecvPacket
  <1>5. ReaderInv' /\ ExitInv'
    BY <1>1, <1>2 DEF ReaderInv, ExitInv, RecvPacket, dvars, wvars
  <1>. QED BY <1>3, <1>4, <1>5

LEMMA RecvFailsInv ==
    ASSUME CoreInv, RecvFails
    PROVE  CoreInv'
  <1>. USE DEF CoreInv
  <1>1. /\ closing' = TRUE /\ rpc' = "reserve" /\ rpc = "recv"
        /\ retval' \in {HGAP_ERR_TIMEOUT, HGAP_ERR_NETWORK}
    BY DEF RecvFails, Close
  <1>2. retval' \in Nat /\ retval' # HGAP_SUCCESS
    BY <1>1 DEF HGAP_ERR_TIMEOUT, HGAP_ERR_NETWORK, HGAP_SUCCESS
  <1>3. TypeOK'
    BY <1>1, <1>2 DEF TypeOK, RecvFails, dvars, wvars
  <1>4. OutputInv' /\ WriterInv' /\ DecoderInv'
    BY <1>1, OutputUnchanged, OthersUnchanged DEF RecvFails
  <1>5. ReaderInv' /\ ExitInv'
    BY <1>1, <1>2 DEF ReaderInv, ExitInv, RecvFails, dvars, wvars
  <1>. QED BY <1>3, <1>4, <1>5

LEMMA SendReservedInv ==
    ASSUME CoreInv, SendReserved
    PROVE  CoreInv'
  <1>. USE DEF CoreInv
  <1>1. /\ rpc = "send" /\ rpc' = "reserve" /\ ~closing /\ retval = HGAP_SUCCESS
        /\ pos > 0 /\ slot = Stream[pos] /\ Len(net2dec) < NetCap
    BY DEF SendReserved, Close, ReaderInv
  <1>2. slot \in Packet
    BY <1>1, StreamAssumption DEF TypeOK
  <1>3. OutputInv' /\ WriterInv' /\ DecoderInv'
    BY <1>1, OutputUnchanged, OthersUnchanged DEF SendReserved
  <1>4. CASE poisoned
    <2>1. closing' = TRUE /\ retval' = HGAP_ERR_IPC /\ UNCHANGED net2dec
      BY <1>4 DEF SendReserved, Close
    <2>2. TypeOK'
      BY <1>1, <2>1 DEF TypeOK, SendReserved, HGAP_ERR_IPC, dvars, wvars
    <2>3. ReaderInv' /\ ExitInv'
      BY <1>1, <2>1 DEF ReaderInv, ExitInv, SendReserved, HGAP_ERR_IPC, HGAP_SUCCESS, dvars, wvars
    <2>. QED BY <1>3, <2>2, <2>3
  <1>5. CASE ~poisoned
    <2>1. /\ net2dec' = Append(net2dec, Full(slot)) /\ UNCHANGED retval
          /\ closing' = (hgap_pkt_type(slot) = "end")
      BY <1>5 DEF SendReserved
    <2>2. /\ net2dec' \in Seq(Buffers(Packet)) /\ Len(net2dec') = Len(net2dec) + 1
      BY <1>2, <2>1, PillOrFull, AppendProperties DEF TypeOK
    <2>3. TypeOK'
      <3>1. Len(net2dec') <= NetCap
        BY <1>1, <2>2, ReceiverAssumption DEF TypeOK
      <3>2. closing' \in BOOLEAN
        BY <2>1
      <3>. QED BY <1>1, <2>1, <2>2, <3>1, <3>2 DEF TypeOK, SendReserved, dvars, wvars
    <2>4. ReaderInv' /\ ExitInv'
      BY <1>1, <2>1 DEF ReaderInv, ExitInv, SendReserved, dvars, wvars
    <2>. QED BY <1>3, <2>3, <2>4
  <1>. QED BY <1>4, <1>5

LEMMA SendPillInv ==
    ASSUME CoreInv, SendPill
    PROVE  CoreInv'
  <1>. USE DEF CoreInv
  <1>1. rpc = "pill" /\ rpc' = "join_dec" /\ closing /\ Len(net2dec) < NetCap
    BY DEF SendPill, ReaderInv
  <1>2. OutputInv' /\ WriterInv' /\ DecoderInv'
    BY <1>1, OutputUnchanged, OthersUnchanged DEF SendPill
  <1>3. /\ retval' \in {retval, HGAP_ERR_IPC}
        /\ net2dec' \in Seq(Buffers(Packet)) /\ Len(net2dec') <= NetCap
    <2>1. CASE poisoned
      BY <2>1 DEF SendPill, TypeOK
    <2>2. CASE ~poisoned
      <3>1. net2dec' = Append(net2dec, Pill) /\ UNCHANGED retval
        BY <2>2 DEF SendPill
      <3>2. net2dec' \in Seq(Buffers(Packet)) /\ Len(net2dec') = Len(net2dec) + 1
        BY <3>1, PillOrFull, AppendProperties DEF TypeOK
      <3>. QED BY <1>1, <3>1, <3>2, ReceiverAssumption DEF TypeOK
    <2>. QED BY <2>1, <2>2
  <1>4. TypeOK'
    BY <1>1, <1>3 DEF TypeOK, SendPill, HGAP_ERR_IPC, dvars, wvars
  <1>5. ReaderInv' /\ ExitInv'
    BY <1>1, <1>3 DEF ReaderInv, ExitInv, SendPill, HGAP_ERR_IPC, HGAP_SUCCESS, dvars, wvars
  <1>. QED BY <1>2, <1>4, <1>5

\* HGAP_SELECT_ERROR reports success only for two successes.
LEMMA SelectError ==
    ASSUME NEW e1 \in Nat, NEW e2 \in Nat
    PROVE  /\ HGAP_SELECT_ERROR(e1, e2) \in Nat
           /\ HGAP_SELECT_ERROR(e1, e2) = HGAP_SUCCESS => e1 = HGAP_SUCCESS /\ e2 = HGAP_SUCCESS
  BY DEF HGAP_SELECT_ERROR, HGAP_SUCCESS

LEMMA JoinInv ==
    ASSUME CoreInv, JoinDecoder \/ JoinWriter
    PROVE  CoreInv'
  <1>. USE DEF CoreInv
  <1>1. /\ UNCHANGED <<pos, net2dec, poisoned, dec2out, closing, started, slot,
                       dvars, wvars, emitted>>
        /\ \/ rpc = "join_dec" /\ rpc' = "join_wr" /\ dpc = "done"
              /\ retval' = HGAP_SELECT_ERROR(dret, retval)
           \/ rpc = "join_wr" /\ rpc' = "returned" /\ wpc = "done"
              /\ retval' = HGAP_SELECT_ERROR(wret, retval)
    BY DEF JoinDecoder, JoinWriter
  <1>2. /\ retval' \in Nat
        /\ retval' = HGAP_SUCCESS =>
            /\ retval = HGAP_SUCCESS
            /\ rpc = "join_dec" => dret = HGAP_SUCCESS
            /\ rpc = "join_wr" => wret = HGAP_SUCCESS
    <2>0. retval \in Nat /\ dret \in Nat /\ wret \in Nat
      BY DEF TypeOK
    <2>1. CASE rpc = "join_dec"
      BY <1>1, <2>0, <2>1, SelectError
    <2>2. CASE rpc = "join_wr"
      BY <1>1, <2>0, <2>2, SelectError
    <2>. QED BY <1>1, <2>1, <2>2
  <1>3. TypeOK'
    BY <1>1, <1>2 DEF TypeOK, dvars, wvars
  <1>4. OutputInv' /\ WriterInv' /\ DecoderInv'
    BY <1>1, OutputUnchanged, OthersUnchanged
  <1>5. ReaderInv' /\ ExitInv'
    BY <1>1, <1>2 DEF ReaderInv, ExitInv, dvars, wvars
  <1>. QED BY <1>3, <1>4, <1>5

-----------------------------------------------------------------------------
(* Steps of decloop.                                                       *)

LEMMA PeekPillInv ==
    ASSUME CoreInv, PeekPill
    PROVE  CoreInv'
  <1>. USE DEF CoreInv
  <1>1. TypeOK'
    BY DEF TypeOK, PeekPill, rvars, wvars
  <1>2. OutputInv'
    BY DEF OutputInv, PeekPill, Holds, Load, HasPill, InHand, rvars, wvars
  <1>3. WriterInv' /\ ReaderInv' /\ ExitInv'
    BY DEF WriterInv, ReaderInv, ExitInv, PeekPill, rvars, wvars
  <1>4. DecoderInv'
    BY DEF DecoderInv, PeekPill, TypeOK, HGAP_EOT
  <1>. QED BY <1>1, <1>2, <1>3, <1>4

\* The reader is woken, or is where it was.
LEMMA WokenInv ==
    ASSUME CoreInv, rpc' = rpc \/ (rpc = "asleep" /\ rpc' = "reserve"),
           net2dec' = net2dec \/ Len(net2dec') <= Len(net2dec), Len(net2dec') \in Nat,
           dpc \notin {"done", "exited"}, dpc' \notin {"exited"},
           UNCHANGED <<pos, closing, started, slot, retval, wvars>>
    PROVE  ReaderInv' /\ ExitInv' /\ rpc # "exited" /\ rpc' # "exited"
  <1>. USE DEF CoreInv
  <1>1. Len(net2dec) \in Nat /\ Len(net2dec') <= Len(net2dec)
    BY DEF TypeOK
  <1>2. rpc # "exited" /\ rpc' # "exited" /\ ExitInv'
    BY DEF ExitInv, wvars
  <1>3. Len(net2dec) < NetCap => Len(net2dec') < NetCap
    BY <1>1, ReceiverAssumption
  <1>4. ReaderInv'
    BY <1>3 DEF ReaderInv, wvars
  <1>. QED BY <1>2, <1>4

LEMMA ReadPacketInv ==
    ASSUME CoreInv, ReadPacket
    PROVE  CoreInv'
  <1>. USE DEF CoreInv
  <1>1. Head(net2dec).data \in Packet
    <2>1. Head(net2dec) \in Buffers(Packet)
      BY HeadTailProperties DEF ReadPacket, TypeOK
    <2>. QED BY <2>1, BufferData DEF ReadPacket
  <1>2. PICK r \in hgap_decoder_read(dec, Head(net2dec).data) : dec' = r.dec /\ decret' = r.ret
    BY DEF ReadPacket
  <1>3. Consistent(dec)
    BY DEF TypeOK, DecoderInv, Consistent
  <1>4. Consistent(dec') /\ decret' \in Int /\ Ready(dec', decret')
    BY <1>1, <1>2, <1>3, DecoderRead
  <1>5. net2dec' \in Seq(Buffers(Packet)) /\ Len(net2dec') = Len(net2dec) - 1
    BY HeadTailProperties DEF ReadPacket, TypeOK
  <1>6. Len(net2dec') \in Nat /\ Len(net2dec') <= Len(net2dec) /\ Len(net2dec') <= NetCap
    BY <1>5, ReceiverAssumption DEF TypeOK
  <1>7. ReaderInv' /\ ExitInv' /\ rpc # "exited" /\ rpc' # "exited"
    BY <1>6, WokenInv DEF ReadPacket
  <1>8. TypeOK'
    <2>1. dec' \in DecoderState
      BY <1>4 DEF Consistent
    <2>. QED BY <1>4, <1>5, <1>6, <2>1 DEF TypeOK, ReadPacket, wvars
  <1>9. OutputInv'
    BY <1>7 DEF OutputInv, ReadPacket, Holds, Load, HasPill, InHand, wvars
  <1>10. WriterInv'
    BY DEF WriterInv, ReadPacket, wvars
  <1>11. DecoderInv'
    BY <1>4 DEF DecoderInv, ReadPacket, Consistent, Ready
  <1>. QED BY <1>7, <1>8, <1>9, <1>10, <1>11

\* decloop gives up.
LEMMA DecodeErrorInv ==
    ASSUME CoreInv, dpc = "handle", NEW err \in Nat \ {0}, DecodeError(err),
           dec' \in DecoderState, dec'.chunk_emitted => dec'.chunk_complete,
           UNCHANGED <<pos, net2dec, dec2out, closing, started, slot, retval, decret, buf,
                       wvars, emitted>>
    PROVE  CoreInv'
  <1>. USE DEF CoreInv
  <1>1. /\ rpc' = rpc \/ (rpc = "asleep" /\ rpc' = "reserve")
        /\ dpc' = "finish" /\ dret' = err /\ poisoned' = TRUE
    BY DEF DecodeError, channel_poison
  <1>2. ReaderInv' /\ ExitInv' /\ rpc # "exited" /\ rpc' # "exited"
    BY <1>1, WokenInv DEF TypeOK
  <1>3. TypeOK'
    BY <1>1 DEF TypeOK, wvars
  <1>4. OutputInv'
    BY <1>1, <1>2 DEF OutputInv, Holds, Load, HasPill, InHand, wvars
  <1>5. WriterInv' /\ DecoderInv'
    BY <1>1 DEF WriterInv, DecoderInv, HGAP_SUCCESS, wvars
  <1>. QED BY <1>2, <1>3, <1>4, <1>5

\* decloop emits a chunk.
LEMMA EmitInv ==
    ASSUME CoreInv, dpc = "handle", decret > 0, NEW x \in Bodies,
           dpc' = "send", buf' = Full(x), emitted' = Append(emitted, x),
           dec' \in DecoderState, dec'.chunk_emitted => dec'.chunk_complete,
           UNCHANGED <<pos, net2dec, poisoned, dec2out, rpc, closing, started, slot, retval,
                       decret, dret, wvars>>
    PROVE  CoreInv'
  <1>. USE DEF CoreInv
  <1>1. ReaderInv' /\ ExitInv' /\ rpc # "exited" /\ rpc' # "exited"
    BY WokenInv DEF TypeOK
  <1>2. /\ emitted' \in Seq(Bodies) /\ Len(emitted') = Len(emitted) + 1
        /\ emitted'[Len(emitted) + 1] = x /\ \A i \in 1 .. Len(emitted) : emitted'[i] = emitted[i]
    BY AppendProperties DEF TypeOK
  <1>3. TypeOK'
    BY <1>2, PillOrFull DEF TypeOK, wvars
  <1>4. /\ Len(emitted) \in Nat /\ Len(written) \in Nat /\ Load(dec2out) \in Nat
        /\ dec2out \in Seq(Buffers(Bodies)) /\ emitted \in Seq(Bodies)
    BY LoadBounds DEF TypeOK
  <1>5. OutputInv'
    <2>1. Len(written) <= Len(emitted') /\ \A i \in 1 .. Len(written) : written[i] = emitted'[i]
      BY <1>2, <1>4 DEF OutputInv
    <2>2. wret = HGAP_SUCCESS =>
            /\ Len(emitted') = Len(written) + Load(dec2out) + 1
            /\ Holds(dec2out, emitted', Len(written))
      BY <1>1, <1>2, <1>4, MoreEmitted DEF OutputInv, InHand
    <2>3. buf' = Full(emitted'[Len(emitted')])
      BY <1>2
    <2>4. ~HasPill(dec2out)
      BY DEF OutputInv
    <2>. QED BY <2>1, <2>2, <2>3, <2>4
         DEF OutputInv, InHand, Holds, Load, HasPill, wvars
  <1>6. WriterInv' /\ DecoderInv'
    BY DEF WriterInv, DecoderInv, TypeOK, wvars
  <1>. QED BY <1>1, <1>3, <1>5, <1>6

\* decloop goes on or ends without a chunk.
LEMMA ContinueInv ==
    ASSUME CoreInv, dpc = "handle",
           \/ decret = 0 /\ dpc' = "peek"
           \/ decret = -HGAP_EOT /\ dpc' = "finish",
           UNCHANGED <<pos, net2dec, poisoned, dec2out, rpc, closing, started, slot, retval,
                       dec, decret, buf, dret, wvars, emitted>>
    PROVE  CoreInv'
  <1>. USE DEF CoreInv
  <1>1. ReaderInv' /\ ExitInv' /\ rpc # "exited" /\ rpc' # "exited"
    BY WokenInv DEF TypeOK
  <1>2. TypeOK'
    BY DEF TypeOK, wvars
  <1>3. OutputInv'
    BY <1>1 DEF OutputInv, Holds, Load, HasPill, InHand, wvars
  <1>4. WriterInv' /\ DecoderInv'
    BY DEF WriterInv, DecoderInv, TypeOK, HGAP_EOT, wvars
  <1>. QED BY <1>1, <1>2, <1>3, <1>4

LEMMA HandleReturnInv ==
    ASSUME CoreInv, HandleReturn
    PROVE  CoreInv'
  <1>0. dec \in DecoderState /\ Consistent(dec) /\ decret \in Int /\ dpc = "handle"
    BY DEF CoreInv, TypeOK, DecoderInv, Consistent, HandleReturn
  <1>1. CASE decret = 0 \/ decret = -HGAP_EOT
    BY <1>0, <1>1, ContinueInv DEF HandleReturn, HGAP_EOT
  <1>2. CASE decret < 0 /\ decret # -HGAP_EOT
    <2>1. -decret \in Nat \ {0}
      BY <1>0, <1>2
    <2>2. DecodeError(-decret) /\ UNCHANGED <<dec, buf, emitted>>
      <3>1. ~(decret = 0) /\ ~(decret > 0)
        BY <1>0, <1>2
      <3>. QED BY <1>2, <3>1, Zenon DEF HandleReturn
    <2>3. dec' \in DecoderState /\ (dec'.chunk_emitted => dec'.chunk_complete)
      BY <1>0, <2>2 DEF Consistent
    <2>. QED BY <1>0, <2>1, <2>2, <2>3, DecodeErrorInv DEF HandleReturn
  <1>3. CASE decret > 0
    <2>1. PICK e \in hgap_decoder_emit(dec, decret) :
            /\ dec' = e.dec
            /\ IF e.ret = HGAP_SUCCESS
               THEN /\ dpc' = "send" /\ buf' = Full(e.out) /\ emitted' = Append(emitted, e.out)
                    /\ UNCHANGED <<rpc, poisoned, dret>>
               ELSE DecodeError(e.ret) /\ UNCHANGED <<buf, emitted>>
      <3>1. ~(decret = 0) /\ ~(decret = -HGAP_EOT) /\ ~(decret < 0)
        BY <1>0, <1>3 DEF HGAP_EOT
      <3>. QED BY <3>1, Zenon DEF HandleReturn
    <2>2. Consistent(e.dec) /\ e.ret \in Nat /\ e.out \in Bodies
      BY <1>0, DecoderEmit
    <2>3. dec' \in DecoderState /\ (dec'.chunk_emitted => dec'.chunk_complete)
      BY <2>1, <2>2 DEF Consistent
    <2>4. CASE e.ret = HGAP_SUCCESS
      BY <1>0, <1>3, <2>1, <2>2, <2>3, <2>4, EmitInv DEF HandleReturn
    <2>5. CASE e.ret # HGAP_SUCCESS
      <3>1. e.ret \in Nat \ {0}
        BY <2>2, <2>5 DEF HGAP_SUCCESS
      <3>. QED BY <1>0, <2>1, <2>3, <2>5, <3>1, DecodeErrorInv DEF HandleReturn
    <2>. QED BY <2>4, <2>5
  <1>. QED BY <1>0, <1>1, <1>2, <1>3

\* decloop hands a chunk over.
LEMMA SendChunkInv ==
    ASSUME CoreInv, SendChunk
    PROVE  CoreInv'
  <1>. USE DEF CoreInv
  <1>. DEFINE n == Len(written)
  <1>1. /\ rpc # "exited" /\ ~HasPill(dec2out) /\ dpc = "send" /\ dpc' = "peek"
        /\ UNCHANGED <<rvars, wvars, emitted>> /\ dec2out' = Append(dec2out, buf)
    BY DEF SendChunk, OutputInv, ExitInv
  <1>2. /\ n \in Nat /\ Len(dec2out) \in Nat /\ Len(emitted) \in Nat
        /\ dec2out \in Seq(Buffers(Bodies)) /\ emitted \in Seq(Bodies) /\ buf \in Buffers(Bodies)
    BY DEF TypeOK
  <1>3. dec2out' \in Seq(Buffers(Bodies)) /\ Len(dec2out') = Len(dec2out) + 1
    BY <1>1, <1>2, AppendProperties
  <1>4. TypeOK'
    <2>1. Len(dec2out') <= OutCap
      BY <1>2, <1>3, ReceiverAssumption DEF SendChunk
    <2>. QED BY <1>1, <1>3, <2>1 DEF TypeOK, SendChunk, rvars, wvars
  <1>5. wret = HGAP_SUCCESS =>
            Holds(dec2out', emitted, n) /\ Len(emitted) = n + Load(dec2out')
    <2>. SUFFICES ASSUME wret = HGAP_SUCCESS
                  PROVE  Holds(dec2out', emitted, n) /\ Len(emitted) = n + Load(dec2out')
      OBVIOUS
    <2>1. Load(dec2out) = Len(dec2out)
      BY <1>1 DEF Load
    <2>2. /\ Holds(dec2out, emitted, n) /\ Len(emitted) = n + Len(dec2out) + 1
          /\ buf = Full(emitted[n + Len(dec2out) + 1])
      BY <1>1, <2>1 DEF OutputInv, InHand
    <2>3. emitted[n + Len(dec2out) + 1] \in Bodies
      BY <1>2, <2>2
    <2>4. Holds(dec2out', emitted, n) /\ Load(dec2out') = Load(dec2out) + 1
      BY <1>1, <1>2, <2>2, <2>3, AppendChunk
    <2>. QED BY <1>2, <2>1, <2>2, <2>4
  <1>6. ~HasPill(dec2out')
    <2>1. ~buf.pill
      BY <1>1, PillOrFull DEF OutputInv
    <2>2. dec2out'[Len(dec2out')] = buf
      BY <1>1, <1>2, <1>3, AppendProperties
    <2>. QED BY <2>1, <2>2 DEF HasPill
  <1>7. OutputInv'
    BY <1>1, <1>2, <1>5, <1>6 DEF OutputInv, InHand, Holds, Load, HasPill, wvars, rvars
  <1>8. WriterInv' /\ DecoderInv'
    BY <1>1 DEF WriterInv, DecoderInv, SendChunk, wvars
  <1>9. ReaderInv' /\ ExitInv'
    BY <1>1 DEF ReaderInv, ExitInv, SendChunk, rvars, wvars
  <1>. QED BY <1>4, <1>7, <1>8, <1>9

LEMMA SendDecoderPillInv ==
    ASSUME CoreInv, SendDecoderPill
    PROVE  CoreInv'
  <1>. USE DEF CoreInv
  <1>1. /\ rpc # "exited" /\ ~HasPill(dec2out) /\ dpc = "finish" /\ dpc' = "done"
        /\ UNCHANGED <<rvars, wvars, emitted>> /\ dec2out' = Append(dec2out, Pill)
    BY DEF SendDecoderPill, OutputInv, ExitInv
  <1>2. Len(dec2out) \in Nat /\ dec2out \in Seq(Buffers(Bodies))
    BY DEF TypeOK
  <1>3. /\ dec2out' \in Seq(Buffers(Bodies)) /\ Len(dec2out') = Len(dec2out) + 1
        /\ Load(dec2out') = Load(dec2out)
        /\ \A s, n : Holds(dec2out, s, n) => Holds(dec2out', s, n)
    BY <1>1, <1>2, AppendPill
  <1>4. TypeOK'
    <2>1. Len(dec2out') <= OutCap
      BY <1>2, <1>3, ReceiverAssumption DEF SendDecoderPill
    <2>. QED BY <1>1, <1>3, <2>1 DEF TypeOK, SendDecoderPill, rvars, wvars
  <1>5. OutputInv'
    BY <1>1, <1>3 DEF OutputInv, InHand, wvars, rvars
  <1>6. WriterInv' /\ DecoderInv'
    BY <1>1 DEF WriterInv, DecoderInv, SendDecoderPill, wvars
  <1>7. ReaderInv' /\ ExitInv'
    BY <1>1 DEF ReaderInv, ExitInv, SendDecoderPill, rvars, wvars
  <1>. QED BY <1>4, <1>5, <1>6, <1>7

-----------------------------------------------------------------------------
(* Steps of writer.                                                        *)

LEMMA RecvChunkInv ==
    ASSUME CoreInv, RecvChunk
    PROVE  CoreInv'
  <1>. USE DEF CoreInv
  <1>. DEFINE n == Len(written)
  <1>1. /\ rpc # "exited" /\ wpc = "recv" /\ wret = HGAP_SUCCESS /\ dec2out # <<>>
        /\ UNCHANGED <<rvars, dvars, emitted>> /\ dec2out' = Tail(dec2out)
    BY DEF RecvChunk, ExitInv, WriterInv
  <1>2. /\ n \in Nat /\ Len(dec2out) \in Nat /\ Load(dec2out) \in Nat /\ Len(emitted) \in Nat
        /\ dec2out \in Seq(Buffers(Bodies)) /\ InHand \in Nat
    BY LoadBounds DEF TypeOK, InHand
  <1>3. Holds(dec2out, emitted, n) /\ Len(emitted) = n + Load(dec2out) + InHand
    BY <1>1 DEF OutputInv
  <1>4. dec2out' \in Seq(Buffers(Bodies)) /\ Len(dec2out') <= OutCap
    BY <1>1, <1>2, HeadTailProperties, ReceiverAssumption DEF TypeOK
  <1>5. InHand' = InHand
    BY <1>1 DEF InHand, dvars
  <1>6. CASE Head(dec2out).pill
    <2>1. wpc' = "flush" /\ UNCHANGED <<written, wret>>
      BY <1>6 DEF RecvChunk
    <2>2. HasPill(dec2out) /\ Load(dec2out) = 0 /\ dec2out' = <<>>
      BY <1>1, <1>2, <1>3, <1>6, HeadPill
    <2>3. dpc = "done"
      BY <1>1, <2>2 DEF OutputInv, TypeOK, ExitInv
    <2>4. TypeOK'
      BY <1>1, <1>4, <2>1 DEF TypeOK, RecvChunk, rvars, dvars
    <2>5. OutputInv'
      <3>1. Load(dec2out') = 0 /\ Holds(dec2out', emitted, n) /\ ~HasPill(dec2out')
        BY <2>2, EmptyHolds
      <3>. QED BY <1>1, <1>3, <1>5, <2>1, <2>2, <3>1 DEF OutputInv, rvars, dvars
    <2>6. WriterInv' /\ DecoderInv' /\ ReaderInv' /\ ExitInv'
      BY <1>1, <2>1, <2>2, <2>3
      DEF WriterInv, DecoderInv, ReaderInv, ExitInv, RecvChunk, rvars, dvars
    <2>. QED BY <2>4, <2>5, <2>6
  <1>7. CASE ~Head(dec2out).pill
    <2>1. /\ Head(dec2out).data = emitted[n + 1] /\ emitted[n + 1] \in Bodies
          /\ Holds(dec2out', emitted, n + 1) /\ Load(dec2out) > 0
          /\ Load(dec2out') = Load(dec2out) - 1 /\ (HasPill(dec2out') <=> HasPill(dec2out))
      BY <1>1, <1>2, <1>3, <1>7, TailChunk
    <2>2. n < Len(emitted)
      BY <1>2, <1>3, <2>1
    <2>3. CASE written' = Append(written, Head(dec2out).data) /\ UNCHANGED <<wpc, wret>>
      <3>1. /\ written' \in Seq(Bodies) /\ Len(written') = n + 1
            /\ written'[n + 1] = emitted[n + 1] /\ \A i \in 1 .. n : written'[i] = written[i]
        BY <2>1, <2>3, AppendProperties DEF TypeOK
      <3>2. TypeOK'
        BY <1>1, <1>4, <2>3, <3>1 DEF TypeOK, RecvChunk, rvars, dvars
      <3>3. OutputInv'
        <4>1. Len(written') <= Len(emitted) /\ \A i \in 1 .. Len(written') : written'[i] = emitted[i]
          BY <1>2, <2>2, <3>1 DEF OutputInv
        <4>2. Len(emitted) = Len(written') + Load(dec2out') + InHand
          BY <1>2, <1>3, <2>1, <3>1
        <4>. QED BY <1>1, <1>5, <2>1, <3>1, <4>1, <4>2 DEF OutputInv, rvars, dvars
      <3>4. WriterInv' /\ DecoderInv' /\ ReaderInv' /\ ExitInv'
        BY <1>1, <2>3 DEF WriterInv, DecoderInv, ReaderInv, ExitInv, RecvChunk, rvars, dvars
      <3>. QED BY <3>2, <3>3, <3>4
    <2>4. CASE wpc' = "flush" /\ wret' = HGAP_ERR_BAD_OUT_FD /\ UNCHANGED written
      <3>1. wret' # HGAP_SUCCESS
        BY <2>4 DEF HGAP_ERR_BAD_OUT_FD, HGAP_SUCCESS
      <3>2. TypeOK'
        BY <1>1, <1>4, <2>4 DEF TypeOK, RecvChunk, rvars, dvars, HGAP_ERR_BAD_OUT_FD
      <3>3. OutputInv'
        BY <1>1, <2>1, <2>4, <3>1 DEF OutputInv, rvars, dvars
      <3>4. WriterInv' /\ DecoderInv' /\ ReaderInv' /\ ExitInv'
        BY <1>1, <2>4, <3>1
        DEF WriterInv, DecoderInv, ReaderInv, ExitInv, RecvChunk, rvars, dvars
      <3>. QED BY <3>2, <3>3, <3>4
    <2>. QED BY <1>7, <2>3, <2>4 DEF RecvChunk
  <1>. QED BY <1>6, <1>7

LEMMA FlushInv ==
    ASSUME CoreInv, Flush
    PROVE  CoreInv'
  <1>. USE DEF CoreInv
  <1>1. TypeOK'
    BY DEF TypeOK, Flush, rvars, dvars
  <1>2. OutputInv'
    BY DEF OutputInv, Flush, Holds, Load, HasPill, InHand, rvars, dvars
  <1>3. WriterInv' /\ DecoderInv' /\ ReaderInv' /\ ExitInv'
    BY DEF WriterInv, DecoderInv, ReaderInv, ExitInv, Flush, rvars, dvars
  <1>. QED BY <1>1, <1>2, <1>3

LEMMA CoreNext == CoreInv /\ [Next]_vars => CoreInv'
  <1>. SUFFICES ASSUME CoreInv, [Next]_vars PROVE CoreInv'
    OBVIOUS
  <1>1. CASE ReaderStep \/ SpuriousWakeup
    BY <1>1, OpenSocketInv, ReserveInv, SleepInv, RecvPacketInv, RecvFailsInv, SendReservedInv,
       SendPillInv, JoinInv DEF ReaderStep
  <1>2. CASE DecoderStep
    BY <1>2, PeekPillInv, ReadPacketInv, HandleReturnInv, SendChunkInv, SendDecoderPillInv
    DEF DecoderStep
  <1>3. CASE WriterStep
    BY <1>3, RecvChunkInv, FlushInv DEF WriterStep
  <1>4. CASE UNCHANGED vars
    <2>. USE DEF CoreInv, vars
    <2>1. TypeOK'
      BY <1>4 DEF TypeOK
    <2>2. OutputInv'
      BY <1>4 DEF OutputInv, Holds, Load, HasPill, InHand
    <2>3. WriterInv' /\ DecoderInv' /\ ReaderInv' /\ ExitInv'
      BY <1>4 DEF WriterInv, DecoderInv, ReaderInv, ExitInv
    <2>. QED BY <2>1, <2>2, <2>3
  <1>. QED BY <1>1, <1>2, <1>3, <1>4 DEF Next, Stopped

-----------------------------------------------------------------------------
(* What a write error costs.                                               *)

LEMMA LostNext == CoreInv /\ LostInv /\ [Next]_vars => LostInv'
  <1>. SUFFICES ASSUME CoreInv, LostInv, [Next]_vars, rpc' # "exited", wret' # HGAP_SUCCESS
                PROVE  Len(emitted') = Len(written') + Load(dec2out') + InHand' + 1
    BY DEF LostInv
  <1>. USE DEF CoreInv
  <1>1. /\ Len(emitted) \in Nat /\ Len(written) \in Nat /\ Load(dec2out) \in Nat /\ InHand \in Nat
        /\ dec2out \in Seq(Buffers(Bodies)) /\ emitted \in Seq(Bodies) /\ written \in Seq(Bodies)
    BY LoadBounds DEF TypeOK, InHand
  <1>2. rpc # "exited" /\ wret # HGAP_SUCCESS =>
            Len(emitted) = Len(written) + Load(dec2out) + InHand + 1
    BY DEF LostInv
  <1>3. CASE UNCHANGED <<emitted, written, dec2out, wret, InHand>> /\ rpc # "exited"
    BY <1>2, <1>3
  <1>4. CASE ReaderStep \/ SpuriousWakeup \/ UNCHANGED vars
    <2>1. UNCHANGED <<emitted, written, dec2out, wret, dpc>> /\ rpc # "exited"
      <3>1. CASE OpenSocket \/ RecvPacket \/ RecvFails \/ SendReserved \/ SendPill
        BY <3>1 DEF OpenSocket, RecvPacket, RecvFails, SendReserved, SendPill, dvars, wvars
      <3>2. CASE FallAsleep \/ SpuriousWakeup \/ JoinDecoder \/ JoinWriter \/ UNCHANGED vars
        BY <3>2 DEF FallAsleep, SpuriousWakeup, JoinDecoder, JoinWriter, vars, dvars, wvars
      <3>3. CASE Reserve
        BY <3>3 DEF Reserve, Exit
      <3>. QED BY <1>4, <3>1, <3>2, <3>3 DEF ReaderStep
    <2>. QED BY <1>3, <2>1 DEF InHand
  <1>5. CASE PeekPill \/ ReadPacket
    BY <1>3, <1>5 DEF PeekPill, ReadPacket, InHand, ExitInv, wvars
  <1>6. CASE HandleReturn
    <2>0. rpc # "exited" /\ InHand = 0 /\ UNCHANGED <<written, dec2out, wret>>
      BY <1>6 DEF HandleReturn, ExitInv, InHand, wvars
    <2>1. CASE UNCHANGED emitted /\ dpc' # "send"
      BY <1>3, <2>0, <2>1 DEF InHand
    <2>2. CASE dpc' = "send" /\ \E e \in hgap_decoder_emit(dec, decret) : emitted' = Append(emitted, e.out)
      <3>1. Consistent(dec) /\ decret \in Int
        BY DEF Consistent, DecoderInv, TypeOK
      <3>2. PICK e \in hgap_decoder_emit(dec, decret) : emitted' = Append(emitted, e.out)
        BY <2>2
      <3>3. e.out \in Bodies
        BY <3>1, DecoderEmit
      <3>4. Len(emitted') = Len(emitted) + 1 /\ InHand' = 1
        BY <1>1, <2>2, <3>2, <3>3, AppendProperties DEF InHand
      <3>. QED BY <1>1, <1>2, <2>0, <3>4
    <2>. QED BY <1>6, <2>1, <2>2 DEF HandleReturn, DecodeError
  <1>7. CASE SendChunk
    <2>1. ~HasPill(dec2out) /\ buf \in Buffers(Bodies) /\ ~buf.pill
      BY <1>7, PillOrFull DEF SendChunk, OutputInv, TypeOK
    <2>2. Len(dec2out') = Len(dec2out) + 1 /\ dec2out'[Len(dec2out')] = buf
      BY <1>1, <1>7, <2>1, AppendProperties DEF SendChunk
    <2>3. Load(dec2out') = Load(dec2out) + 1
      BY <2>1, <2>2 DEF Load, HasPill
    <2>4. InHand = 1 /\ InHand' = 0 /\ rpc # "exited" /\ UNCHANGED <<emitted, written, wret>>
      BY <1>7 DEF SendChunk, InHand, ExitInv, wvars
    <2>. QED BY <1>1, <1>2, <2>3, <2>4
  <1>8. CASE SendDecoderPill
    <2>1. Load(dec2out') = Load(dec2out)
      BY <1>1, <1>8, AppendPill DEF SendDecoderPill, OutputInv
    <2>2. UNCHANGED <<emitted, written, wret, InHand>> /\ rpc # "exited"
      BY <1>8 DEF SendDecoderPill, InHand, ExitInv, wvars
    <2>. QED BY <1>2, <2>1, <2>2
  <1>9. CASE RecvChunk
    <2>1. /\ wret = HGAP_SUCCESS /\ rpc # "exited" /\ UNCHANGED <<emitted, written, InHand>>
          /\ dec2out # <<>> /\ ~Head(dec2out).pill /\ dec2out' = Tail(dec2out)
      BY <1>9 DEF RecvChunk, WriterInv, ExitInv, InHand, dvars
    <2>2. Holds(dec2out, emitted, Len(written)) /\ Len(emitted) = Len(written) + Load(dec2out) + InHand
      BY <2>1 DEF OutputInv
    <2>3. Load(dec2out') = Load(dec2out) - 1
      BY <1>1, <2>1, <2>2, TailChunk
    <2>. QED BY <1>1, <2>1, <2>2, <2>3
  <1>10. CASE Flush
    BY <1>3, <1>10 DEF Flush, InHand, ExitInv, dvars
  <1>. QED BY <1>4, <1>5, <1>6, <1>7, <1>8, <1>9, <1>10
       DEF Next, DecoderStep, WriterStep, Stopped

-----------------------------------------------------------------------------
(* The pills and the END packet.                                           *)

\* An element enters chan_net2dec.
LEMMA NetAppend ==
    ASSUME TypeOK, NEW x \in Buffers(Packet), net2dec' = Append(net2dec, x)
    PROVE  /\ Len(net2dec) \in Nat /\ Len(net2dec') = Len(net2dec) + 1
           /\ net2dec'[Len(net2dec) + 1] = x
           /\ \A i \in 1 .. Len(net2dec) : net2dec'[i] = net2dec[i]
           /\ PillSent' <=> PillSent \/ x.pill
  <1>1. /\ Len(net2dec) \in Nat /\ Len(net2dec') = Len(net2dec) + 1
        /\ net2dec'[Len(net2dec) + 1] = x
        /\ \A i \in 1 .. Len(net2dec) : net2dec'[i] = net2dec[i]
    BY AppendProperties DEF TypeOK
  <1>2. \A i \in 1 .. Len(net2dec') : i \in 1 .. Len(net2dec) \/ i = Len(net2dec) + 1
    BY <1>1
  <1>3. 1 .. Len(net2dec) \subseteq 1 .. Len(net2dec') /\ Len(net2dec) + 1 \in 1 .. Len(net2dec')
    BY <1>1
  <1>4. PillSent' <=> PillSent \/ x.pill
    BY <1>1, <1>2, <1>3 DEF PillSent
  <1>. QED BY <1>1, <1>4

\* A packet leaves it: what is left has moved up by one place.
LEMMA NetTail ==
    ASSUME TypeOK, net2dec # <<>>, ~Head(net2dec).pill, net2dec' = Tail(net2dec)
    PROVE  /\ Len(net2dec) \in Nat \ {0} /\ Head(net2dec) = net2dec[1]
           /\ Len(net2dec') = Len(net2dec) - 1
           /\ \A i \in 1 .. Len(net2dec') : net2dec'[i] = net2dec[i + 1] /\ i + 1 \in 2 .. Len(net2dec)
           /\ PillSent' <=> PillSent
  <1>1. /\ Len(net2dec) \in Nat \ {0} /\ Head(net2dec) = net2dec[1]
        /\ Len(net2dec') = Len(net2dec) - 1
        /\ \A i \in 1 .. Len(net2dec) - 1 : net2dec'[i] = net2dec[i + 1]
    BY HeadTailProperties, EmptySeq DEF TypeOK
  <1>2. \A i \in 1 .. Len(net2dec') : net2dec'[i] = net2dec[i + 1] /\ i + 1 \in 2 .. Len(net2dec)
    BY <1>1
  <1>3. \A i \in 1 .. Len(net2dec) : i = 1 \/ (i - 1 \in 1 .. Len(net2dec') /\ i = (i - 1) + 1)
    BY <1>1
  <1>4. PillSent => PillSent'
    <2>. SUFFICES ASSUME NEW i \in 1 .. Len(net2dec), net2dec[i].pill PROVE PillSent'
      BY DEF PillSent
    <2>1. i # 1
      BY <1>1
    <2>2. i - 1 \in 1 .. Len(net2dec') /\ net2dec'[i - 1] = net2dec[(i - 1) + 1] /\ i = (i - 1) + 1
      BY <1>2, <1>3, <2>1
    <2>. QED BY <2>2 DEF PillSent
  <1>5. PillSent' => PillSent
    <2>. SUFFICES ASSUME NEW i \in 1 .. Len(net2dec'), net2dec'[i].pill PROVE PillSent
      BY DEF PillSent
    <2>1. i + 1 \in 1 .. Len(net2dec) /\ net2dec[i + 1].pill
      BY <1>1, <1>2
    <2>. QED BY <2>1 DEF PillSent
  <1>. QED BY <1>1, <1>2, <1>4, <1>5

\* A thread that ends leaves a pill or a poison, and the reader sleeps on a full channel.
LEMMA PillNext == CoreInv /\ PillInv /\ [Next]_vars => PillInv'
  <1>. SUFFICES ASSUME CoreInv, PillInv, [Next]_vars PROVE PillInv'
    OBVIOUS
  <1>. USE DEF CoreInv
  <1>0. UNCHANGED net2dec => (PillSent' <=> PillSent)
    BY DEF PillSent
  <1>1. CASE OpenSocket \/ RecvPacket \/ RecvFails
    BY <1>0, <1>1 DEF OpenSocket, RecvPacket, RecvFails, Close, PillInv, HasPill, dvars, wvars
  <1>2. CASE Reserve
    <2>1. Len(net2dec) >= NetCap => Len(net2dec) = NetCap
      BY ReceiverAssumption DEF TypeOK
    <2>. QED BY <1>0, <1>2, <2>1 DEF Reserve, Exit, PillInv, HasPill
  <1>3. CASE FallAsleep \/ SpuriousWakeup \/ JoinDecoder \/ JoinWriter \/ UNCHANGED vars
    BY <1>0, <1>3
    DEF FallAsleep, SpuriousWakeup, JoinDecoder, JoinWriter, vars, PillInv, HasPill, dvars, wvars
  <1>4. CASE SendReserved
    <2>1. CASE poisoned
      BY <1>0, <1>4, <2>1 DEF SendReserved, Close, PillInv, HasPill, dvars, wvars
    <2>2. CASE ~poisoned
      <3>1. slot \in Packet
        BY <1>4, StreamAssumption DEF SendReserved, ReaderInv, TypeOK
      <3>2. PillSent' <=> PillSent
        BY <1>4, <2>2, <3>1, NetAppend, PillOrFull DEF SendReserved
      <3>. QED BY <1>4, <2>2, <3>2 DEF SendReserved, PillInv, HasPill, dvars, wvars
    <2>. QED BY <2>1, <2>2
  <1>5. CASE SendPill
    <2>1. CASE poisoned
      BY <1>0, <1>5, <2>1 DEF SendPill, PillInv, HasPill, dvars, wvars
    <2>2. CASE ~poisoned
      <3>1. PillSent'
        BY <1>5, <2>2, NetAppend, PillOrFull DEF SendPill
      <3>. QED BY <1>5, <2>2, <3>1 DEF SendPill, PillInv, HasPill, dvars, wvars
    <2>. QED BY <2>1, <2>2
  <1>6. CASE PeekPill \/ HandleReturn \/ SendChunk
    BY <1>0, <1>6
    DEF PeekPill, HandleReturn, DecodeError, channel_poison, SendChunk, PillInv, HasPill, rvars, wvars
  <1>7. CASE ReadPacket
    <2>1. PillSent' <=> PillSent
      BY <1>7, NetTail DEF ReadPacket
    <2>2. rpc' \notin {"window", "asleep"}
      BY <1>7 DEF ReadPacket, PillInv
    <2>. QED BY <1>7, <2>1, <2>2 DEF ReadPacket, PillInv, HasPill, wvars
  <1>8. CASE SendDecoderPill
    <2>1. HasPill(dec2out')
      BY <1>8, AppendPill DEF SendDecoderPill, OutputInv, TypeOK
    <2>. QED BY <1>0, <1>8, <2>1 DEF SendDecoderPill, PillInv, HasPill, rvars, wvars
  <1>9. CASE RecvChunk
    <2>1. wpc' = "recv" => (HasPill(dec2out') <=> HasPill(dec2out))
      <3>. SUFFICES ASSUME wpc' = "recv" PROVE HasPill(dec2out') <=> HasPill(dec2out)
        OBVIOUS
      <3>1. ~Head(dec2out).pill /\ dec2out # <<>> /\ dec2out' = Tail(dec2out)
        BY <1>9 DEF RecvChunk
      <3>2. Holds(dec2out, emitted, Len(written)) /\ Len(written) \in Nat
        BY <1>9 DEF RecvChunk, OutputInv, WriterInv, ExitInv, TypeOK
      <3>. QED BY <3>1, <3>2, TailChunk DEF TypeOK
    <2>. QED BY <1>0, <1>9, <2>1 DEF RecvChunk, PillInv, rvars, dvars
  <1>10. CASE Flush
    BY <1>0, <1>10 DEF Flush, PillInv, HasPill, rvars, dvars
  <1>. QED BY <1>1, <1>2, <1>3, <1>4, <1>5, <1>6, <1>7, <1>8, <1>9, <1>10
       DEF Next, ReaderStep, DecoderStep, WriterStep, Stopped

\* Only an END packet stops the decoder.
LEMMA StoppedByEnd ==
    ASSUME NEW d, Consistent(d), NEW pkt \in Packet, NEW r \in hgap_decoder_read(d, pkt),
           r.dec.state = T_STOPPED
    PROVE  d.state = T_STOPPED \/ hgap_pkt_type(pkt) = "end"
  <1>. DEFINE u == hgap_decoder_update_state(d, pkt)
  <1>1. r.dec = u \/ (u.state = T_DATA /\ Consistent(u) /\ r \in ReadData(u, pkt))
    BY DecoderRead
  <1>2. u.state = T_STOPPED
    <2>. HIDE DEF u
    <2>1. CASE u.state = T_DATA /\ Consistent(u) /\ r \in ReadData(u, pkt)
      BY <2>1, DataRead, StateNumbers
    <2>. QED BY <1>1, <2>1
  <1>. QED BY <1>2, StateNumbers DEF hgap_decoder_update_state, Consistent, DecoderState

\* A packet that enters chan_net2dec is the last one if it is an END packet.
LEMMA SendReservedEnd ==
    ASSUME CoreInv, EndInv, SendReserved
    PROVE  EndInv'
  <1>. USE DEF CoreInv
  <1>1. ~closing /\ slot \in Packet
    BY StreamAssumption DEF SendReserved, ReaderInv, TypeOK
  <1>2. /\ \A i \in 1 .. Len(net2dec) :
              ~(~net2dec[i].pill /\ hgap_pkt_type(net2dec[i].data) = "end")
        /\ dec.state # T_STOPPED
    BY <1>1 DEF EndInv
  <1>3. UNCHANGED <<dec, dpc, dret, decret>> /\ (DecodingFailed' <=> DecodingFailed)
    BY DEF SendReserved, dvars, DecodingFailed
  <1>4. CASE poisoned
    BY <1>2, <1>3, <1>4 DEF SendReserved, Close, EndInv, PillSent
  <1>5. CASE ~poisoned
    <2>1. /\ Len(net2dec) \in Nat /\ Len(net2dec') = Len(net2dec) + 1
          /\ net2dec'[Len(net2dec) + 1] = Full(slot)
          /\ \A i \in 1 .. Len(net2dec) : net2dec'[i] = net2dec[i]
          /\ PillSent => PillSent'
      BY <1>1, <1>5, NetAppend, PillOrFull DEF SendReserved
    <2>2. Full(slot).data = slot /\ closing' = (hgap_pkt_type(slot) = "end")
      BY <1>5, PillOrFull DEF SendReserved
    <2>3. ASSUME NEW i \in 1 .. Len(net2dec'),
                 ~net2dec'[i].pill, hgap_pkt_type(net2dec'[i].data) = "end"
          PROVE  closing' /\ \A j \in i + 1 .. Len(net2dec') : net2dec'[j].pill
      <3>1. i = Len(net2dec) + 1
        BY <1>2, <2>1, <2>3
      <3>2. i + 1 .. Len(net2dec') = {}
        BY <2>1, <3>1
      <3>. QED BY <2>1, <2>2, <2>3, <3>1, <3>2
    <2>. QED BY <1>2, <1>3, <2>1, <2>3 DEF EndInv
  <1>. QED BY <1>4, <1>5

LEMMA SendPillEnd ==
    ASSUME CoreInv, EndInv, SendPill
    PROVE  EndInv'
  <1>. USE DEF CoreInv
  <1>1. UNCHANGED <<dec, dpc, dret, decret, closing>> /\ (DecodingFailed' <=> DecodingFailed)
    BY DEF SendPill, dvars, DecodingFailed
  <1>2. CASE poisoned
    BY <1>1, <1>2 DEF SendPill, EndInv, PillSent
  <1>3. CASE ~poisoned
    <2>1. /\ Len(net2dec) \in Nat /\ Len(net2dec') = Len(net2dec) + 1
          /\ net2dec'[Len(net2dec) + 1].pill
          /\ \A i \in 1 .. Len(net2dec) : net2dec'[i] = net2dec[i]
          /\ PillSent'
      BY <1>3, NetAppend, PillOrFull DEF SendPill
    <2>2. \A j \in 1 .. Len(net2dec') : j \in 1 .. Len(net2dec) \/ net2dec'[j].pill
      BY <2>1
    <2>3. ASSUME NEW i \in 1 .. Len(net2dec'),
                 ~net2dec'[i].pill, hgap_pkt_type(net2dec'[i].data) = "end"
          PROVE  closing' /\ \A j \in i + 1 .. Len(net2dec') : net2dec'[j].pill
      <3>1. i \in 1 .. Len(net2dec) /\ net2dec'[i] = net2dec[i]
        BY <2>1, <2>2, <2>3
      <3>2. closing /\ \A j \in i + 1 .. Len(net2dec) : net2dec[j].pill
        BY <2>3, <3>1 DEF EndInv
      <3>3. ASSUME NEW j \in i + 1 .. Len(net2dec') PROVE net2dec'[j].pill
        <4>1. CASE j = Len(net2dec) + 1
          BY <2>1, <4>1
        <4>2. CASE j # Len(net2dec) + 1
          <5>1. j \in i + 1 .. Len(net2dec) /\ j \in 1 .. Len(net2dec)
            BY <2>1, <3>1, <4>2
          <5>. QED BY <2>1, <3>2, <5>1
        <4>. QED BY <4>1, <4>2
      <3>. QED BY <1>1, <3>2, <3>3
    <2>4. dec.state = T_STOPPED => closing /\ \A j \in 1 .. Len(net2dec') : net2dec'[j].pill
      BY <2>1, <2>2 DEF EndInv
    <2>. QED BY <1>1, <2>1, <2>3, <2>4 DEF EndInv
  <1>. QED BY <1>2, <1>3

\* The decoder stops at the END packet, behind which there is only the pill.
LEMMA ReadPacketEnd ==
    ASSUME CoreInv, EndInv, ReadPacket
    PROVE  EndInv'
  <1>. USE DEF CoreInv
  <1>1. net2dec # <<>> /\ ~Head(net2dec).pill /\ net2dec' = Tail(net2dec)
        /\ UNCHANGED closing /\ dpc' = "handle"
    BY DEF ReadPacket
  <1>2. /\ Len(net2dec) \in Nat \ {0} /\ Head(net2dec) = net2dec[1]
        /\ Len(net2dec') = Len(net2dec) - 1
        /\ \A i \in 1 .. Len(net2dec') : net2dec'[i] = net2dec[i + 1] /\ i + 1 \in 2 .. Len(net2dec)
    BY <1>1, NetTail
  <1>3. Head(net2dec).data \in Packet
    BY <1>1, <1>2, BufferData DEF TypeOK
  <1>4. Consistent(dec)
    BY DEF Consistent, DecoderInv, TypeOK
  <1>5. PICK r \in hgap_decoder_read(dec, Head(net2dec).data) : dec' = r.dec
    BY DEF ReadPacket
  <1>6. dec.state # T_STOPPED
    BY <1>1, <1>2 DEF EndInv
  <1>7. dec'.state = T_STOPPED => hgap_pkt_type(net2dec[1].data) = "end"
    BY <1>2, <1>3, <1>4, <1>5, <1>6, StoppedByEnd
  <1>8. dec'.state = T_STOPPED => closing' /\ \A j \in 1 .. Len(net2dec') : net2dec'[j].pill
    <2>. SUFFICES ASSUME dec'.state = T_STOPPED
                  PROVE  closing /\ \A j \in 1 .. Len(net2dec') : net2dec'[j].pill
      BY <1>1
    <2>1. 1 \in 1 .. Len(net2dec)
      BY <1>2
    <2>2. closing /\ \A j \in 1 + 1 .. Len(net2dec) : net2dec[j].pill
      BY <1>1, <1>2, <1>7, <2>1 DEF EndInv
    <2>. QED BY <1>2, <2>2
  <1>9. ASSUME NEW i \in 1 .. Len(net2dec'),
               ~net2dec'[i].pill, hgap_pkt_type(net2dec'[i].data) = "end"
        PROVE  closing' /\ \A j \in i + 1 .. Len(net2dec') : net2dec'[j].pill
    <2>1. net2dec'[i] = net2dec[i + 1] /\ i + 1 \in 1 .. Len(net2dec)
      BY <1>2
    <2>2. closing /\ \A j \in (i + 1) + 1 .. Len(net2dec) : net2dec[j].pill
      BY <1>9, <2>1 DEF EndInv
    <2>3. ASSUME NEW j \in i + 1 .. Len(net2dec') PROVE net2dec'[j].pill
      <3>1. j \in 1 .. Len(net2dec') /\ j + 1 \in (i + 1) + 1 .. Len(net2dec)
        BY <1>2
      <3>. QED BY <1>2, <2>2, <3>1
    <2>. QED BY <1>1, <2>2, <2>3
  <1>. QED BY <1>1, <1>8, <1>9 DEF EndInv

LEMMA HandleReturnEnd ==
    ASSUME CoreInv, EndInv, HandleReturn
    PROVE  EndInv'
  <1>. USE DEF CoreInv
  <1>0. UNCHANGED <<net2dec, closing, decret>> /\ (PillSent' <=> PillSent)
    BY DEF HandleReturn, PillSent
  <1>1. Consistent(dec) /\ decret \in Int
    BY DEF Consistent, DecoderInv, TypeOK
  <1>2. dec'.state = dec.state
    <2>1. CASE UNCHANGED dec
      BY <2>1
    <2>2. CASE \E e \in hgap_decoder_emit(dec, decret) : dec' = e.dec
      <3>1. PICK e \in hgap_decoder_emit(dec, decret) : dec' = e.dec
        BY <2>2
      <3>2. e.dec = dec \/ e.dec = [dec EXCEPT !.chunk_emitted = TRUE]
        BY <1>1, DecoderEmit
      <3>3. [dec EXCEPT !.chunk_emitted = TRUE].state = dec.state
        BY <1>1 DEF Consistent, DecoderState
      <3>. QED BY <3>1, <3>2, <3>3, Zenon
    <2>. QED BY <2>1, <2>2, Zenon DEF HandleReturn
  <1>3. dpc' \in {"finish", "done"} /\ ~DecodingFailed' => dec'.state = T_STOPPED
    <2>1. CASE dpc' \in {"peek", "send"}
      BY <2>1
    <2>2. CASE decret = -HGAP_EOT
      BY <1>0, <2>2 DEF DecodingFailed, HGAP_EOT
    <2>3. CASE decret < 0 /\ decret # -HGAP_EOT /\ DecodeError(-decret)
      BY <1>1, <2>3 DEF DecodeError, DecodingFailed, HGAP_SUCCESS
    <2>4. CASE \E e \in hgap_decoder_emit(dec, decret) : e.ret # HGAP_SUCCESS /\ DecodeError(e.ret)
      BY <2>4 DEF DecodeError, DecodingFailed
    <2>. QED BY <2>1, <2>2, <2>3, <2>4 DEF HandleReturn
  <1>. QED BY <1>0, <1>2, <1>3 DEF EndInv

LEMMA EndNext == CoreInv /\ PillInv /\ EndInv /\ [Next]_vars => EndInv'
  <1>. SUFFICES ASSUME CoreInv, PillInv, EndInv, [Next]_vars PROVE EndInv'
    OBVIOUS
  <1>0. UNCHANGED net2dec => (PillSent' <=> PillSent)
    BY DEF PillSent
  <1>1. CASE OpenSocket \/ RecvPacket \/ RecvFails
    BY <1>0, <1>1
    DEF OpenSocket, RecvPacket, RecvFails, Close, EndInv, DecodingFailed, dvars
  <1>2. CASE Reserve
    BY <1>0, <1>2 DEF Reserve, Exit, EndInv, DecodingFailed
  <1>3. CASE FallAsleep \/ SpuriousWakeup \/ JoinDecoder \/ JoinWriter \/ UNCHANGED vars
    BY <1>0, <1>3
    DEF FallAsleep, SpuriousWakeup, JoinDecoder, JoinWriter, vars, EndInv, DecodingFailed, dvars
  <1>4. CASE PeekPill
    <2>1. PillSent
      <3>1. Head(net2dec) = net2dec[1] /\ 1 \in 1 .. Len(net2dec)
        BY <1>4, EmptySeq DEF PeekPill, CoreInv, TypeOK
      <3>. QED BY <1>4, <3>1 DEF PeekPill, PillSent
    <2>. QED BY <1>0, <1>4, <2>1 DEF PeekPill, EndInv, rvars
  <1>5. CASE SendChunk \/ SendDecoderPill
    BY <1>0, <1>5 DEF SendChunk, SendDecoderPill, EndInv, DecodingFailed, rvars
  <1>6. CASE RecvChunk \/ Flush
    BY <1>0, <1>6 DEF RecvChunk, Flush, EndInv, DecodingFailed, rvars, dvars
  <1>. QED BY <1>1, <1>2, <1>3, <1>4, <1>5, <1>6,
              SendReservedEnd, SendPillEnd, ReadPacketEnd, HandleReturnEnd
       DEF Next, ReaderStep, DecoderStep, WriterStep, Stopped

LEMMA InitInv == Init => ReceiverInv
  <1>. SUFFICES ASSUME Init PROVE ReceiverInv
    OBVIOUS
  <1>1. 1 .. Len(net2dec) = {}
    BY DEF Init
  <1>2. PillInv
    BY <1>1 DEF Init, PillInv, PillSent
  <1>3. EndInv
    BY <1>1 DEF Init, EndInv, hgap_decoder_new, T_NEW, T_STOPPED
  <1>4. LostInv
    BY DEF Init, LostInv
  <1>. QED BY <1>2, <1>3, <1>4, CoreInit DEF ReceiverInv, CoreInv

LEMMA NextInv == ReceiverInv /\ [Next]_vars => ReceiverInv'
  <1>1. ReceiverInv <=> CoreInv /\ LostInv /\ PillInv /\ EndInv
    BY DEF ReceiverInv, CoreInv
  <1>2. ReceiverInv' <=> CoreInv' /\ LostInv' /\ PillInv' /\ EndInv'
    BY DEF ReceiverInv, CoreInv
  <1>. QED BY <1>1, <1>2, CoreNext, LostNext, PillNext, EndNext

-----------------------------------------------------------------------------
(* The theorems.                                                           *)

\* The threads of hgap_receive keep ReceiverInv, whatever is lost and fails.
THEOREM ReceiverCorrect == Spec => []ReceiverInv
  BY InitInv, NextInv, PTL DEF Spec

\* The state of the threads and channels of hgap_receive keeps its type.
THEOREM ReceiverTyped == Spec => []TypeOK
  <1>1. ReceiverInv => TypeOK
    BY DEF ReceiverInv
  <1>. QED BY <1>1, ReceiverCorrect, PTL

\* Every chunk decloop emits is given to write, in order, and if there is no write error
\* that holds of all of them, and fsync was called, when hgap_receive returns.
THEOREM EmittedIsWritten == Spec => []AllEmittedWritten
  <1>1. ReceiverInv => AllEmittedWritten
    <2>. SUFFICES ASSUME ReceiverInv PROVE AllEmittedWritten
      OBVIOUS
    <2>. USE DEF ReceiverInv
    <2>1. /\ written \in Seq(Bodies) /\ emitted \in Seq(Bodies) /\ Len(written) \in Nat
          /\ Len(emitted) \in Nat /\ Len(written) <= Len(emitted)
          /\ \A i \in 1 .. Len(written) : written[i] = emitted[i]
      BY DEF TypeOK, OutputInv
    <2>2. IsPrefix(written, emitted)
      BY <2>1 DEF IsPrefix
    <2>3. Returned /\ wret = HGAP_SUCCESS => written = emitted /\ flushed
      <3>. SUFFICES ASSUME Returned, wret = HGAP_SUCCESS PROVE written = emitted /\ flushed
        OBVIOUS
      <3>1. dec2out = <<>> /\ dpc = "done" /\ flushed
        BY DEF Returned, ReaderInv, WriterInv
      <3>2. Len(emitted) = Len(written) + Load(dec2out) + 0
        BY <3>1 DEF Returned, OutputInv, InHand
      <3>3. Len(emitted) = Len(written)
        BY <2>1, <3>1, <3>2, EmptyHolds
      <3>. QED BY <2>1, <3>1, <3>3, SeqEqual
    <2>. QED BY <2>2, <2>3 DEF AllEmittedWritten
  <1>. QED BY <1>1, ReceiverCorrect, PTL

\* hgap_receive returns HGAP_SUCCESS only after an END packet, with all its chunks
\* complete and written.
THEOREM SuccessOnlyAfterEnd == Spec => []SuccessNeedsEnd
  <1>1. ReceiverInv /\ AllEmittedWritten => SuccessNeedsEnd
    BY DEF ReceiverInv, AllEmittedWritten, SuccessNeedsEnd, Returned, ReaderInv, DecoderInv
  <1>. QED BY <1>1, ReceiverCorrect, EmittedIsWritten, PTL

\* If the three threads of hgap_receive all wait for each other, decloop or writer has
\* met an error: a thread that ends without one has sent a pill, which the next thread
\* finds, and behind the END packet the reader has no more packets to make room for.
THEOREM ReceiverDeadlockFree == Spec => []NoDeadlock
  <1>1. ReceiverInv => NoDeadlock
    <2>. SUFFICES ASSUME ReceiverInv, AllWait PROVE Jammed
      BY DEF NoDeadlock
    <2>. USE DEF ReceiverInv
    <2>1. NetCap > 0 /\ OutCap > 0 /\ Len(<<>>) = 0 /\ ~HasPill(<<>>)
      BY ReceiverAssumption, EmptyHolds
    <2>2. CASE dpc \in {"send", "finish"} /\ Len(dec2out) = OutCap
      <3>1. dec2out # <<>>
        BY <2>1, <2>2, ReceiverAssumption
      <3>2. wpc = "done" /\ wret # HGAP_SUCCESS
        BY <2>2, <3>1 DEF AllWait, WriterInv
      <3>. QED BY <2>2, <3>2 DEF Jammed
    <2>3. CASE rpc = "asleep" /\ (dpc = "done" \/ (dpc = "peek" /\ net2dec = <<>>))
      <3>1. Len(net2dec) = NetCap /\ ~PillSent
        BY <2>3 DEF PillInv
      <3>2. dpc = "done" /\ 1 \in 1 .. Len(net2dec)
        BY <2>1, <2>3, <3>1, ReceiverAssumption
      <3>3. ~net2dec[1].pill
        BY <3>1, <3>2 DEF PillSent
      <3>4. DecodingFailed
        BY <3>1, <3>2, <3>3 DEF EndInv
      <3>. QED BY <2>3, <3>2, <3>4 DEF Jammed
    <2>4. CASE rpc = "join_dec" /\ dpc = "peek" /\ net2dec = <<>>
      BY <2>4 DEF PillInv, PillSent
    <2>5. CASE rpc = "join_wr" /\ wpc # "done" /\ (dpc = "done" \/ dpc = "peek")
      <3>1. dpc = "done" /\ wpc = "recv" /\ dec2out = <<>>
        BY <2>5 DEF ReaderInv, AllWait
      <3>. QED BY <2>1, <3>1 DEF PillInv
    <2>. QED BY <2>2, <2>3, <2>4, <2>5 DEF AllWait
  <1>. QED BY <1>1, ReceiverCorrect, PTL

-----------------------------------------------------------------------------
(* What is decoded and written implements BoundedFifo.                     *)

\* At most the channel, one chunk with decloop and one with writer are in memory.
LEMMA UnderWay ==
    ASSUME ReceiverInv, rpc # "exited"
    PROVE  Len(emitted) - Len(written) <= OutCap + InHand + 1
  <1>. USE DEF ReceiverInv
  <1>1. /\ Len(emitted) \in Nat /\ Len(written) \in Nat /\ Load(dec2out) \in Nat /\ InHand \in Nat
        /\ Load(dec2out) <= Len(dec2out) /\ Len(dec2out) \in Nat /\ Len(dec2out) <= OutCap
        /\ OutCap \in Nat
    BY LoadBounds, ReceiverAssumption DEF TypeOK, InHand
  <1>2. CASE wret = HGAP_SUCCESS
    <2>1. Len(emitted) = Len(written) + Load(dec2out) + InHand
      BY <1>2 DEF OutputInv
    <2>. QED BY <1>1, <2>1
  <1>3. CASE wret # HGAP_SUCCESS
    <2>1. Len(emitted) = Len(written) + Load(dec2out) + InHand + 1
      BY <1>3 DEF LostInv
    <2>. QED BY <1>1, <2>1
  <1>. QED BY <1>2, <1>3

\* A chunk decloop emits is the Send of BoundedFifo.
LEMMA HandleReturnSends ==
    ASSUME ReceiverInv, HandleReturn
    PROVE  (\E v \in Bodies : Output!Send(v)) \/ UNCHANGED <<emitted, written>>
  <1>. USE DEF ReceiverInv
  <1>. SUFFICES ASSUME emitted' # emitted
                PROVE  \E v \in Bodies : Output!Send(v)
    BY DEF HandleReturn, wvars
  <1>1. PICK e \in hgap_decoder_emit(dec, decret) : emitted' = Append(emitted, e.out)
    BY DEF HandleReturn
  <1>2. Consistent(dec) /\ decret \in Int
    BY DEF Consistent, DecoderInv, TypeOK
  <1>3. e.out \in Bodies
    BY <1>2, DecoderEmit
  <1>4. written' = written /\ InHand = 0 /\ rpc # "exited"
    BY DEF HandleReturn, InHand, ExitInv, wvars
  <1>5. Len(emitted) - Len(written) < OutCap + 2
    <2>1. Len(emitted) \in Nat /\ Len(written) \in Nat /\ OutCap \in Nat
      BY ReceiverAssumption DEF TypeOK
    <2>. QED BY <1>4, <2>1, UnderWay
  <1>. QED BY <1>1, <1>3, <1>4, <1>5 DEF Output!Send, Output!Permitted

\* A chunk writer writes is the Receive of BoundedFifo.
LEMMA RecvChunkReceives ==
    ASSUME ReceiverInv, RecvChunk
    PROVE  Output!Receive \/ UNCHANGED <<emitted, written>>
  <1>. USE DEF ReceiverInv
  <1>. SUFFICES ASSUME written' # written
                PROVE  Output!Receive
    BY DEF RecvChunk
  <1>1. /\ dec2out # <<>> /\ ~Head(dec2out).pill /\ emitted' = emitted
        /\ written' = Append(written, Head(dec2out).data)
    BY DEF RecvChunk
  <1>2. /\ Holds(dec2out, emitted, Len(written))
        /\ Len(emitted) = Len(written) + Load(dec2out) + InHand
    BY DEF RecvChunk, OutputInv, WriterInv, ExitInv
  <1>3. /\ dec2out \in Seq(Buffers(Bodies)) /\ Len(written) \in Nat /\ Load(dec2out) \in Nat
        /\ InHand \in Nat
    BY LoadBounds DEF TypeOK, InHand
  <1>4. Head(dec2out).data = emitted[Len(written) + 1] /\ Load(dec2out) > 0
    BY <1>1, <1>2, <1>3, TailChunk
  <1>5. Len(written) < Len(emitted)
    BY <1>2, <1>3, <1>4
  <1>. QED BY <1>1, <1>4, <1>5 DEF Output!Receive, Output!Permitted

\* From decloop to the file, chan_dec2out and the two threads at its ends are what one
\* channel of two more elements is: whatever is received, lost or fails, the file only
\* ever grows by the next chunk decoded, and the memory in use is bounded.
THEOREM OutputImplementsFifo == Spec => OutputSpec
  <1>1. Init => Output!Init
    BY DEF Init, Output!Init
  <1>2. ReceiverInv /\ [Next]_vars => [Output!Next]_Output!fifoVars
    <2>. SUFFICES ASSUME ReceiverInv, [Next]_vars
                  PROVE  Output!Next \/ UNCHANGED <<emitted, written>>
      BY DEF Output!fifoVars
    <2>1. CASE HandleReturn
      BY <2>1, HandleReturnSends DEF Output!Next
    <2>2. CASE RecvChunk
      BY <2>2, RecvChunkReceives DEF Output!Next
    <2>3. CASE OpenSocket \/ Reserve \/ FallAsleep \/ SpuriousWakeup \/ RecvPacket \/ RecvFails
      BY <2>3 DEF OpenSocket, Reserve, FallAsleep, SpuriousWakeup, RecvPacket, RecvFails, wvars
    <2>4. CASE SendReserved \/ SendPill \/ JoinDecoder \/ JoinWriter \/ UNCHANGED vars
      BY <2>4 DEF SendReserved, SendPill, JoinDecoder, JoinWriter, vars, wvars
    <2>5. CASE PeekPill \/ ReadPacket \/ SendChunk \/ SendDecoderPill \/ Flush
      BY <2>5 DEF PeekPill, ReadPacket, SendChunk, SendDecoderPill, Flush, wvars
    <2>. QED BY <2>1, <2>2, <2>3, <2>4, <2>5
         DEF Next, ReaderStep, DecoderStep, WriterStep, Stopped
  <1>. QED BY <1>1, <1>2, ReceiverCorrect, PTL DEF Spec, OutputSpec, Output!Spec

=============================================================================
