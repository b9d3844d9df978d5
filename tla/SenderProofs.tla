----------------------------- MODULE SenderProofs -----------------------------
(***************************************************************************)
(* Proofs about Sender, for any number of chunks, any capacities of the    *)
(* channels, and whatever may fail: SenderInv is inductive, success means  *)
(* that everything was sent, freed memory is not used, and the path from   *)
(* the file to the wire implements BoundedFifo.                            *)
(***************************************************************************)
EXTENDS Sender, SequenceTheorems, TLAPS

Elements == Chunks \union {Pill}

\* A chunk is not the pill.
LEMMA ChunkIsNoPill == Pill \notin Chunks /\ Chunks \subseteq Nat
  BY SenderAssumption, PillAssumption DEF Pill, Chunks

-----------------------------------------------------------------------------
(* Channels in order.                                                      *)

LEMMA EmptyInOrder ==
    ASSUME NEW n \in Nat
    PROVE  InOrder(<<>>, n) /\ Load(<<>>) = 0 /\ ~HasPill(<<>>)
  BY DEF InOrder, Load, HasPill

LEMMA LoadBounds ==
    ASSUME NEW q \in Seq(Elements)
    PROVE  Load(q) \in Nat /\ Load(q) <= Len(q) /\ Len(q) \in Nat
  BY DEF Load, HasPill

\* The next chunk enters a channel.
LEMMA AppendChunk ==
    ASSUME NEW q \in Seq(Elements), NEW n \in Nat, InOrder(q, n), ~HasPill(q),
           n + Len(q) \in Chunks
    PROVE  LET r == Append(q, n + Len(q)) IN
           /\ r \in Seq(Elements) /\ InOrder(r, n)
           /\ ~HasPill(r) /\ Load(r) = Load(q) + 1 /\ Len(r) = Len(q) + 1
  <1>. DEFINE r == Append(q, n + Len(q))
  <1>1. r \in Seq(Elements) /\ Len(r) = Len(q) + 1 /\ r[Len(r)] = n + Len(q)
    BY DEF Elements
  <1>2. ~HasPill(r) /\ Load(r) = Len(r) /\ Load(q) = Len(q)
    BY <1>1, ChunkIsNoPill DEF HasPill, Load
  <1>3. \A i \in 1 .. Len(r) : r[i] = n + i - 1
    BY <1>1, <1>2 DEF InOrder
  <1>. QED BY <1>1, <1>2, <1>3 DEF InOrder

\* A pill enters a channel.
LEMMA AppendPill ==
    ASSUME NEW q \in Seq(Elements), NEW n \in Nat, InOrder(q, n), ~HasPill(q)
    PROVE  LET r == Append(q, Pill) IN
           /\ r \in Seq(Elements) /\ InOrder(r, n)
           /\ HasPill(r) /\ Load(r) = Load(q) /\ Len(r) = Len(q) + 1
  <1>. DEFINE r == Append(q, Pill)
  <1>1. r \in Seq(Elements) /\ Len(r) = Len(q) + 1 /\ r[Len(r)] = Pill /\ r # <<>>
    BY DEF Elements
  <1>2. HasPill(r) /\ Load(r) = Len(q) /\ Load(q) = Len(q)
    BY <1>1 DEF HasPill, Load
  <1>3. \A i \in 1 .. Len(r) : r[i] = IF i <= Len(q) THEN n + i - 1 ELSE Pill
    BY <1>1, <1>2 DEF InOrder
  <1>. QED BY <1>1, <1>2, <1>3 DEF InOrder

\* The first chunk of a channel leaves it.
LEMMA TailChunk ==
    ASSUME NEW q \in Seq(Elements), NEW n \in Nat, InOrder(q, n), q # <<>>, Head(q) # Pill
    PROVE  /\ Head(q) = n /\ n \in Chunks
           /\ Tail(q) \in Seq(Elements) /\ Len(Tail(q)) = Len(q) - 1
           /\ InOrder(Tail(q), n + 1) /\ Load(q) > 0 /\ Load(Tail(q)) = Load(q) - 1
           /\ HasPill(Tail(q)) <=> HasPill(q)
  <1>. DEFINE t == Tail(q)
  <1>1. Len(q) \in Nat /\ Len(q) > 0 /\ Head(q) = q[1] /\ q[1] \in Elements
    BY EmptySeq
  <1>2. Load(q) > 0 /\ q[1] = n
    BY <1>1 DEF InOrder, Load, HasPill
  <1>3. n \in Chunks
    BY <1>1, <1>2 DEF Elements
  <1>4. /\ t \in Seq(Elements) /\ Len(t) = Len(q) - 1
        /\ \A i \in 1 .. Len(q) - 1 : t[i] = q[i + 1]
    BY HeadTailProperties
  <1>. HIDE DEF t
  <1>5. HasPill(t) <=> HasPill(q)
    <2>1. CASE Len(q) = 1
      <3>1. t = <<>>
        BY <2>1, <1>4, EmptySeq
      <3>. QED BY <3>1, <2>1, <1>1 DEF HasPill
    <2>2. CASE Len(q) # 1
      <3>1. t # <<>> /\ t[Len(t)] = q[Len(q)]
        BY <2>2, <1>1, <1>4, EmptySeq
      <3>. QED BY <3>1 DEF HasPill
    <2>. QED BY <2>1, <2>2
  <1>6. Load(t) = Load(q) - 1
    BY <1>1, <1>4, <1>5 DEF Load
  <1>7. InOrder(t, n + 1)
    <2>. SUFFICES ASSUME NEW i \in 1 .. Len(t)
                  PROVE  t[i] = IF i <= Load(t) THEN n + 1 + i - 1 ELSE Pill
      BY DEF InOrder
    <2>1. t[i] = q[i + 1] /\ i + 1 \in 1 .. Len(q)
      BY <1>1, <1>4
    <2>. QED BY <2>1, <1>1, <1>6, LoadBounds DEF InOrder
  <1>. QED BY <1>1, <1>2, <1>3, <1>4, <1>5, <1>6, <1>7 DEF t

\* A channel whose first element is the pill holds nothing else.
LEMMA HeadPill ==
    ASSUME NEW q \in Seq(Elements), NEW n \in Nat, InOrder(q, n), q # <<>>, Head(q) = Pill
    PROVE  HasPill(q) /\ Len(q) = 1 /\ Load(q) = 0 /\ Tail(q) = <<>>
  <1>1. Len(q) \in Nat /\ Len(q) > 0 /\ q[1] = Pill
    BY EmptySeq
  <1>2. ~(1 <= Load(q))
    BY <1>1, PillAssumption DEF InOrder, Pill
  <1>3. HasPill(q)
    BY <1>1, <1>2 DEF Load
  <1>4. Load(q) = Len(q) - 1
    BY <1>3 DEF Load
  <1>5. PICK l \in Nat : l = Len(q) /\ l > 0 /\ ~(1 <= l - 1)
    BY <1>1, <1>2, <1>4
  <1>6. Len(q) = 1 /\ Load(q) = 0
    BY <1>4, <1>5
  <1>7. Tail(q) \in Seq(Elements) /\ Len(Tail(q)) = 0
    BY <1>6, HeadTailProperties
  <1>8. Tail(q) = <<>>
    BY <1>7, EmptySeq
  <1>. QED BY <1>3, <1>6, <1>8

-----------------------------------------------------------------------------
(* The invariant.                                                          *)

\* The invariant but for the pills, which need it.
CoreInv == TypeOK /\ PipeInv /\ ReadInv /\ EncodeInv /\ SendInv /\ KeepaliveInv

LEMMA CoreInit == Init => CoreInv
  <1>. SUFFICES ASSUME Init PROVE CoreInv
    OBVIOUS
  <1>1. TypeOK
    <2>1. <<>> \in Seq(Chunks \union {Pill}) /\ <<>> \in Seq(Chunks) /\ Len(<<>>) = 0
      BY EmptySeq
    <2>2. 0 \in 0 .. HGAP_SALVE_LEN + PktsPerChunk /\ 0 \in 0 .. InputChunks
          /\ 0 \in 0 .. HGAP_SALVE_LEN /\ 0 <= InCap /\ 0 <= NetCap /\ 0 \in 0 .. 1
      BY SenderAssumption
    <2>. QED BY <2>1, <2>2 DEF Init, TypeOK, Labels, HGAP_SUCCESS
  <1>2. PipeInv
    BY EmptyInOrder DEF Init, PipeInv, Acked
  <1>3. ReadInv /\ EncodeInv /\ SendInv /\ KeepaliveInv
    BY SenderAssumption, EmptyInOrder
    DEF Init, ReadInv, EncodeInv, SendInv, KeepaliveInv, HGAP_SUCCESS
  <1>. QED BY <1>1, <1>2, <1>3 DEF CoreInv

\* A step that moves no chunk.
LEMMA PipeUnchanged ==
    ASSUME PipeInv, UNCHANGED <<in2enc, enc2net, held, file, wire>>
    PROVE  PipeInv'
  BY DEF PipeInv, Acked, InOrder, Load, HasPill

\* The channels hold what the lemmas about them are about.
LEMMA ChannelTypes ==
    ASSUME TypeOK
    PROVE  /\ in2enc \in Seq(Elements) /\ enc2net \in Seq(Elements) /\ wire \in Seq(Chunks)
           /\ Len(in2enc) \in Nat /\ Len(enc2net) \in Nat /\ Len(wire) \in Nat
           /\ Load(in2enc) \in Nat /\ Load(enc2net) \in Nat /\ file \in Nat
           /\ Acked \in Int /\ (PipeInv => Acked \in Nat)
  BY LoadBounds DEF TypeOK, Elements, PipeInv, Acked

\* The encoder does not notice that an element is added behind its back: the first
\* element stays, and a channel without a pill does not begin with one.
LEMMA HeadUnchanged ==
    ASSUME TypeOK, PipeInv, NEW x, in2enc # <<>>
    PROVE  /\ Append(in2enc, x) # <<>> /\ Head(Append(in2enc, x)) = Head(in2enc)
           /\ ~HasPill(in2enc) => Head(in2enc) # Pill
  <1>1. Append(in2enc, x) # <<>> /\ Head(Append(in2enc, x)) = Head(in2enc)
    BY ChannelTypes, HeadTailAppend
  <1>2. ~HasPill(in2enc) => Head(in2enc) # Pill
    BY ChannelTypes, HeadPill DEF PipeInv
  <1>. QED BY <1>1, <1>2

LEMMA ReadChunkInv ==
    ASSUME CoreInv, ReadChunk
    PROVE  CoreInv'
  <1>. USE DEF CoreInv
  <1>. DEFINE n == Acked
  <1>1. rpc = "read" /\ ~HasPill(in2enc) /\ file < InputChunks /\ Len(in2enc) < InCap
    BY DEF ReadChunk, ReadInv
  <1>2. n \in Nat /\ n + Len(in2enc) = file /\ file \in Chunks
    BY <1>1, ChannelTypes, SenderAssumption DEF PipeInv, Load, Chunks, TypeOK
  <1>3. CASE in2enc' = Append(in2enc, file) /\ file' = file + 1 /\ UNCHANGED rret
             /\ rpc' = IF file' = InputChunks THEN "pill" ELSE "read"
    <2>1. /\ in2enc' \in Seq(Elements) /\ InOrder(in2enc', n) /\ ~HasPill(in2enc')
          /\ Load(in2enc') = Load(in2enc) + 1 /\ Len(in2enc') = Len(in2enc) + 1
      BY <1>1, <1>2, <1>3, AppendChunk, ChannelTypes DEF PipeInv
    <2>2. TypeOK'
      BY <1>1, <1>3, <2>1, ChannelTypes, SenderAssumption DEF TypeOK, ReadChunk, Elements, svars, kvars
    <2>3. PipeInv'
      <3>1. Acked' = n
        BY DEF ReadChunk, Acked, Load, HasPill
      <3>2. file' = n + Load(in2enc')
        BY <1>2, <1>3, <2>1, ChannelTypes DEF PipeInv
      <3>. QED BY <1>3, <2>1, <3>1, <3>2 DEF PipeInv, ReadChunk
    <2>4. ReadInv' /\ SendInv' /\ KeepaliveInv'
      BY <1>1, <1>3, <2>1, SenderAssumption
      DEF ReadInv, SendInv, KeepaliveInv, TypeOK, ReadChunk, svars, kvars
    <2>5. EncodeInv'
      BY <1>1, <1>3, HeadUnchanged DEF EncodeInv, PipeInv, ReadChunk
    <2>. QED BY <2>2, <2>3, <2>4, <2>5
  <1>4. CASE /\ rret' = HGAP_ERR_FILE_READ /\ rpc' = "pill"
             /\ UNCHANGED <<in2enc, file>>
    <2>1. PipeInv'
      BY <1>4, PipeUnchanged DEF ReadChunk
    <2>2. TypeOK' /\ ReadInv' /\ EncodeInv' /\ SendInv' /\ KeepaliveInv'
      BY <1>1, <1>4
      DEF ReadInv, EncodeInv, SendInv, KeepaliveInv, TypeOK, ReadChunk, svars, kvars,
          HGAP_ERR_FILE_READ, HGAP_SUCCESS
    <2>. QED BY <2>1, <2>2
  <1>. QED BY <1>3, <1>4 DEF ReadChunk

LEMMA ReadPillInv ==
    ASSUME CoreInv, ReadPill
    PROVE  CoreInv'
  <1>. USE DEF CoreInv
  <1>. DEFINE n == Acked
  <1>1. n \in Nat /\ ~HasPill(in2enc) /\ InOrder(in2enc, n)
    BY ChannelTypes DEF ReadPill, ReadInv, PipeInv
  <1>2. /\ in2enc' \in Seq(Elements) /\ InOrder(in2enc', n) /\ HasPill(in2enc')
        /\ Load(in2enc') = Load(in2enc) /\ Len(in2enc') = Len(in2enc) + 1
    BY <1>1, AppendPill, ChannelTypes DEF ReadPill
  <1>3. TypeOK'
    BY <1>2, ChannelTypes, SenderAssumption DEF TypeOK, ReadPill, Elements, svars, kvars
  <1>4. PipeInv'
    <2>1. Acked' = n
      BY DEF ReadPill, Acked, Load, HasPill
    <2>. QED BY <1>2, <2>1 DEF PipeInv, ReadPill
  <1>5. ReadInv' /\ SendInv' /\ KeepaliveInv'
    BY DEF ReadInv, SendInv, KeepaliveInv, ReadPill, svars, kvars
  <1>6. EncodeInv'
    BY <1>1, HeadUnchanged DEF EncodeInv, ReadPill
  <1>. QED BY <1>3, <1>4, <1>5, <1>6

LEMMA EncodeChunkInv ==
    ASSUME CoreInv, EncodeChunk
    PROVE  CoreInv'
  <1>. USE DEF CoreInv
  <1>1. PipeInv'
    BY PipeUnchanged DEF EncodeChunk
  <1>2. TypeOK' /\ ReadInv' /\ SendInv' /\ KeepaliveInv'
    BY DEF TypeOK, ReadInv, SendInv, KeepaliveInv, EncodeChunk, svars, kvars,
           HGAP_ERR_WIREHAIR_ERROR
  <1>3. EncodeInv'
    BY DEF EncodeInv, EncodeChunk, HGAP_SUCCESS, HGAP_ERR_WIREHAIR_ERROR
  <1>. QED BY <1>1, <1>2, <1>3

\* A chunk goes on to the other channel, and stays in this one.
LEMMA SendEncodedInv ==
    ASSUME CoreInv, SendEncoded
    PROVE  CoreInv'
  <1>. USE DEF CoreInv
  <1>. DEFINE m == Len(wire)
              n == Len(wire) + Load(enc2net)
  <1>1. /\ m \in Nat /\ n \in Nat /\ ~HasPill(enc2net) /\ held = 0 /\ Acked = n
        /\ InOrder(enc2net, m) /\ InOrder(in2enc, n) /\ in2enc # <<>> /\ Head(in2enc) # Pill
    BY ChannelTypes DEF SendEncoded, EncodeInv, PipeInv, Acked
  <1>2. Head(in2enc) = n /\ n \in Chunks
    BY <1>1, TailChunk, ChannelTypes
  <1>3. n = m + Len(enc2net)
    BY <1>1 DEF Load
  <1>4. /\ enc2net' \in Seq(Elements) /\ InOrder(enc2net', m) /\ ~HasPill(enc2net')
        /\ Load(enc2net') = Load(enc2net) + 1 /\ Len(enc2net') = Len(enc2net) + 1
    BY <1>1, <1>2, <1>3, AppendChunk, ChannelTypes DEF SendEncoded
  <1>5. TypeOK'
    BY <1>4, ChannelTypes, SenderAssumption DEF TypeOK, SendEncoded, Elements, svars, kvars
  <1>6. PipeInv'
    <2>1. Acked' = n
      BY <1>1, <1>4, ChannelTypes DEF Acked, SendEncoded, Load, HasPill
    <2>. QED BY <1>1, <1>4, <2>1 DEF PipeInv, SendEncoded
  <1>7. ReadInv' /\ SendInv' /\ KeepaliveInv'
    BY DEF ReadInv, SendInv, KeepaliveInv, SendEncoded, svars, kvars
  <1>8. EncodeInv'
    BY <1>4 DEF EncodeInv, SendEncoded
  <1>. QED BY <1>5, <1>6, <1>7, <1>8

\* Its buffer is given back.
LEMMA AckEncodedInv ==
    ASSUME CoreInv, AckEncoded
    PROVE  CoreInv'
  <1>. USE DEF CoreInv
  <1>. DEFINE n == Acked
  <1>1. /\ n \in Nat /\ held = 1 /\ InOrder(in2enc, n) /\ in2enc # <<>> /\ Head(in2enc) # Pill
    BY ChannelTypes DEF AckEncoded, EncodeInv, PipeInv, Acked
  <1>2. /\ in2enc' \in Seq(Elements) /\ Len(in2enc') = Len(in2enc) - 1
        /\ InOrder(in2enc', n + 1) /\ Load(in2enc') = Load(in2enc) - 1
        /\ HasPill(in2enc') <=> HasPill(in2enc)
    <2>. HIDE DEF n
    <2>. QED BY <1>1, TailChunk, ChannelTypes DEF AckEncoded
  <1>3. TypeOK'
    BY <1>2, ChannelTypes, SenderAssumption DEF TypeOK, AckEncoded, Elements, svars, kvars
  <1>4. PipeInv'
    <2>1. Acked' = n + 1
      BY <1>1, ChannelTypes DEF Acked, AckEncoded, Load, HasPill
    <2>2. file' = Acked' + Load(in2enc')
      BY <1>1, <1>2, <2>1, ChannelTypes DEF PipeInv, AckEncoded
    <2>. QED BY <1>1, <1>2, <2>1, <2>2 DEF PipeInv, AckEncoded
  <1>5. ReadInv' /\ SendInv' /\ KeepaliveInv'
    BY <1>2 DEF ReadInv, SendInv, KeepaliveInv, AckEncoded, svars, kvars
  <1>6. EncodeInv'
    BY DEF EncodeInv, AckEncoded
  <1>. QED BY <1>3, <1>4, <1>5, <1>6

LEMMA EncodePillInv ==
    ASSUME CoreInv, EncodePill
    PROVE  CoreInv'
  <1>. USE DEF CoreInv
  <1>. DEFINE m == Len(wire)
  <1>1. m \in Nat /\ ~HasPill(enc2net) /\ InOrder(enc2net, m)
    BY ChannelTypes DEF EncodePill, EncodeInv, PipeInv
  <1>2. /\ enc2net' \in Seq(Elements) /\ InOrder(enc2net', m) /\ HasPill(enc2net')
        /\ Load(enc2net') = Load(enc2net) /\ Len(enc2net') = Len(enc2net) + 1
    BY <1>1, AppendPill, ChannelTypes DEF EncodePill
  <1>3. TypeOK'
    BY <1>2, ChannelTypes, SenderAssumption DEF TypeOK, EncodePill, Elements, svars, kvars
  <1>4. PipeInv'
    <2>1. wire' = wire /\ held' = held /\ (Load(enc2net))' = Load(enc2net)
      BY <1>2 DEF EncodePill, Load, HasPill
    <2>2. Acked' = Acked
      BY <1>2, ChannelTypes DEF Acked, EncodePill
    <2>. QED BY <1>2, <2>2 DEF PipeInv, EncodePill
  <1>5. ReadInv' /\ EncodeInv' /\ SendInv' /\ KeepaliveInv'
    BY DEF ReadInv, EncodeInv, SendInv, KeepaliveInv, EncodePill, svars, kvars
  <1>. QED BY <1>3, <1>4, <1>5

\* send_loop takes a chunk, or the pill, or notices its own error.
LEMMA RecvEncodedInv ==
    ASSUME CoreInv, RecvEncoded
    PROVE  CoreInv'
  <1>. USE DEF CoreInv
  <1>. DEFINE m == Len(wire)
  <1>1. m \in Nat /\ InOrder(enc2net, m) /\ spc = "recv"
    BY ChannelTypes DEF RecvEncoded, PipeInv
  <1>2. CASE /\ more_data /\ enc2net # <<>> /\ Head(enc2net) # Pill
             /\ enc2net' = Tail(enc2net) /\ wire' = Append(wire, Head(enc2net))
             /\ spc' = "emit" /\ UNCHANGED more_data
    <2>1. /\ Head(enc2net) = m /\ m \in Chunks
          /\ enc2net' \in Seq(Elements) /\ Len(enc2net') = Len(enc2net) - 1
          /\ InOrder(enc2net', m + 1) /\ Load(enc2net') = Load(enc2net) - 1
          /\ HasPill(enc2net') <=> HasPill(enc2net)
      BY <1>1, <1>2, TailChunk, ChannelTypes
    <2>2. /\ wire' \in Seq(Chunks) /\ Len(wire') = m + 1 /\ wire'[m + 1] = m
          /\ \A i \in 1 .. m : wire'[i] = wire[i]
      BY <1>2, <2>1, ChannelTypes, AppendProperties
    <2>3. TypeOK'
      BY <1>2, <2>1, <2>2, ChannelTypes, SenderAssumption
      DEF TypeOK, RecvEncoded, Elements, Labels, kvars
    <2>4. PipeInv'
      <3>1. \A i \in 1 .. Len(wire') : wire'[i] = i - 1
        BY <2>2, <1>1 DEF PipeInv
      <3>2. Acked' = Acked
        <4>1. held' = held /\ held \in Nat /\ Load(enc2net) \in Int
          BY ChannelTypes DEF RecvEncoded, TypeOK, Load
        <4>2. Acked' = (m + 1) + (Load(enc2net) - 1) - held
          BY <2>1, <2>2, <4>1 DEF Acked
        <4>. QED BY <1>1, <4>1, <4>2 DEF Acked
      <3>. QED BY <3>1, <3>2, <2>1, <2>2 DEF PipeInv, RecvEncoded
    <2>5. ReadInv' /\ EncodeInv' /\ SendInv' /\ KeepaliveInv'
      BY <1>1, <1>2, <2>1
      DEF ReadInv, EncodeInv, SendInv, KeepaliveInv, RecvEncoded, kvars
    <2>. QED BY <2>3, <2>4, <2>5
  <1>3. CASE /\ more_data /\ enc2net # <<>> /\ Head(enc2net) = Pill
             /\ enc2net' = Tail(enc2net) /\ more_data' = FALSE
             /\ spc' = "end" /\ UNCHANGED wire
    <2>1. HasPill(enc2net) /\ Load(enc2net) = 0 /\ enc2net' = <<>>
      BY <1>1, <1>3, HeadPill, ChannelTypes
    <2>2. InOrder(enc2net', m) /\ Load(enc2net') = 0 /\ ~HasPill(enc2net')
      BY <1>1, <2>1, EmptyInOrder
    <2>3. epc = "done"
      BY <1>1, <2>1 DEF EncodeInv, KeepaliveInv, TypeOK
    <2>4. TypeOK'
      <3>1. enc2net' \in Seq(Chunks \union {Pill}) /\ Len(enc2net') <= NetCap
        BY <2>1, EmptySeq, SenderAssumption
      <3>. QED BY <1>3, <3>1 DEF TypeOK, RecvEncoded, Labels, kvars
    <2>5. PipeInv'
      <3>1. Acked' = Acked
        BY <1>3, <2>1, <2>2 DEF Acked, RecvEncoded
      <3>. QED BY <1>3, <2>1, <2>2, <3>1 DEF PipeInv, RecvEncoded
    <2>6. ReadInv' /\ EncodeInv' /\ SendInv' /\ KeepaliveInv'
      BY <1>1, <1>3, <2>1, <2>3, SenderAssumption
      DEF ReadInv, EncodeInv, SendInv, KeepaliveInv, RecvEncoded, kvars
    <2>. QED BY <2>4, <2>5, <2>6
  <1>4. CASE ~more_data /\ spc' = "end" /\ UNCHANGED <<enc2net, wire, more_data>>
    <2>1. PipeInv'
      BY <1>4, PipeUnchanged DEF RecvEncoded
    <2>2. TypeOK' /\ ReadInv' /\ EncodeInv' /\ SendInv' /\ KeepaliveInv'
      BY <1>1, <1>4, SenderAssumption
      DEF TypeOK, Labels, ReadInv, EncodeInv, SendInv, KeepaliveInv, RecvEncoded, kvars
    <2>. QED BY <2>1, <2>2
  <1>. QED BY <1>2, <1>3, <1>4 DEF RecvEncoded

-----------------------------------------------------------------------------
(* Steps that move no chunk.                                               *)

\* The rest of a packet's salve or chunk.
LEMMA CountInRange ==
    ASSUME TypeOK, NEW n \in {HGAP_SALVE_LEN, PktsPerChunk}
    PROVE  (count + 1) % n \in 0 .. HGAP_SALVE_LEN + PktsPerChunk
  <1>1. n \in Nat \ {0} /\ count + 1 \in Nat
    BY SenderAssumption DEF TypeOK
  <1>2. (count + 1) % n \in 0 .. n - 1
    BY <1>1
  <1>. QED BY <1>1, <1>2, SenderAssumption

LEMMA NewCoreInv ==
    ASSUME CoreInv, NewSender
    PROVE  CoreInv'
  <1>. USE DEF CoreInv
  <1>1. PipeInv'
    BY PipeUnchanged DEF NewSender
  <1>2. TypeOK'
    BY SenderAssumption DEF TypeOK, Labels, NewSender, Exit
  <1>3. ReadInv' /\ EncodeInv'
    BY DEF ReadInv, EncodeInv, NewSender, Exit
  <1>4. SendInv' /\ KeepaliveInv'
    BY DEF SendInv, KeepaliveInv, NewSender, Exit
  <1>. QED BY <1>1, <1>2, <1>3, <1>4

LEMMA HandwaveInv ==
    ASSUME CoreInv, Handwave
    PROVE  CoreInv'
  <1>. USE DEF CoreInv
  <1>1. PipeInv'
    BY PipeUnchanged DEF Handwave
  <1>2. count' \in 0 .. HGAP_SALVE_LEN + PktsPerChunk
    BY CountInRange DEF Handwave, TypeOK
  <1>3. \/ spc' \in {"begin", "recv"} /\ UNCHANGED retval
        \/ spc' = "free" /\ retval' = HGAP_ERR_NETWORK
    BY DEF Handwave, Fail
  <1>4. TypeOK'
    BY <1>2, <1>3 DEF TypeOK, Labels, Handwave, kvars, HGAP_ERR_NETWORK
  <1>5. ReadInv' /\ EncodeInv' /\ KeepaliveInv'
    BY <1>3 DEF ReadInv, EncodeInv, KeepaliveInv, Handwave, kvars
  <1>6. SendInv'
    BY <1>3 DEF SendInv, Handwave, HGAP_ERR_NETWORK, HGAP_SUCCESS
  <1>. QED BY <1>1, <1>4, <1>5, <1>6

LEMMA EmitPktInv ==
    ASSUME CoreInv, EmitPkt
    PROVE  CoreInv'
  <1>. USE DEF CoreInv
  <1>1. PipeInv'
    BY PipeUnchanged DEF EmitPkt
  <1>2. count' \in 0 .. HGAP_SALVE_LEN + PktsPerChunk
    BY CountInRange DEF EmitPkt, TypeOK
  <1>3. /\ spc' \in {"emit", "recv"}
        /\ \/ UNCHANGED <<more_data, retval>>
           \/ more_data' = FALSE /\ retval' = HGAP_ERR_WIREHAIR_ERROR
    BY DEF EmitPkt
  <1>4. TypeOK'
    <2>1. retval' \in Nat
      BY <1>3 DEF TypeOK, HGAP_ERR_WIREHAIR_ERROR
    <2>2. more_data' \in BOOLEAN
      BY <1>3, Zenon DEF TypeOK
    <2>. QED BY <1>2, <1>3, <2>1, <2>2 DEF TypeOK, Labels, EmitPkt, kvars
  <1>5. ReadInv' /\ EncodeInv' /\ KeepaliveInv'
    BY <1>3 DEF ReadInv, EncodeInv, KeepaliveInv, EmitPkt, kvars
  <1>6. SendInv'
    BY <1>3 DEF SendInv, EmitPkt, HGAP_ERR_WIREHAIR_ERROR, HGAP_SUCCESS
  <1>. QED BY <1>1, <1>4, <1>5, <1>6

LEMMA TeardownInv ==
    ASSUME CoreInv, Teardown
    PROVE  CoreInv'
  <1>. USE DEF CoreInv
  <1>1. PipeInv'
    BY PipeUnchanged DEF Teardown
  <1>2. ended' \in 0 .. HGAP_SALVE_LEN /\ (spc' = "end" => ended' < HGAP_SALVE_LEN)
    BY SenderAssumption DEF Teardown, TypeOK, SendInv
  <1>3. TypeOK' /\ ReadInv' /\ EncodeInv' /\ SendInv' /\ KeepaliveInv'
    BY <1>2 DEF TypeOK, Labels, ReadInv, EncodeInv, SendInv, KeepaliveInv, Teardown, kvars
  <1>. QED BY <1>1, <1>3

LEMMA FreeInv ==
    ASSUME CoreInv, ClearCont \/ FreeSender
    PROVE  CoreInv'
  <1>. USE DEF CoreInv
  <1>1. PipeInv'
    BY PipeUnchanged DEF ClearCont, FreeSender
  <1>2. TypeOK'
    BY DEF TypeOK, Labels, ClearCont, FreeSender
  <1>3. ReadInv' /\ EncodeInv'
    BY DEF ReadInv, EncodeInv, ClearCont, FreeSender
  <1>4. SendInv' /\ KeepaliveInv'
    BY DEF SendInv, KeepaliveInv, ClearCont, FreeSender
  <1>. QED BY <1>1, <1>2, <1>3, <1>4

\* HGAP_SELECT_ERROR reports success only for two successes.
LEMMA SelectError ==
    ASSUME NEW e1 \in Nat, NEW e2 \in Nat
    PROVE  /\ HGAP_SELECT_ERROR(e1, e2) \in Nat
           /\ HGAP_SELECT_ERROR(e1, e2) = HGAP_SUCCESS => e1 = HGAP_SUCCESS /\ e2 = HGAP_SUCCESS
  BY DEF HGAP_SELECT_ERROR, HGAP_SUCCESS

LEMMA JoinReaderInv ==
    ASSUME CoreInv, JoinReader
    PROVE  CoreInv'
  <1>. USE DEF CoreInv
  <1>1. PipeInv'
    BY PipeUnchanged DEF JoinReader
  <1>2. /\ retval' \in Nat
        /\ retval' = HGAP_SUCCESS => rret = HGAP_SUCCESS /\ retval = HGAP_SUCCESS
    BY SelectError DEF JoinReader, TypeOK
  <1>3. TypeOK' /\ ReadInv' /\ EncodeInv' /\ SendInv' /\ KeepaliveInv'
    BY <1>2 DEF TypeOK, Labels, ReadInv, EncodeInv, SendInv, KeepaliveInv, JoinReader, kvars
  <1>. QED BY <1>1, <1>3

LEMMA JoinEncoderInv ==
    ASSUME CoreInv, JoinEncoder
    PROVE  CoreInv'
  <1>. USE DEF CoreInv
  <1>1. PipeInv'
    BY PipeUnchanged DEF JoinEncoder
  <1>2. /\ retval' \in Nat
        /\ retval' = HGAP_SUCCESS => eret = HGAP_SUCCESS /\ retval = HGAP_SUCCESS
    BY SelectError DEF JoinEncoder, TypeOK
  <1>3. TypeOK' /\ ReadInv' /\ EncodeInv' /\ SendInv' /\ KeepaliveInv'
    BY <1>2 DEF TypeOK, Labels, ReadInv, EncodeInv, SendInv, KeepaliveInv, JoinEncoder, kvars
  <1>. QED BY <1>1, <1>3

LEMMA KeepaliveStepInv ==
    ASSUME CoreInv, KeepaliveStep
    PROVE  CoreInv'
  <1>. USE DEF CoreInv
  <1>1. PipeInv'
    BY PipeUnchanged DEF KeepaliveStep, KeepaliveTest, KeepaliveSend
  <1>2. CASE KeepaliveTest
    BY <1>1, <1>2 DEF TypeOK, Labels, ReadInv, EncodeInv, SendInv, KeepaliveInv, KeepaliveTest, svars
  <1>3. CASE KeepaliveSend
    <2>1. TypeOK'
      BY <1>3 DEF TypeOK, Labels, KeepaliveSend, Exit
    <2>2. ReadInv' /\ EncodeInv'
      BY <1>3 DEF ReadInv, EncodeInv, KeepaliveSend, Exit
    <2>3. SendInv' /\ KeepaliveInv'
      BY <1>3 DEF SendInv, KeepaliveInv, KeepaliveSend, Exit
    <2>. QED BY <1>1, <2>1, <2>2, <2>3
  <1>. QED BY <1>2, <1>3 DEF KeepaliveStep

LEMMA CoreNext == CoreInv /\ [Next]_vars => CoreInv'
  <1>. SUFFICES ASSUME CoreInv, [Next]_vars PROVE CoreInv'
    OBVIOUS
  <1>1. CASE ReadStep
    BY <1>1, ReadChunkInv, ReadPillInv DEF ReadStep
  <1>2. CASE EncodeStep
    BY <1>2, EncodeChunkInv, SendEncodedInv, AckEncodedInv, EncodePillInv DEF EncodeStep
  <1>3. CASE SendStep
    BY <1>3, NewCoreInv, HandwaveInv, RecvEncodedInv, EmitPktInv, TeardownInv, FreeInv,
       JoinReaderInv, JoinEncoderInv DEF SendStep
  <1>4. CASE KeepaliveStep
    BY <1>4, KeepaliveStepInv
  <1>5. CASE UNCHANGED vars
    <2>1. PipeInv'
      BY <1>5, PipeUnchanged DEF vars, CoreInv
    <2>. QED BY <1>5, <2>1
         DEF vars, CoreInv, TypeOK, ReadInv, EncodeInv, SendInv, KeepaliveInv
  <1>. QED BY <1>1, <1>2, <1>3, <1>4, <1>5 DEF Next, Stopped

\* Nothing is added behind a pill, and the chunks in front of it leave without it.
LEMMA PillNext == CoreInv /\ PillInv /\ [Next]_vars => PillInv'
  <1>. SUFFICES ASSUME CoreInv, PillInv, [Next]_vars PROVE PillInv'
    OBVIOUS
  <1>. USE DEF CoreInv
  <1>. DEFINE m == Len(wire)
              n == Acked
  <1>1. /\ m \in Nat /\ n \in Nat /\ in2enc \in Seq(Elements) /\ enc2net \in Seq(Elements)
        /\ InOrder(enc2net, m) /\ InOrder(in2enc, n)
    BY ChannelTypes DEF PipeInv
  <1>2. CASE ReadChunk
    BY <1>2 DEF ReadChunk, PillInv, ReadInv, svars
  <1>3. CASE ReadPill
    <2>1. HasPill(in2enc')
      BY <1>1, <1>3, AppendPill DEF ReadPill, ReadInv
    <2>. QED BY <1>3, <2>1 DEF ReadPill, PillInv, svars
  <1>4. CASE EncodeChunk
    BY <1>4 DEF EncodeChunk, PillInv, svars
  <1>5. CASE SendEncoded \/ AckEncoded
    <2>1. HasPill(in2enc') <=> HasPill(in2enc)
      <3>1. CASE SendEncoded
        BY <3>1 DEF SendEncoded, HasPill
      <3>2. CASE AckEncoded
        BY <1>1, <3>2, TailChunk DEF AckEncoded, EncodeInv
      <3>. QED BY <1>5, <3>1, <3>2
    <2>2. (rpc' = "done" <=> rpc = "done") /\ epc' # "done"
      BY <1>5 DEF SendEncoded, AckEncoded
    <2>. QED BY <2>1, <2>2 DEF PillInv
  <1>6. CASE EncodePill
    <2>1. HasPill(enc2net')
      BY <1>1, <1>6, AppendPill DEF EncodePill, EncodeInv
    <2>. QED BY <1>6, <2>1 DEF EncodePill, PillInv
  <1>7. CASE RecvEncoded
    <2>1. CASE more_data /\ enc2net # <<>> /\ Head(enc2net) # Pill /\ enc2net' = Tail(enc2net)
      <3>1. HasPill(enc2net') <=> HasPill(enc2net)
        BY <1>1, <2>1, TailChunk
      <3>. QED BY <1>7, <2>1, <3>1 DEF RecvEncoded, PillInv
    <2>2. CASE ~more_data'
      BY <1>7, <2>2 DEF RecvEncoded, PillInv
    <2>. QED BY <1>7, <2>1, <2>2 DEF RecvEncoded
  <1>8. CASE NewSender \/ KeepaliveStep
    BY <1>8 DEF NewSender, KeepaliveStep, KeepaliveTest, KeepaliveSend, Exit, PillInv, svars
  <1>9. CASE Handwave \/ EmitPkt \/ Teardown
    BY <1>9 DEF Handwave, EmitPkt, Teardown, PillInv
  <1>10. CASE ClearCont \/ FreeSender \/ JoinReader \/ JoinEncoder \/ UNCHANGED vars
    BY <1>10 DEF ClearCont, FreeSender, JoinReader, JoinEncoder, vars, PillInv
  <1>. QED BY <1>2, <1>3, <1>4, <1>5, <1>6, <1>7, <1>8, <1>9, <1>10
       DEF Next, ReadStep, EncodeStep, SendStep, Stopped

LEMMA InitInv == Init => SenderInv
  <1>1. Init => PillInv
    BY DEF Init, PillInv
  <1>. QED BY <1>1, CoreInit DEF SenderInv, CoreInv

LEMMA NextInv == SenderInv /\ [Next]_vars => SenderInv'
  <1>1. SenderInv <=> CoreInv /\ PillInv
    BY DEF SenderInv, CoreInv
  <1>2. SenderInv' <=> CoreInv' /\ PillInv'
    BY DEF SenderInv, CoreInv
  <1>. QED BY <1>1, <1>2, CoreNext, PillNext

-----------------------------------------------------------------------------
(* The theorems.                                                           *)

\* The threads of hgap_send keep SenderInv, whatever fails and whenever.
THEOREM SenderCorrect == Spec => []SenderInv
  BY InitInv, NextInv, PTL DEF Spec

\* The state of the threads and channels of hgap_send keeps its type.
THEOREM SenderTyped == Spec => []TypeOK
  <1>1. SenderInv => TypeOK
    BY DEF SenderInv
  <1>. QED BY <1>1, SenderCorrect, PTL

\* The keepalive thread does not use the struct hgap_sender after send_loop has
\* freed it.
THEOREM KeepaliveSafe == Spec => []NoUseAfterFree
  <1>1. SenderInv => NoUseAfterFree
    BY DEF SenderInv, KeepaliveInv, NoUseAfterFree
  <1>. QED BY <1>1, SenderCorrect, PTL

\* If hgap_send returns HGAP_SUCCESS, every chunk of the file was sent.
THEOREM SuccessIsComplete == Spec => []SuccessMeansSent
  <1>1. SenderInv => SuccessMeansSent
    <2>. SUFFICES ASSUME SenderInv, Returned, retval = HGAP_SUCCESS
                  PROVE  Len(wire) = InputChunks
      BY DEF SuccessMeansSent
    <2>1. /\ rpc = "done" /\ rret = HGAP_SUCCESS /\ epc = "done" /\ eret = HGAP_SUCCESS
          /\ enc2net = <<>>
      BY DEF SenderInv, SendInv, Returned
    <2>2. file = InputChunks /\ in2enc # <<>> /\ Head(in2enc) = Pill
      BY <2>1 DEF SenderInv, ReadInv, EncodeInv
    <2>3. Load(in2enc) = 0 /\ Load(enc2net) = 0
      BY <2>1, <2>2, HeadPill, ChannelTypes, EmptyInOrder DEF SenderInv, PipeInv
    <2>4. held = 0
      BY <2>1 DEF SenderInv, EncodeInv
    <2>. QED BY <2>2, <2>3, <2>4, ChannelTypes DEF SenderInv, PipeInv, Acked
  <1>. QED BY <1>1, SenderCorrect, PTL

\* If read_loop, encode_loop and send_loop all wait for each other, send_loop or
\* encode_loop has met an error: a thread that is done has left a pill for the next
\* one, and a channel that is full is not empty.
THEOREM SenderDeadlockFree == Spec => []NoDeadlock
  <1>1. SenderInv => NoDeadlock
    <2>. SUFFICES ASSUME SenderInv, AllWait PROVE Jammed
      BY DEF NoDeadlock
    <2>. USE DEF SenderInv
    <2>1. InCap > 0 /\ NetCap > 0 /\ Len(<<>>) = 0 /\ ~HasPill(<<>>)
      BY SenderAssumption, EmptyInOrder
    <2>2. in2enc # <<>>
      BY <2>1 DEF AllWait, PillInv
    <2>3. epc = "done" \/ (held = 0 /\ Len(enc2net) = NetCap)
      BY <2>2 DEF AllWait
    <2>4. CASE spc = "recv" /\ more_data /\ enc2net = <<>>
      BY <2>1, <2>3, <2>4, SenderAssumption DEF PillInv
    <2>5. CASE spc = "join_read" /\ rpc # "done"
      <3>1. Len(in2enc) = InCap /\ ~HasPill(in2enc)
        BY <2>5 DEF AllWait, ReadInv
      <3>2. retval = HGAP_SUCCESS => eret # HGAP_SUCCESS
        <4>. SUFFICES ASSUME retval = HGAP_SUCCESS, eret = HGAP_SUCCESS PROVE FALSE
          OBVIOUS
        <4>1. epc = "done" /\ Head(in2enc) = Pill
          BY <2>5 DEF SendInv, EncodeInv
        <4>. QED BY <2>2, <3>1, <4>1, HeadPill, ChannelTypes DEF PipeInv
      <3>. QED BY <2>3, <2>5, <3>1, <3>2 DEF Jammed
    <2>6. CASE spc = "join_enc" /\ epc # "done"
      BY <2>3, <2>6 DEF Jammed, SendInv
    <2>. QED BY <2>4, <2>5, <2>6 DEF AllWait
  <1>. QED BY <1>1, SenderCorrect, PTL

-----------------------------------------------------------------------------
(* The path from the file to the wire implements BoundedFifo.              *)

Sent == [i \in 1 .. file |-> i - 1]

\* What read_loop has sent is a sequence of file chunks.
LEMMA SentProperties ==
    ASSUME SenderInv
    PROVE  /\ Sent \in Seq(Nat) /\ Len(Sent) = file
           /\ \A i \in 1 .. file : Sent[i] = i - 1
  BY DEF SenderInv, TypeOK, Sent

\* The chunks between file and wire fit in the two channels.
LEMMA LoadInRange ==
    ASSUME SenderInv
    PROVE  file - Len(wire) <= Len(enc2net) + Len(in2enc)
  <1>1. file = Len(wire) + Load(enc2net) - held + Load(in2enc) /\ held \in Nat
    BY DEF SenderInv, PipeInv, Acked, TypeOK
  <1>2. Load(enc2net) <= Len(enc2net) /\ Load(in2enc) <= Len(in2enc)
    BY ChannelTypes, LoadBounds DEF SenderInv
  <1>3. /\ file \in Nat /\ Len(wire) \in Nat /\ Len(enc2net) \in Nat /\ Len(in2enc) \in Nat
        /\ Load(enc2net) \in Nat /\ Load(in2enc) \in Nat
    BY ChannelTypes DEF SenderInv
  <1>4. \A f, w, a, b, c, d, h \in Nat :
            f = w + a - h + b /\ a <= c /\ b <= d => f - w <= c + d
    OBVIOUS
  <1>. QED BY <1>1, <1>2, <1>3, <1>4

\* A chunk read_loop sends is the Send of BoundedFifo.
LEMMA ReadChunkSends ==
    ASSUME SenderInv, ReadChunk
    PROVE  (\E v \in Chunks : Pipeline!Send(v)) \/ UNCHANGED <<file, wire>>
  <1>. SUFFICES ASSUME file' # file
                PROVE  \E v \in Chunks : Pipeline!Send(v)
    BY DEF ReadChunk
  <1>1. file \in Nat /\ file' = file + 1 /\ wire' = wire /\ file < InputChunks
    BY DEF SenderInv, TypeOK, ReadInv, ReadChunk
  <1>2. Sent' = Append(Sent, file)
    <2>1. Sent' = [i \in 1 .. file + 1 |-> i - 1]
      BY <1>1 DEF Sent
    <2>. QED BY <1>1, <2>1, SentProperties DEF Sent
  <1>3. Len(Sent) - Len(wire) < InCap + NetCap
    BY SentProperties, LoadInRange, ChannelTypes, SenderAssumption
    DEF SenderInv, TypeOK, ReadChunk
  <1>4. file \in Chunks
    BY <1>1, SenderAssumption DEF Chunks
  <1>. QED BY <1>1, <1>2, <1>3, <1>4 DEF Pipeline!Send, Pipeline!Permitted, Sent

\* A chunk send_loop receives is the Receive of BoundedFifo.
LEMMA RecvEncodedReceives ==
    ASSUME SenderInv, RecvEncoded
    PROVE  Pipeline!Receive \/ UNCHANGED <<file, wire>>
  <1>. SUFFICES ASSUME wire' # wire
                PROVE  Pipeline!Receive
    BY DEF RecvEncoded
  <1>1. /\ enc2net # <<>> /\ Head(enc2net) # Pill
        /\ wire' = Append(wire, Head(enc2net)) /\ file' = file
    BY DEF RecvEncoded
  <1>2. Head(enc2net) = Len(wire) /\ Load(enc2net) > 0
    BY <1>1, TailChunk, ChannelTypes DEF SenderInv, PipeInv
  <1>3. Len(wire) < file
    <2>1. held = 1 => Load(in2enc) > 0
      <3>. SUFFICES ASSUME held = 1 PROVE Load(in2enc) > 0
        OBVIOUS
      <3>1. in2enc # <<>> /\ Head(in2enc) # Pill
        BY DEF SenderInv, EncodeInv, KeepaliveInv, TypeOK, RecvEncoded
      <3>. QED BY <3>1, TailChunk, ChannelTypes DEF SenderInv, PipeInv
    <2>2. held \in 0 .. 1 /\ file = Len(wire) + Load(enc2net) - held + Load(in2enc)
      BY DEF SenderInv, TypeOK, PipeInv, Acked
    <2>. QED BY <1>2, <2>1, <2>2, ChannelTypes DEF SenderInv
  <1>4. Len(wire) < Len(Sent) /\ Sent[Len(wire) + 1] = Len(wire)
    BY <1>3, SentProperties, ChannelTypes DEF SenderInv
  <1>. QED BY <1>1, <1>2, <1>4 DEF Pipeline!Receive, Pipeline!Permitted, Sent

\* What the first two threads and the channels do between the file and send_loop is
\* what one channel of their joint capacity does: whatever fails, no chunk is lost,
\* doubled or overtaken, and no more than the channels hold are under way.
THEOREM PipelineImplementsFifo == Spec => PipelineSpec
  <1>1. Init => Pipeline!Init
    <2>. SUFFICES ASSUME Init PROVE Sent = <<>> /\ wire = <<>>
      BY DEF Pipeline!Init, Sent
    <2>. QED BY DEF Init, Sent
  <1>2. SenderInv /\ [Next]_vars => [Pipeline!Next]_Pipeline!fifoVars
    <2>. SUFFICES ASSUME SenderInv, [Next]_vars
                  PROVE  Pipeline!Next \/ UNCHANGED <<file, wire>>
      BY DEF Pipeline!fifoVars
    <2>1. CASE ReadChunk
      BY <2>1, ReadChunkSends DEF Pipeline!Next
    <2>2. CASE RecvEncoded
      BY <2>2, RecvEncodedReceives DEF Pipeline!Next
    <2>3. CASE ReadPill \/ EncodeStep \/ KeepaliveStep \/ UNCHANGED vars
      BY <2>3 DEF ReadPill, EncodeStep, EncodeChunk, SendEncoded, AckEncoded, EncodePill,
                  KeepaliveStep, KeepaliveTest, KeepaliveSend, vars
    <2>4. CASE NewSender \/ Handwave \/ EmitPkt \/ Teardown
      BY <2>4 DEF NewSender, Handwave, EmitPkt, Teardown
    <2>5. CASE ClearCont \/ FreeSender \/ JoinReader \/ JoinEncoder
      BY <2>5 DEF ClearCont, FreeSender, JoinReader, JoinEncoder
    <2>. QED BY <2>1, <2>2, <2>3, <2>4, <2>5 DEF Next, ReadStep, SendStep, Stopped
  <1>. QED BY <1>1, <1>2, SenderCorrect, PTL DEF Spec, PipelineSpec, Pipeline!Spec

=============================================================================
