---------------------------- MODULE TransferProofs ----------------------------
(***************************************************************************)
(* Proofs about Transfer, for any file, configuration of the sender and    *)
(* link: TransferInv is inductive.  Nothing is written before a BEGIN, the *)
(* redundancy asked for is met exactly, and, if no packet is truncated,    *)
(* what is written are whole chunks, in order, none of which was skipped   *)
(* half received.                                                          *)
(***************************************************************************)
EXTENDS Transfer, DecoderProofs, SequenceTheorems

-----------------------------------------------------------------------------
(* Numbers.                                                                *)

LEMMA Product ==
    ASSUME NEW a \in Nat, NEW b \in Nat
    PROVE  a * b \in Nat /\ (a > 0 /\ b > 0 => a * b > 0)
  OBVIOUS

LEMMA Monotone ==
    ASSUME NEW a \in Nat, NEW b \in Nat, NEW c \in Nat, b <= c
    PROVE  a * b <= a * c
  OBVIOUS

LEMMA HeaderLen == HGAP_HEADER_LEN = 24
  BY DEF HGAP_HEADER_LEN

LEMMA Reserved == HGAP_FIRST_RESERVED \in Nat /\ HGAP_FIRST_RESERVED = NumModulus - 16
  BY NumModulusAssumption DEF HGAP_FIRST_RESERVED

\* What is known of a setup, and of the chunks made with it.
LEMMA SetupFacts ==
    ASSUME setup \in Setups
    PROVE  /\ setup.FileLen \in Nat /\ setup.n_pkt \in Nat \ {0} /\ setup.pkt_size \in Nat
           /\ setup.pkt_size > HGAP_HEADER_LEN
           /\ setup.RedundNum \in Nat /\ setup.RedundDen \in Nat \ {0}
           /\ setup.RedundNum > 0
           /\ setup.LinkCap \in Nat \ {0} /\ setup.Window \in Nat \ {0}
           /\ setup.LossBudget \in Nat /\ setup.Runs \in Nat \ {0}
  <1>1. setup \in Setup /\ setup.pkt_size > HGAP_HEADER_LEN
    BY TransferAssumption
  <1>2. setup.RedundNum >= setup.RedundDen
    BY RedundAssumption
  <1>. QED BY <1>1, <1>2 DEF Setup

LEMMA ChunkFacts ==
    ASSUME setup \in Setups
    PROVE  /\ ChunkBytes(setup) \in Nat \ {0}
           /\ NumChunks \in Nat \ {0} /\ NumChunks < HGAP_FIRST_RESERVED
           /\ \A k \in Int : SizeOf(k) \in Nat /\ BlockSize(k) \in Nat
           /\ \A r \in 1 .. setup.Runs, k \in 0 .. NumChunks - 1 : Chunk(r, k) \in Contents
  <1>. DEFINE payload == setup.pkt_size - HGAP_HEADER_LEN
              bytes == ChunkBytes(setup)
  <1>1. payload \in Nat /\ payload > 0 /\ setup.n_pkt \in Nat \ {0} /\ setup.FileLen \in Nat
    BY SetupFacts, HeaderLen
  <1>2. bytes \in Nat \ {0}
    <2>. HIDE DEF payload
    <2>1. setup.n_pkt * payload \in Nat /\ setup.n_pkt * payload > 0
      BY <1>1, Product
    <2>. QED BY <2>1 DEF ChunkBytes, payload
  <1>. HIDE DEF bytes
  <1>3. setup.FileLen \div bytes \in Nat /\ setup.FileLen % bytes \in Nat
    BY <1>1, <1>2
  <1>4. NumChunks \in Nat \ {0}
    BY <1>3 DEF NumChunks, ChunkCount, bytes
  <1>5. NumChunks < HGAP_FIRST_RESERVED
    BY TransferAssumption DEF NumChunks
  <1>6. ASSUME NEW k \in Int PROVE SizeOf(k) \in Nat /\ BlockSize(k) \in Nat
    <2>1. SizeOf(k) \in Nat
      BY <1>2, <1>3 DEF SizeOf, bytes
    <2>. QED BY <1>1, <2>1 DEF BlockSize
  <1>7. \A r \in 1 .. setup.Runs, k \in 0 .. NumChunks - 1 : Chunk(r, k) \in Contents
    BY TransferAssumption DEF NumChunks
  <1>. QED BY <1>2, <1>4, <1>5, <1>6, <1>7 DEF bytes

\* The numbers of chunks and of control packets are different.
LEMMA PacketTypes ==
    ASSUME NEW pkt \in Packet
    PROVE  /\ hgap_pkt_type(pkt) = "data" => pkt.num \in 0 .. HGAP_FIRST_RESERVED - 1
           /\ hgap_pkt_type(pkt) = "data" => pkt.len >= HGAP_HEADER_LEN
  BY NumModulusAssumption
  DEF hgap_pkt_type, Packet, HGAP_FIRST_RESERVED, HGAP_NO_MORE_CHUNK, HGAP_BEGIN_BEACON,
      HGAP_KEEP_ALIVE, HGAP_HEADER_LEN

LEMMA ControlPackets ==
    ASSUME NEW num \in {HGAP_BEGIN_BEACON, HGAP_NO_MORE_CHUNK, HGAP_KEEP_ALIVE}
    PROVE  /\ ControlPkt(num) \in Packet /\ ControlPkt(num).len = HGAP_HEADER_LEN
           /\ hgap_pkt_type(ControlPkt(num)) # "data"
  <1>1. num \in 0 .. NumModulus - 1 /\ ~(num < HGAP_FIRST_RESERVED)
    BY NumModulusAssumption
    DEF HGAP_FIRST_RESERVED, HGAP_NO_MORE_CHUNK, HGAP_BEGIN_BEACON, HGAP_KEEP_ALIVE
  <1>2. ControlPkt(num) \in Packet
    BY <1>1, HeaderLen DEF ControlPkt, Packet, Bodies
  <1>3. ControlPkt(num).num = num /\ ControlPkt(num).len = HGAP_HEADER_LEN
    BY DEF ControlPkt
  <1>4. hgap_pkt_type(ControlPkt(num)) # "data"
    BY <1>1, <1>2, <1>3, PacketTypes, NumModulusAssumption DEF HGAP_FIRST_RESERVED
  <1>. QED BY <1>2, <1>3, <1>4

-----------------------------------------------------------------------------
(* The parts of CoreInv: of the sender, the link and the receiver.         *)

SenderPart ==
    /\ phase \in {"begin", "read", "emit", "end", "off"}
    /\ run \in 1 .. setup.Runs
    /\ salve \in 0 .. HGAP_SALVE_LEN - 1
    /\ file \in 0 .. NumChunks
    /\ lost \in 0 .. setup.LossBudget
    /\ sret \in Nat
    /\ ChunkInv /\ RedundInv /\ RedundancyMet

LinkPart == Len(link) <= setup.LinkCap /\ LinkInv

ReceiverPart ==
    /\ reader \in {"open", "closed"}
    /\ started \in BOOLEAN /\ decoding \in BOOLEAN
    /\ rret \in Nat /\ dret \in Nat
    /\ out \in Seq(Bodies)
    /\ StartInv

LEMMA Parts == CoreInv <=> SenderPart /\ LinkPart /\ ReceiverPart
  <1>1. CoreInv => SenderPart /\ LinkPart /\ ReceiverPart
    BY DEF CoreInv, TypeOK, SenderPart, LinkPart, ReceiverPart
  <1>2. ASSUME SenderPart, LinkPart, ReceiverPart PROVE CoreInv
    <2>1. enc.next_chunk_num = file
      BY <1>2 DEF SenderPart, ChunkInv
    <2>2. /\ dec.state \in T_NEW .. T_STOPPED /\ dec.num \in 0 .. NumModulus - 1
          /\ dec.data \in Bodies /\ \A b \in dec.blocks : b.body \in Bodies
      BY <1>2 DEF ReceiverPart, StartInv, DecoderState
    <2>. QED BY <1>2, <2>1, <2>2 DEF CoreInv, TypeOK, SenderPart, LinkPart, ReceiverPart
  <1>. QED BY <1>1, <1>2

LEMMA PartsNext == SenderPart' /\ LinkPart' /\ ReceiverPart' => CoreInv'
  BY Parts, PTL

\* What an action does not touch keeps its part.
LEMMA SenderFrame == SenderPart /\ UNCHANGED sender => SenderPart'
  BY DEF SenderPart, sender, ChunkInv, RedundInv, RedundancyMet, NumChunks, SizeOf, BlockSize

LEMMA LinkFrame == LinkPart /\ UNCHANGED <<setup, link>> => LinkPart'
  BY DEF LinkPart, LinkInv

LEMMA ReceiverFrame == ReceiverPart /\ UNCHANGED receiver => ReceiverPart'
  BY DEF ReceiverPart, receiver, StartInv

LEMMA CoreInit == Init => CoreInv
  <1>. SUFFICES ASSUME Init PROVE CoreInv
    OBVIOUS
  <1>0. setup \in Setups
    BY DEF Init
  <1>1. SenderPart
    <2>1. /\ setup.Runs \in Nat \ {0} /\ setup.LossBudget \in Nat /\ setup.pkt_size \in Nat
          /\ HGAP_SALVE_LEN \in Nat \ {0} /\ NumChunks \in Nat \ {0}
      BY <1>0, SetupFacts, ChunkFacts, TransferAssumption
    <2>2. chunk \in [data : Contents \union {NULL}, num : 0 .. NumModulus - 1, len : Nat,
                     pkt_size : Nat, next_pkt_id : Nat, total_gen : Nat, wh_state : BOOLEAN]
      BY NumModulusAssumption DEF Init, hgap_enc_chunk_new
    <2>3. sret \in Nat
      BY DEF Init, HGAP_SUCCESS
    <2>. QED BY <1>0, <2>1, <2>2, <2>3
         DEF Init, SenderPart, ChunkInv, RedundInv, RedundancyMet, hgap_encoder_new
  <1>2. LinkPart
    BY <1>0, SetupFacts DEF Init, LinkPart, LinkInv
  <1>3. ReceiverPart
    <2>1. dec \in DecoderState /\ dec.chunk_complete /\ dec.chunk_emitted /\ dec.state = T_NEW
      BY NewDecoder DEF Init, hgap_decoder_new
    <2>2. StartInv
      BY <2>1 DEF Init, StartInv
    <2>3. started \in BOOLEAN /\ decoding \in BOOLEAN /\ reader \in {"open", "closed"}
      BY Zenon DEF Init
    <2>4. rret \in Nat /\ dret \in Nat /\ out \in Seq(Bodies)
      BY DEF Init, HGAP_SUCCESS
    <2>. QED BY <2>2, <2>3, <2>4 DEF ReceiverPart
  <1>. QED BY <1>1, <1>2, <1>3, Parts

-----------------------------------------------------------------------------
(* The sender.                                                             *)

\* A packet on the link, or lost.
LEMMA PutKeeps ==
    ASSUME LinkPart, setup \in Setups, lost \in 0 .. setup.LossBudget,
           NEW pkt \in Packet, pkt.len <= setup.pkt_size, NEW last,
           Put(pkt, last), setup' = setup
    PROVE  LinkPart' /\ lost' \in 0 .. setup.LossBudget
  <1>1. setup.LossBudget \in Nat /\ setup.LinkCap \in Nat
    BY SetupFacts
  <1>2. lost' \in 0 .. setup.LossBudget
    BY <1>1 DEF Put
  <1>3. CASE link' = link
    BY <1>2, <1>3, LinkFrame
  <1>4. CASE link' = Append(link, pkt) /\ Len(link) < setup.LinkCap
    <2>1. link \in Seq(Packet)
      BY DEF LinkPart, LinkInv
    <2>2. /\ link' \in Seq(Packet) /\ Len(link') = Len(link) + 1
          /\ \A i \in 1 .. Len(link) : link'[i] = link[i]
          /\ link'[Len(link) + 1] = pkt
      BY <1>4, <2>1
    <2>3. \A i \in 1 .. Len(link') : link'[i].len <= setup.pkt_size
      BY <2>1, <2>2 DEF LinkPart, LinkInv
    <2>. QED BY <1>1, <1>2, <1>4, <2>1, <2>2, <2>3 DEF LinkPart, LinkInv
  <1>. QED BY <1>2, <1>3, <1>4 DEF Put

\* One packet of a salve.
LEMMA SalveKeeps ==
    ASSUME CoreInv, NEW num \in {HGAP_BEGIN_BEACON, HGAP_NO_MORE_CHUNK},
           NEW next \in {"read", "off"}, Salve(num, next),
           phase \in {"begin", "end"}, next = "read" => phase = "begin"
    PROVE  CoreInv'
  <1>. SenderPart /\ LinkPart /\ ReceiverPart
    BY Parts
  <1>. DEFINE last == salve + 1 = HGAP_SALVE_LEN
  <1>1. /\ Put(ControlPkt(num), last)
        /\ salve' = IF last THEN 0 ELSE salve + 1
        /\ phase' = IF last THEN next ELSE phase
        /\ UNCHANGED <<setup, run, file, enc, chunk, sret, receiver>>
    BY DEF Salve
  <1>2. setup \in Setups /\ lost \in 0 .. setup.LossBudget
    BY DEF SenderPart, ChunkInv
  <1>3. ControlPkt(num) \in Packet /\ ControlPkt(num).len <= setup.pkt_size
    BY <1>2, SetupFacts, ControlPackets, HeaderLen
  <1>4. LinkPart' /\ lost' \in 0 .. setup.LossBudget
    BY <1>1, <1>2, <1>3, PutKeeps
  <1>5. SenderPart'
    <2>1. salve' \in 0 .. HGAP_SALVE_LEN - 1
      BY <1>1, TransferAssumption DEF SenderPart
    <2>2. /\ phase' \in {"begin", "read", "end", "off"}
          /\ phase' \in {"begin", "read"} => file' = 0 /\ sret' = HGAP_SUCCESS
      BY <1>1 DEF SenderPart, ChunkInv
    <2>3. ChunkInv'
      BY <1>1, <2>2 DEF SenderPart, ChunkInv, NumChunks, SizeOf, BlockSize
    <2>4. RedundInv' /\ RedundancyMet'
      BY <2>2 DEF RedundInv, RedundancyMet
    <2>. QED BY <1>1, <1>4, <2>1, <2>2, <2>3, <2>4 DEF SenderPart, NumChunks
  <1>6. ReceiverPart'
    BY <1>1, ReceiverFrame
  <1>. QED BY <1>4, <1>5, <1>6, PartsNext

\* The next chunk: its number is its place in the file, whose end is reached before
\* the numbers of the control packets.
LEMMA NextChunkKeeps == CoreInv /\ NextChunk => CoreInv'
  <1>. SUFFICES ASSUME CoreInv, NextChunk PROVE CoreInv'
    OBVIOUS
  <1>. SenderPart /\ LinkPart /\ ReceiverPart
    BY Parts
  <1>0. setup \in Setups /\ file \in Nat /\ run \in 1 .. setup.Runs
    BY ChunkFacts DEF SenderPart, ChunkInv
  <1>1. phase = "read" /\ UNCHANGED <<setup, run, salve, lost, link, receiver>>
    BY DEF NextChunk
  <1>2. LinkPart' /\ ReceiverPart'
    BY <1>1, LinkFrame, ReceiverFrame
  <1>3. CASE /\ phase' = "end" /\ UNCHANGED <<enc, chunk, file>>
             /\ sret' = sret \/ sret' = HGAP_ERR_FILE_READ
    <2>1. sret = HGAP_SUCCESS /\ sret' \in Nat
      BY <1>1, <1>3 DEF SenderPart, ChunkInv, HGAP_ERR_FILE_READ
    <2>2. ChunkInv' /\ RedundInv' /\ RedundancyMet'
      BY <1>1, <1>3, <2>1
      DEF SenderPart, ChunkInv, RedundInv, RedundancyMet, NumChunks, SizeOf, BlockSize
    <2>3. SenderPart'
      BY <1>1, <1>3, <2>1, <2>2 DEF SenderPart, NumChunks
    <2>. QED BY <1>2, <2>3, PartsNext
  <1>4. CASE file < NumChunks /\ ReadChunk
    <2>. DEFINE size == SizeOf(file)
                full == size + HGAP_HEADER_LEN
                min == IF setup.pkt_size < full THEN setup.pkt_size ELSE full
                c == [hgap_enc_chunk_new EXCEPT !.data = Chunk(run, file),
                          !.num = file, !.len = size, !.pkt_size = min, !.next_pkt_id = 0]
    <2>0. /\ setup.pkt_size \in Nat /\ setup.pkt_size > 24 /\ size \in Nat
          /\ file < NumModulus - 16 /\ NumModulus \in Nat /\ NumChunks \in Nat
      BY <1>0, <1>4, SetupFacts, ChunkFacts, Reserved, HeaderLen, NumModulusAssumption
    <2>1. /\ phase' \in {"emit", "end"} /\ file' = file + 1 /\ sret' \in Nat
          /\ enc' = [pkt_size |-> setup.pkt_size, next_chunk_num |-> file + 1]
          /\ \E wh \in BOOLEAN : chunk' = [c EXCEPT !.wh_state = wh]
      <3>1. enc = [pkt_size |-> setup.pkt_size, next_chunk_num |-> file]
        BY DEF SenderPart, ChunkInv
      <3>2. (file + 1) % NumModulus = file + 1
        BY <1>0, <2>0
      <3>3. [enc EXCEPT !.next_chunk_num = (@ + 1) % NumModulus]
              = [pkt_size |-> setup.pkt_size, next_chunk_num |-> file + 1]
        BY <3>1, <3>2
      <3>4. /\ [hgap_enc_chunk_new EXCEPT !.data = Chunk(run, file),
                    !.num = enc.next_chunk_num, !.len = size,
                    !.pkt_size = IF enc.pkt_size < full THEN enc.pkt_size ELSE full,
                    !.next_pkt_id = 0] = c
        BY <3>1
      <3>5. c.wh_state = FALSE
        BY DEF hgap_enc_chunk_new
      <3>. HIDE DEF c
      <3>6. PICK r \in hgap_enc_chunk_init(enc, hgap_enc_chunk_new, Chunk(run, file), size) :
                /\ enc' = r.enc /\ chunk' = r.chunk /\ file' = file + 1
                /\ IF r.ret = HGAP_SUCCESS THEN phase' = "emit" /\ sret' = sret ELSE Pill(r.ret)
        BY <1>4 DEF ReadChunk
      <3>. DEFINE e == [enc EXCEPT !.next_chunk_num = (@ + 1) % NumModulus]
                  small == hgap_enc_chunk_is_small(c)
                  made == IF small THEN {c.wh_state} ELSE BOOLEAN
                  made_of(wh) == [enc |-> e, chunk |-> [c EXCEPT !.wh_state = wh],
                                  ret |-> IF small \/ wh THEN HGAP_SUCCESS
                                          ELSE HGAP_ERR_WIREHAIR_ERROR]
      <3>7. \E wh \in made : r = made_of(wh)
        BY <3>4, <3>6, Zenon DEF hgap_enc_chunk_init
      <3>8. made \subseteq BOOLEAN
        BY <3>5
      <3>9. PICK wh \in BOOLEAN : r = made_of(wh)
        <4>. HIDE DEF made, made_of
        <4>. QED BY <3>7, <3>8, Zenon
      <3>10. /\ r.enc = e /\ r.chunk = [c EXCEPT !.wh_state = wh]
             /\ r.ret = HGAP_SUCCESS \/ r.ret = HGAP_ERR_WIREHAIR_ERROR
        BY <3>9
      <3>11. phase' \in {"emit", "end"} /\ sret' \in Nat
        BY <3>6, <3>10 DEF Pill, SenderPart, HGAP_SUCCESS, HGAP_ERR_WIREHAIR_ERROR
      <3>. QED BY <3>3, <3>6, <3>10, <3>11
    <2>2. PICK wh \in BOOLEAN : chunk' = [c EXCEPT !.wh_state = wh]
      <3>. HIDE DEF c
      <3>. QED BY <2>1, Zenon
    <2>3. min \in Nat /\ min <= setup.pkt_size
          /\ (IF size <= min - 24 THEN size ELSE min - 24)
               = (IF size <= setup.pkt_size - 24 THEN size ELSE setup.pkt_size - 24)
      BY <2>0, HeaderLen
    <2>4. Chunk(run, file) \in Contents
      BY <1>0, <1>4, <2>0, ChunkFacts
    <2>. HIDE DEF min, size
    <2>5. /\ chunk'.data = Chunk(run, file) /\ chunk'.num = file /\ chunk'.len = size
          /\ chunk'.pkt_size = min /\ chunk'.next_pkt_id = 0 /\ chunk'.total_gen = 0
          /\ chunk'.wh_state = wh
          /\ chunk' \in [data : Contents \union {NULL}, num : 0 .. NumModulus - 1, len : Nat,
                         pkt_size : Nat, next_pkt_id : Nat, total_gen : Nat, wh_state : BOOLEAN]
      <3>1. chunk' = [data |-> Chunk(run, file), num |-> file, len |-> size, pkt_size |-> min,
                      next_pkt_id |-> 0, total_gen |-> 0, wh_state |-> wh]
        BY <2>2 DEF hgap_enc_chunk_new
      <3>2. file \in 0 .. NumModulus - 1 /\ size \in Nat /\ min \in Nat
        BY <1>0, <2>0, <2>3
      <3>. QED BY <3>1, <3>2, <2>4
    <2>6. file' - 1 = file /\ setup' = setup /\ run' = run
      BY <1>0, <1>1, <2>1
    <2>7. SizeOf(file - 1)' = size /\ BlockSize(file - 1)' \in Nat
      BY <2>0, <2>6, HeaderLen DEF size, SizeOf, BlockSize, NumChunks
    <2>8. EmittedPkt(chunk)'.dsize = BlockSize(file - 1)'
      BY <2>3, <2>5, <2>6, <2>7, HeaderLen
      DEF EmittedPkt, hgap_enc_chunk_is_small, PayloadSize, BlockSize
    <2>9. ChunkInv'
      <3>1. chunk'.total_gen = chunk'.next_pkt_id * BlockSize(file - 1)'
        BY <2>5, <2>7
      <3>. QED BY <1>0, <2>1, <2>3, <2>5, <2>6, <2>7, <2>8, <3>1 DEF ChunkInv
    <2>10. RedundInv' /\ RedundancyMet'
      BY <2>1, <2>5 DEF RedundInv, RedundancyMet
    <2>11. SenderPart'
      BY <1>0, <1>1, <1>4, <2>0, <2>1, <2>9, <2>10 DEF SenderPart, NumChunks
    <2>. QED BY <1>2, <2>11, PartsNext
  <1>. QED BY <1>3, <1>4 DEF NextChunk, ReadChunk, Pill

\* As long as the redundancy asked for is not reached there is an id for another packet.
LEMMA EnoughIds ==
    ASSUME SenderPart, phase = "emit", sret = HGAP_SUCCESS, chunk.len > 0
    PROVE  NextId(chunk.next_pkt_id) = chunk.next_pkt_id + 1
  <1>. DEFINE n == chunk.next_pkt_id
              size == BlockSize(file - 1)
              len == SizeOf(file - 1)
              num == setup.RedundNum
              den == setup.RedundDen
              pkts == setup.n_pkt
              payload == setup.pkt_size - HGAP_HEADER_LEN
  <1>1. /\ setup \in Setups /\ file - 1 \in Int /\ chunk.len = len /\ n \in Nat
        /\ chunk.total_gen = n * size
    BY ChunkFacts DEF SenderPart, ChunkInv
  <1>2. /\ num \in Nat /\ den \in Nat \ {0} /\ num >= den /\ pkts \in Nat \ {0}
        /\ payload \in Nat \ {0} /\ IdModulus \in Nat \ {0}
        /\ num * pkts <= (IdModulus - 1) * den
    <2>1. setup \in Setup
      BY <1>1, TransferAssumption
    <2>2. setup.pkt_size > HGAP_HEADER_LEN
      BY <1>1, TransferAssumption
    <2>. QED BY <1>1, <2>1, <2>2, RedundAssumption, IdAssumption, IdModulusAssumption, HeaderLen
         DEF Setup
  <1>3. /\ len \in Nat /\ len > 0 /\ len <= pkts * payload
        /\ size = IF len <= payload THEN len ELSE payload
    <2>1. ChunkBytes(setup) = pkts * payload
      BY DEF ChunkBytes
    <2>2. ChunkBytes(setup) \in Nat \ {0} /\ setup.FileLen \in Nat /\ len \in Nat
      BY <1>1, ChunkFacts, TransferAssumption DEF Setup
    <2>3. len <= ChunkBytes(setup)
      BY <2>2 DEF SizeOf
    <2>. QED BY <1>1, <2>1, <2>2, <2>3 DEF BlockSize
  <1>4. n > 0 => n * size * den < num * len
    BY <1>1 DEF SenderPart, RedundInv
  <1>. HIDE DEF n, size, len, num, den, pkts, payload
  <1>5. size \in Nat /\ size > 0 /\ len <= pkts * size
    <2>1. CASE len <= payload
      <3>1. size = len /\ pkts >= 1
        BY <1>2, <1>3, <2>1
      <3>2. pkts * len >= 1 * len
        BY <1>2, <1>3, <3>1
      <3>. QED BY <1>3, <3>1, <3>2
    <2>2. CASE ~ (len <= payload)
      BY <1>2, <1>3, <2>2
    <2>. QED BY <2>1, <2>2
  <1>6. n + 1 < IdModulus
    <2>1. CASE n = 0
      <3>1. num * pkts >= num
        BY <1>2
      <3>2. (IdModulus - 1) * den >= den
        BY <1>2, <3>1, Product
      <3>3. IdModulus # 1
        <4>. SUFFICES ASSUME IdModulus = 1 PROVE FALSE
          OBVIOUS
        <4>1. (IdModulus - 1) * den = 0
          BY <1>2
        <4>. QED BY <1>2, <3>2, <4>1
      <3>. QED BY <1>2, <2>1, <3>3
    <2>2. CASE n > 0
      <3>. SUFFICES ASSUME n >= IdModulus - 1 PROVE FALSE
        BY <1>1, <1>2, <2>2
      <3>. DEFINE k == IdModulus - 1
      <3>1. k \in Nat /\ n >= k
        BY <1>2
      <3>2. num * len <= num * (pkts * size)
        <4>1. pkts * size \in Nat
          BY <1>2, <1>5, Product
        <4>. HIDE DEF k
        <4>. QED BY <1>2, <1>3, <1>5, <4>1, Monotone
      <3>3. num * (pkts * size) = (num * pkts) * size
        BY <1>2, <1>5
      <3>. HIDE DEF k
      <3>4. (num * pkts) * size <= (k * den) * size
        <4>1. num * pkts \in Nat /\ k * den \in Nat /\ num * pkts <= k * den
          BY <1>2, <3>1, Product DEF k
        <4>2. size * (num * pkts) <= size * (k * den)
          BY <1>5, <4>1, Monotone
        <4>. QED BY <1>5, <4>1, <4>2
      <3>5. (k * den) * size = (den * size) * k /\ n * size * den = (den * size) * n
        BY <1>1, <1>2, <1>5, <3>1
      <3>6. (den * size) * k <= (den * size) * n
        <4>1. den * size \in Nat
          BY <1>2, <1>5, Product
        <4>. QED BY <1>1, <3>1, <4>1, Monotone
      <3>7. /\ n * size * den \in Int /\ num * len \in Int /\ (num * pkts) * size \in Int
            /\ (den * size) * k \in Int /\ (den * size) * n \in Int
        BY <1>1, <1>2, <1>3, <1>5, <3>1
      <3>. QED BY <1>4, <2>2, <3>2, <3>3, <3>4, <3>5, <3>6, <3>7
    <2>. QED BY <1>1, <2>1, <2>2
  <1>7. NextId(n) = n + 1
    BY <1>1, <1>2, <1>6 DEF NextId
  <1>. QED BY <1>7 DEF n

LEMMA IdType == \A n \in Nat : NextId(n) \in Nat
  BY IdModulusAssumption DEF NextId

\* What stays of a chunk when a packet of it is made, or cannot be made.
ChunkKept(m, gen) ==
    chunk' = [data |-> chunk.data, num |-> chunk.num, len |-> chunk.len,
              pkt_size |-> chunk.pkt_size, next_pkt_id |-> m, total_gen |-> gen,
              wh_state |-> chunk.wh_state]

LEMMA EmitChunk ==
    ASSUME SenderPart, phase = "emit", UNCHANGED <<setup, run, file, enc>>,
           NEW m \in Nat, NEW gen \in Nat, ChunkKept(m, gen), phase' # "begin", sret' \in Nat,
           phase' = "read" => sret' = HGAP_SUCCESS,
           sret' = HGAP_SUCCESS => gen = m * BlockSize(file - 1)
    PROVE  /\ ChunkInv'
           /\ chunk'.next_pkt_id = m /\ chunk'.total_gen = gen /\ chunk'.len = chunk.len
           /\ EmittedPkt(chunk)'.dsize = BlockSize(file - 1)
  <1>. DEFINE size == BlockSize(file - 1)
  <1>1. /\ chunk \in [data : Contents \union {NULL}, num : 0 .. NumModulus - 1, len : Nat,
                      pkt_size : Nat, next_pkt_id : Nat, total_gen : Nat, wh_state : BOOLEAN]
        /\ file > 0 /\ setup \in Setups /\ EmittedPkt(chunk).dsize = size
        /\ enc = [pkt_size |-> setup.pkt_size, next_chunk_num |-> file]
        /\ chunk.data = Chunk(run, file - 1) /\ chunk.num = file - 1
        /\ chunk.len = SizeOf(file - 1) /\ chunk.pkt_size <= setup.pkt_size
    BY DEF SenderPart, ChunkInv
  <1>2. /\ chunk'.data = chunk.data /\ chunk'.num = chunk.num /\ chunk'.len = chunk.len
        /\ chunk'.pkt_size = chunk.pkt_size /\ chunk'.next_pkt_id = m /\ chunk'.total_gen = gen
    BY DEF ChunkKept
  <1>3. chunk' \in [data : Contents \union {NULL}, num : 0 .. NumModulus - 1, len : Nat,
                    pkt_size : Nat, next_pkt_id : Nat, total_gen : Nat, wh_state : BOOLEAN]
    BY <1>1 DEF ChunkKept
  <1>4. SizeOf(file - 1)' = SizeOf(file - 1) /\ BlockSize(file - 1)' = size
    BY DEF SizeOf, BlockSize, NumChunks
  <1>5. EmittedPkt(chunk)'.dsize = EmittedPkt(chunk).dsize
    BY <1>2 DEF EmittedPkt, hgap_enc_chunk_is_small, PayloadSize
  <1>. HIDE DEF size
  <1>6. ChunkInv'
    BY <1>1, <1>2, <1>3, <1>4, <1>5 DEF ChunkInv, size
  <1>. QED BY <1>1, <1>2, <1>5, <1>6 DEF size

\* One packet of a chunk: more are sent exactly while the redundancy is not reached.
LEMMA SendPktKeeps ==
    ASSUME CoreInv, phase = "emit", SendPkt, UNCHANGED <<setup, run, salve, file, enc, receiver>>
    PROVE  CoreInv'
  <1>. SenderPart /\ LinkPart /\ ReceiverPart
    BY Parts
  <1>0. /\ setup \in Setups /\ file \in Nat /\ file > 0 /\ file - 1 \in 0 .. NumChunks - 1
        /\ NumChunks < NumModulus - 16 /\ run \in 1 .. setup.Runs /\ lost \in 0 .. setup.LossBudget
        /\ sret' = sret /\ sret \in Nat
    BY ChunkFacts, Reserved DEF SenderPart, ChunkInv, SendPkt
  <1>. DEFINE n == chunk.next_pkt_id
              m == NextId(n)
              size == BlockSize(file - 1)
              total == chunk.total_gen + size
              num == setup.RedundNum
              den == setup.RedundDen
              len == chunk.len
  <1>1. /\ chunk.data = Chunk(run, file - 1) /\ chunk.num = file - 1 /\ len \in Nat
        /\ len = SizeOf(file - 1)
        /\ chunk.pkt_size \in Nat /\ chunk.pkt_size <= setup.pkt_size
        /\ chunk.total_gen \in Nat /\ chunk.wh_state \in BOOLEAN
        /\ chunk.data \in Contents
        /\ EmittedPkt(chunk).dsize = size /\ (sret = HGAP_SUCCESS => chunk.total_gen = n * size)
        /\ n \in Nat /\ size \in Nat
    BY <1>0, ChunkFacts DEF SenderPart, ChunkInv
  <1>2. /\ chunk' = AfterEmit(chunk) /\ ChunkKept(m, total)
    <2>1. chunk' = AfterEmit(chunk)
      BY DEF SendPkt
    <2>2. chunk \in [data : Contents \union {NULL}, num : 0 .. NumModulus - 1, len : Nat,
                     pkt_size : Nat, next_pkt_id : Nat, total_gen : Nat, wh_state : BOOLEAN]
      BY DEF SenderPart, ChunkInv
    <2>. HIDE DEF size
    <2>. QED BY <1>1, <2>1, <2>2 DEF AfterEmit, ChunkKept
  <1>3. m \in Nat /\ total \in Nat /\ (sret = HGAP_SUCCESS /\ len > 0 => m = n + 1)
    <2>1. sret = HGAP_SUCCESS /\ len > 0 => m = n + 1
      BY EnoughIds
    <2>. HIDE DEF size
    <2>. QED BY <1>1, <2>1, IdType
  <1>4. sret = HGAP_SUCCESS => total = m * size
    <2>. SUFFICES ASSUME sret = HGAP_SUCCESS PROVE total = m * size
      OBVIOUS
    <2>1. CASE len > 0
      <3>. HIDE DEF m, n, size
      <3>1. (n + 1) * size = n * size + size
        BY <1>1
      <3>. QED BY <1>1, <1>3, <2>1, <3>1
    <2>2. CASE ~ (len > 0)
      <3>1. size = 0
        <4>1. setup.pkt_size - HGAP_HEADER_LEN \in Nat
          BY <1>0, SetupFacts, HeaderLen
        <4>. QED BY <1>1, <2>2, <4>1 DEF BlockSize
      <3>. HIDE DEF m, n, size
      <3>2. n * size = 0 /\ m * size = 0
        BY <1>1, <1>3, <3>1
      <3>. QED BY <1>1, <3>1, <3>2
    <2>. QED BY <1>1, <2>1, <2>2
  <1>5. PICK more \in BelowRedund(chunk', num, den) :
            /\ phase' = IF more THEN "emit" ELSE IF sret = HGAP_SUCCESS THEN "read" ELSE "end"
            /\ Put(EmittedPkt(chunk), ~more)
    BY DEF SendPkt
  <1>6. /\ ChunkInv' /\ chunk'.next_pkt_id = m /\ chunk'.total_gen = total /\ chunk'.len = len
        /\ EmittedPkt(chunk)'.dsize = size
    <2>1. phase' # "begin" /\ (phase' = "read" => sret' = HGAP_SUCCESS)
      BY <1>0, <1>5
    <2>. QED BY <1>0, <1>2, <1>3, <1>4, <2>1, EmitChunk
  <1>. HIDE DEF size, n, m, total
  <1>8. len > 0 => (more <=> total * den < num * len)
    <2>. SUFFICES ASSUME len > 0 PROVE more <=> total * den < num * len
      OBVIOUS
    <2>1. BelowRedund(chunk', num, den) = {total * den < num * len}
      BY <1>1, <1>6 DEF BelowRedund
    <2>. QED BY <1>5, <2>1, Zenon
  <1>9. RedundInv'
    BY <1>0, <1>6, <1>5, <1>8 DEF RedundInv
  <1>10. RedundancyMet'
    <2>. SUFFICES ASSUME phase' = "read", len > 0
                  PROVE  /\ m * size * den >= num * len
                         /\ (m - 1) * size * den < num * len
      <3>. HIDE DEF len, num, den
      <3>. QED BY <1>6 DEF RedundancyMet, num, den
    <2>0. sret = HGAP_SUCCESS /\ ~more
      BY <1>5
    <2>1. num \in Nat /\ num > 0 /\ den \in Nat /\ len \in Nat /\ num * len \in Nat /\ num * len > 0
      BY <1>0, <1>1, SetupFacts, Product
    <2>2. total \in Nat /\ total * den \in Nat
      BY <1>3, <2>1, Product
    <2>3. ~ (total * den < num * len)
      BY <1>8, <2>0
    <2>4. m * size * den >= num * len
      BY <1>4, <2>0, <2>1, <2>2, <2>3
    <2>5. n * size * den < num * len
      <3>1. CASE n = 0
        <4>1. n * size = 0 /\ 0 * den = 0
          BY <1>1, <2>1, <3>1
        <4>. QED BY <2>1, <4>1
      <3>2. CASE n > 0
        BY <1>0, <1>1, <2>0, <3>2 DEF SenderPart, RedundInv, n
      <3>. QED BY <1>1, <3>1, <3>2
    <2>6. m - 1 = n
      BY <1>1, <1>3, <2>0
    <2>. QED BY <2>4, <2>5, <2>6
  <1>11. EmittedPkt(chunk) \in Packet /\ EmittedPkt(chunk).len <= setup.pkt_size
    <2>1. EmittedPkt(chunk) = [num |-> file - 1, size |-> len, id |-> n, dsize |-> size,
                               len |-> chunk.pkt_size, body |-> chunk.data]
      BY <1>1 DEF EmittedPkt, n
    <2>2. file - 1 \in 0 .. NumModulus - 1
      BY <1>0, ChunkFacts, NumModulusAssumption
    <2>. QED BY <1>1, <2>1, <2>2 DEF Packet, Bodies
  <1>12. LinkPart' /\ lost' \in 0 .. setup.LossBudget
    BY <1>0, <1>5, <1>11, PutKeeps
  <1>13. SenderPart'
    BY <1>0, <1>6, <1>5, <1>9, <1>10, <1>12 DEF SenderPart, NumChunks
  <1>14. ReceiverPart'
    BY ReceiverFrame
  <1>. QED BY <1>12, <1>13, <1>14, PartsNext

\* A packet that cannot be made: send_loop will not take another chunk.
LEMMA EmitFailsKeeps ==
    ASSUME CoreInv, phase = "emit", EmitFails, UNCHANGED <<setup, run, salve, file, enc, receiver>>
    PROVE  CoreInv'
  <1>. SenderPart /\ LinkPart /\ ReceiverPart
    BY Parts
  <1>1. /\ UNCHANGED <<phase, lost, link>> /\ sret' \in Nat /\ sret' # HGAP_SUCCESS
        /\ chunk' = AfterFailedEmit(chunk)
    BY DEF EmitFails, HGAP_ERR_WIREHAIR_ERROR, HGAP_SUCCESS
  <1>2. chunk \in [data : Contents \union {NULL}, num : 0 .. NumModulus - 1, len : Nat,
                   pkt_size : Nat, next_pkt_id : Nat, total_gen : Nat, wh_state : BOOLEAN]
    BY DEF SenderPart, ChunkInv
  <1>3. ChunkKept(NextId(chunk.next_pkt_id), chunk.total_gen)
    BY <1>1, <1>2 DEF AfterFailedEmit, ChunkKept
  <1>4. ChunkInv'
    <2>1. NextId(chunk.next_pkt_id) \in Nat /\ chunk.total_gen \in Nat
      BY <1>2, IdType
    <2>. QED BY <1>1, <1>3, <2>1, EmitChunk
  <1>5. SenderPart'
    BY <1>1, <1>4 DEF SenderPart, RedundInv, RedundancyMet, NumChunks
  <1>. QED BY <1>1, <1>5, LinkFrame, ReceiverFrame, PartsNext

LEMMA EmitKeeps == CoreInv /\ EmitPkt => CoreInv'
  BY SendPktKeeps, EmitFailsKeeps DEF EmitPkt

LEMMA KeepaliveKeeps == CoreInv /\ Keepalive => CoreInv'
  <1>. SUFFICES ASSUME CoreInv, Keepalive PROVE CoreInv'
    OBVIOUS
  <1>. SenderPart /\ LinkPart /\ ReceiverPart
    BY Parts
  <1>1. setup \in Setups /\ lost \in 0 .. setup.LossBudget /\ UNCHANGED <<sender, receiver>>
    BY DEF SenderPart, ChunkInv, Keepalive
  <1>. DEFINE pkt == ControlPkt(HGAP_KEEP_ALIVE)
  <1>2. pkt \in Packet /\ pkt.len <= setup.pkt_size
    BY <1>1, SetupFacts, ControlPackets, HeaderLen
  <1>. HIDE DEF pkt
  <1>3. Put(pkt, FALSE)
    BY <1>1 DEF Put, Keepalive, sender, pkt
  <1>4. LinkPart'
    BY <1>1, <1>2, <1>3, PutKeeps DEF sender
  <1>. QED BY <1>1, <1>4, SenderFrame, ReceiverFrame, PartsNext

LEMMA RestartKeeps == CoreInv /\ Restart => CoreInv'
  <1>. SUFFICES ASSUME CoreInv, Restart PROVE CoreInv'
    OBVIOUS
  <1>. SenderPart /\ LinkPart /\ ReceiverPart
    BY Parts
  <1>1. /\ setup \in Setups /\ UNCHANGED <<setup, link, receiver>>
        /\ run' = run + 1 /\ run < setup.Runs
        /\ phase' = "begin" /\ salve' = 0 /\ file' = 0 /\ lost' = 0
        /\ enc' = [pkt_size |-> setup'.pkt_size, next_chunk_num |-> 0]
        /\ chunk' = hgap_enc_chunk_new /\ sret' = HGAP_SUCCESS /\ sret' \in Nat
    BY DEF SenderPart, ChunkInv, Restart, hgap_encoder_new, HGAP_SUCCESS
  <1>2. SenderPart'
    <2>1. /\ setup.Runs \in Nat \ {0} /\ setup.LossBudget \in Nat /\ setup.pkt_size \in Nat
          /\ HGAP_SALVE_LEN \in Nat \ {0} /\ NumChunks \in Nat \ {0} /\ NumChunks' = NumChunks
      BY <1>1, SetupFacts, ChunkFacts, TransferAssumption DEF NumChunks
    <2>2. chunk' \in [data : Contents \union {NULL}, num : 0 .. NumModulus - 1, len : Nat,
                     pkt_size : Nat, next_pkt_id : Nat, total_gen : Nat, wh_state : BOOLEAN]
      BY <1>1, NumModulusAssumption DEF hgap_enc_chunk_new
    <2>3. run' \in 1 .. setup'.Runs
      BY <1>1, <2>1 DEF SenderPart
    <2>. QED BY <1>1, <2>1, <2>2, <2>3
         DEF SenderPart, ChunkInv, RedundInv, RedundancyMet
  <1>. QED BY <1>1, <1>2, LinkFrame, ReceiverFrame, PartsNext

-----------------------------------------------------------------------------
(* The receiver.                                                           *)

\* The chunk the decoder works on after a data packet: the one it had, or a new one.
Continued(d, pkt, c) ==
    \/ pkt.num = d.num /\ ~d.chunk_complete /\ c = [d EXCEPT !.state = T_DATA]
    \/ /\ pkt.num # d.num /\ d.chunk_complete
       /\ \E u \in DecoderState : c \in hgap_dec_chunk_init(u, pkt) /\ u.state = T_DATA

\* What hgap_decoder_emit writes of a complete chunk.
Emitted(d) == IF IsSmall(d) THEN d.data ELSE wirehair_reconstruct(d.blocks)

\* decloop on a packet.  Nothing happens to its chunk, or the chunk gets a packet and,
\* if that makes it complete, is emitted at once.
LEMMA DecodeCases ==
    ASSUME Consistent(dec), dec.chunk_complete => dec.chunk_emitted,
           NEW pkt \in Packet, NEW o \in Decode(pkt)
    PROVE  /\ o.ret \in Nat /\ o.stop \in BOOLEAN /\ Consistent(o.dec)
           /\ o.dec.state # T_NEW => dec.state # T_NEW \/ hgap_pkt_type(pkt) = "begin"
           /\ \/ o.out = out /\ o.dec = [dec EXCEPT !.state = o.dec.state]
              \/ /\ hgap_pkt_type(pkt) = "data" /\ dec.state # T_NEW
                 /\ \E c \in DecoderState : \E r \in hgap_dec_chunk_read(c, pkt) :
                     /\ Continued(dec, pkt, c) /\ ~c.chunk_complete /\ ~c.chunk_emitted
                     /\ c.num = pkt.num /\ o.dec.state = T_DATA
                     /\ \/ o.out = out /\ o.dec = r.dec /\ (o.stop \/ ~r.dec.chunk_complete)
                        \/ /\ o.out = Append(out, Emitted(r.dec)) /\ r.dec.chunk_complete
                           /\ o.dec = [r.dec EXCEPT !.chunk_emitted = TRUE]
  <1>. DEFINE u == hgap_decoder_update_state(dec, pkt)
  <1>1. /\ u \in DecoderState /\ u = [dec EXCEPT !.state = u.state] /\ u.state >= dec.state
        /\ dec.state = T_NEW /\ u.state # T_NEW => hgap_pkt_type(pkt) = "begin"
        /\ dec \in DecoderState
    BY UpdateState DEF Consistent
  <1>2. PICK r \in hgap_decoder_read(dec, pkt) :
            \/ r.ret = 0 /\ o = Outcome(r.dec, out, HGAP_SUCCESS, FALSE)
            \/ r.ret = -HGAP_EOT /\ o = Outcome(r.dec, out, HGAP_SUCCESS, TRUE)
            \/ r.ret < 0 /\ o = Outcome(r.dec, out, -r.ret, TRUE)
            \/ /\ ~ (r.ret < 0) /\ r.ret # 0
               /\ \E e \in hgap_decoder_emit(r.dec, r.ret) :
                    o = IF e.ret = HGAP_SUCCESS
                        THEN Outcome(e.dec, Append(out, e.out), HGAP_SUCCESS, FALSE)
                        ELSE Outcome(e.dec, out, e.ret, TRUE)
    BY DEF Decode
  <1>3. /\ Consistent(r.dec) /\ r.ret \in Int /\ Ready(r.dec, r.ret)
        /\ \/ r.dec = u /\ r.ret <= 0
           \/ /\ u.state = T_DATA /\ hgap_pkt_type(pkt) = "data" /\ Consistent(u)
              /\ r \in ReadData(u, pkt)
    BY DecoderRead
  <1>. HIDE DEF u
  <1>4. dec.state \in Nat /\ u.state \in Nat /\ T_NEW = 0 /\ T_DATA = 2
    BY <1>1, StateNumbers DEF DecoderState
  <1>5. r.dec.state = u.state
    BY <1>3, DataRead
  <1>6. r.dec.state # T_NEW => dec.state # T_NEW \/ hgap_pkt_type(pkt) = "begin"
    BY <1>1, <1>5
  <1>. DEFINE Fed(c) == /\ Continued(dec, pkt, c) /\ ~c.chunk_complete /\ ~c.chunk_emitted
                        /\ c.num = pkt.num
  <1>7. \/ r.dec = u /\ r.ret <= 0
        \/ /\ hgap_pkt_type(pkt) = "data" /\ dec.state # T_NEW /\ r.dec.state = T_DATA
           /\ \E c \in DecoderState : Fed(c) /\ r \in hgap_dec_chunk_read(c, pkt)
    <2>0. u.num = dec.num /\ u.chunk_complete = dec.chunk_complete /\ u.chunk_emitted = dec.chunk_emitted
      BY <1>1 DEF DecoderState
    <2>1. CASE r.dec = u
      BY <1>3, <2>0, <2>1 DEF Ready
    <2>. SUFFICES ASSUME r.dec # u
                  PROVE  /\ hgap_pkt_type(pkt) = "data" /\ dec.state # T_NEW /\ r.dec.state = T_DATA
                         /\ \E c \in DecoderState : Fed(c) /\ r \in hgap_dec_chunk_read(c, pkt)
      BY <2>1
    <2>2. /\ u.state = T_DATA /\ hgap_pkt_type(pkt) = "data" /\ Consistent(u)
          /\ r \in ReadData(u, pkt)
      BY <1>3
    <2>3. dec.state # T_NEW /\ r.dec.state = T_DATA
      BY <1>1, <1>4, <1>5, <2>2
    <2>4. \/ pkt.num = u.num /\ ~u.chunk_complete /\ r \in hgap_dec_chunk_read(u, pkt)
          \/ /\ pkt.num # u.num /\ u.chunk_complete
             /\ \E c \in hgap_dec_chunk_init(u, pkt) : r \in hgap_dec_chunk_read(c, pkt)
      BY <2>2, DataRead
    <2>5. CASE pkt.num = u.num /\ ~u.chunk_complete /\ r \in hgap_dec_chunk_read(u, pkt)
      <3>1. Continued(dec, pkt, u)
        BY <1>1, <2>0, <2>2, <2>5 DEF Continued
      <3>2. Fed(u)
        BY <3>1, <2>0, <2>2, <2>5 DEF Consistent
      <3>. QED BY <1>1, <2>2, <2>3, <2>5, <3>2
    <2>6. CASE /\ pkt.num # u.num /\ u.chunk_complete
               /\ \E c \in hgap_dec_chunk_init(u, pkt) : r \in hgap_dec_chunk_read(c, pkt)
      <3>1. PICK c \in hgap_dec_chunk_init(u, pkt) : r \in hgap_dec_chunk_read(c, pkt)
        BY <2>6
      <3>2. c \in DecoderState /\ c.num = pkt.num /\ ~c.chunk_complete /\ ~c.chunk_emitted
        BY <1>1, ChunkInit
      <3>3. Continued(dec, pkt, c)
        BY <1>1, <2>0, <2>2, <2>6 DEF Continued
      <3>. QED BY <2>2, <2>3, <3>1, <3>2, <3>3
    <2>. QED BY <2>4, <2>5, <2>6
  <1>8. CASE r.ret <= 0
    <2>1. o.out = out /\ o.dec = r.dec /\ o.ret \in Nat
      BY <1>2, <1>3, <1>8 DEF Outcome, HGAP_SUCCESS, HGAP_EOT
    <2>2. o.stop \in BOOLEAN /\ (o.stop \/ r.ret = 0)
      <3>1. \/ r.ret = 0 /\ o = Outcome(r.dec, out, HGAP_SUCCESS, FALSE)
            \/ o = Outcome(r.dec, out, HGAP_SUCCESS, TRUE)
            \/ o = Outcome(r.dec, out, -r.ret, TRUE)
        <4>1. r.ret = 0 \/ r.ret < 0
          BY <1>3, <1>8
        <4>. QED BY <1>2, <4>1, Zenon
      <3>2. (r.ret = 0 /\ o.stop = FALSE) \/ o.stop = TRUE
        BY <3>1 DEF Outcome
      <3>. QED BY <3>2, Zenon
    <2>3. CASE r.dec = u
      <3>1. o.dec = [dec EXCEPT !.state = o.dec.state]
        BY <1>1, <2>1, <2>3
      <3>. QED BY <1>3, <1>6, <2>1, <2>2, <3>1
    <2>4. CASE r.dec # u
      <3>1. /\ hgap_pkt_type(pkt) = "data" /\ dec.state # T_NEW /\ r.dec.state = T_DATA
            /\ \E c \in DecoderState : Fed(c) /\ r \in hgap_dec_chunk_read(c, pkt)
        BY <1>7, <2>4
      <3>2. PICK c \in DecoderState : Fed(c) /\ r \in hgap_dec_chunk_read(c, pkt)
        BY <3>1
      <3>3. r.ret > 0 <=> r.dec.chunk_complete
        BY <3>2, ChunkRead
      <3>4. o.stop \/ ~r.dec.chunk_complete
        BY <1>8, <2>2, <3>3
      <3>. QED BY <1>3, <1>6, <2>1, <2>2, <3>1, <3>2, <3>4
    <2>. QED BY <2>3, <2>4
  <1>9. CASE r.ret > 0
    <2>1. PICK e \in hgap_decoder_emit(r.dec, r.ret) :
              o = IF e.ret = HGAP_SUCCESS
                  THEN Outcome(e.dec, Append(out, e.out), HGAP_SUCCESS, FALSE)
                  ELSE Outcome(e.dec, out, e.ret, TRUE)
      <3>1. r.ret # 0 /\ r.ret # -HGAP_EOT /\ ~ (r.ret < 0)
        BY <1>3, <1>9 DEF HGAP_EOT
      <3>. QED BY <1>2, <3>1, Zenon
    <2>2. Consistent(e.dec) /\ e.ret \in Nat
      BY <1>3, DecoderEmit
    <2>3. r.dec.chunk_complete /\ r.dec \in DecoderState
      BY <1>3, <1>9 DEF Ready, Consistent
    <2>4. \/ e.ret # HGAP_SUCCESS /\ e.dec = r.dec
          \/ /\ e.ret = HGAP_SUCCESS /\ e.dec = [r.dec EXCEPT !.chunk_emitted = TRUE]
             /\ e.out = Emitted(r.dec)
      <3>. DEFINE Fail(m) == [dec |-> r.dec, ret |-> m, out |-> NULL]
                  Done(x) == [dec |-> [r.dec EXCEPT !.chunk_emitted = TRUE],
                              ret |-> HGAP_SUCCESS, out |-> x]
      <3>1. \/ \E m \in {HGAP_ERR_INCOMPLETE_CHUNK, HGAP_ERR_BUFFER_TOO_SMALL,
                        HGAP_ERR_WIREHAIR_ERROR} : e = Fail(m)
            \/ e = Done(Emitted(r.dec))
        BY DEF hgap_decoder_emit, Emitted
      <3>2. CASE e = Done(Emitted(r.dec))
        BY <3>2
      <3>3. CASE \E m \in {HGAP_ERR_INCOMPLETE_CHUNK, HGAP_ERR_BUFFER_TOO_SMALL,
                          HGAP_ERR_WIREHAIR_ERROR} : e = Fail(m)
        BY <3>3 DEF HGAP_SUCCESS, HGAP_ERR_INCOMPLETE_CHUNK, HGAP_ERR_BUFFER_TOO_SMALL,
                    HGAP_ERR_WIREHAIR_ERROR
      <3>. QED BY <3>1, <3>2, <3>3
    <2>5. e.dec.state = r.dec.state
      BY <2>3, <2>4 DEF DecoderState
    <2>7. /\ hgap_pkt_type(pkt) = "data" /\ dec.state # T_NEW /\ r.dec.state = T_DATA
          /\ \E c \in DecoderState : Fed(c) /\ r \in hgap_dec_chunk_read(c, pkt)
      BY <1>3, <1>7, <1>9
    <2>8. CASE e.ret = HGAP_SUCCESS
      <3>1. o = Outcome(e.dec, Append(out, e.out), HGAP_SUCCESS, FALSE)
        BY <2>1, <2>8
      <3>2. /\ o.dec = [r.dec EXCEPT !.chunk_emitted = TRUE] /\ o.out = Append(out, Emitted(r.dec))
            /\ o.ret \in Nat /\ o.stop = FALSE /\ o.dec = e.dec
        BY <2>4, <2>8, <3>1 DEF Outcome, HGAP_SUCCESS
      <3>3. o.stop \in BOOLEAN
        BY <3>2
      <3>. QED BY <1>6, <2>2, <2>3, <2>5, <2>7, <3>2, <3>3
    <2>9. CASE e.ret # HGAP_SUCCESS
      <3>1. o = Outcome(e.dec, out, e.ret, TRUE)
        BY <2>1, <2>9
      <3>2. o.dec = r.dec /\ o.out = out /\ o.ret \in Nat /\ o.stop = TRUE /\ o.dec = e.dec
        BY <2>2, <2>4, <2>9, <3>1 DEF Outcome
      <3>3. o.stop /\ o.stop \in BOOLEAN
        BY <3>2
      <3>. QED BY <1>6, <2>2, <2>3, <2>5, <2>7, <3>2, <3>3
    <2>. QED BY <2>8, <2>9
  <1>10. r.ret <= 0 \/ r.ret > 0
    BY <1>3
  <1>. QED BY <1>8, <1>9, <1>10, Zenon

\* One round of the three threads of the receiver.
LEMMA ReceiveKeeps ==
    ASSUME ReceiverPart, NEW pkt \in Packet, Receive(pkt)
    PROVE  ReceiverPart'
  <1>0. /\ Consistent(dec) /\ (decoding /\ dec.chunk_complete => dec.chunk_emitted)
        /\ dec.state # T_NEW => started
        /\ out # <<>> => started
        /\ out \in Seq(Bodies) /\ dret \in Nat /\ rret \in Nat
        /\ started \in BOOLEAN /\ decoding \in BOOLEAN
    BY DEF ReceiverPart, StartInv, Consistent
  <1>1. PICK o \in IF decoding THEN Decode(pkt) ELSE {Outcome(dec, out, dret, TRUE)} :
            /\ dec' = o.dec /\ out' = o.out /\ dret' = o.ret
            /\ reader' = IF hgap_pkt_type(pkt) = "end" \/ o.ret # HGAP_SUCCESS
                         THEN "closed" ELSE "open"
            /\ decoding' = (~o.stop /\ reader' = "open")
    BY DEF Receive
  <1>2. started' = (started \/ hgap_pkt_type(pkt) = "begin") /\ rret' = rret
    BY DEF Receive
  <1>3. CASE ~decoding
    <2>1. o = Outcome(dec, out, dret, TRUE)
      BY <1>1, <1>3
    <2>2. dec' = dec /\ out' = out /\ dret' = dret /\ ~decoding' /\ decoding' \in BOOLEAN
      BY <1>1, <2>1 DEF Outcome
    <2>3. StartInv'
      BY <1>0, <1>2, <2>2 DEF StartInv, Consistent
    <2>4. started' \in BOOLEAN /\ reader' \in {"open", "closed"}
      BY <1>1, <1>2
    <2>. QED BY <1>0, <1>2, <2>2, <2>3, <2>4 DEF ReceiverPart
  <1>4. CASE decoding
    <2>0. o \in Decode(pkt)
      BY <1>1, <1>4
    <2>1. /\ o.ret \in Nat /\ o.stop \in BOOLEAN /\ Consistent(o.dec)
          /\ o.dec.state # T_NEW => dec.state # T_NEW \/ hgap_pkt_type(pkt) = "begin"
          /\ \/ o.out = out /\ o.dec = [dec EXCEPT !.state = o.dec.state]
             \/ /\ hgap_pkt_type(pkt) = "data" /\ dec.state # T_NEW
                /\ \E c \in DecoderState : \E r \in hgap_dec_chunk_read(c, pkt) :
                    /\ Continued(dec, pkt, c) /\ ~c.chunk_complete /\ ~c.chunk_emitted
                    /\ c.num = pkt.num /\ o.dec.state = T_DATA
                    /\ \/ o.out = out /\ o.dec = r.dec /\ (o.stop \/ ~r.dec.chunk_complete)
                       \/ /\ o.out = Append(out, Emitted(r.dec)) /\ r.dec.chunk_complete
                          /\ o.dec = [r.dec EXCEPT !.chunk_emitted = TRUE]
      BY <1>0, <1>4, <2>0, DecodeCases
    <2>2. CASE o.out = out /\ o.dec = [dec EXCEPT !.state = o.dec.state]
      <3>1. o.dec.chunk_complete = dec.chunk_complete /\ o.dec.chunk_emitted = dec.chunk_emitted
        BY <1>0, <2>2 DEF Consistent, DecoderState
      <3>2. StartInv'
        BY <1>0, <1>1, <1>2, <1>4, <2>1, <2>2, <3>1 DEF StartInv, Consistent
      <3>3. started' \in BOOLEAN /\ reader' \in {"open", "closed"} /\ decoding' \in BOOLEAN
        BY <1>1, <1>2
      <3>. QED BY <1>0, <1>1, <1>2, <2>1, <2>2, <3>2, <3>3 DEF ReceiverPart
    <2>3. CASE ~ (o.out = out /\ o.dec = [dec EXCEPT !.state = o.dec.state])
      <3>0. PICK c \in DecoderState : \E r \in hgap_dec_chunk_read(c, pkt) :
                /\ ~c.chunk_complete /\ dec.state # T_NEW
                /\ \/ o.out = out /\ o.dec = r.dec /\ (o.stop \/ ~r.dec.chunk_complete)
                   \/ /\ o.out = Append(out, Emitted(r.dec)) /\ r.dec.chunk_complete
                      /\ o.dec = [r.dec EXCEPT !.chunk_emitted = TRUE]
        BY <2>1, <2>3
      <3>1. PICK r \in hgap_dec_chunk_read(c, pkt) :
                /\ ~c.chunk_complete /\ dec.state # T_NEW
                /\ \/ o.out = out /\ o.dec = r.dec /\ (o.stop \/ ~r.dec.chunk_complete)
                   \/ /\ o.out = Append(out, Emitted(r.dec)) /\ r.dec.chunk_complete
                      /\ o.dec = [r.dec EXCEPT !.chunk_emitted = TRUE]
        BY <3>0
      <3>2. r.dec \in DecoderState
        BY <3>1, ChunkRead
      <3>3. Emitted(r.dec) \in Bodies
        BY <3>2 DEF Emitted, wirehair_reconstruct, Bodies, DecoderState
      <3>4. o.out \in Seq(Bodies)
        <4>1. Append(out, Emitted(r.dec)) \in Seq(Bodies)
          BY <1>0, <3>3
        <4>. QED BY <1>0, <3>1, <4>1, Zenon
      <3>5. o.stop \/ (o.dec.chunk_complete => o.dec.chunk_emitted)
        BY <3>1, <3>2 DEF DecoderState
      <3>6. started'
        BY <1>0, <1>2, <3>1
      <3>7. StartInv'
        BY <1>1, <2>1, <3>5, <3>6 DEF StartInv, Consistent
      <3>8. started' \in BOOLEAN /\ reader' \in {"open", "closed"} /\ decoding' \in BOOLEAN
        BY <1>1, <1>2
      <3>. QED BY <1>0, <1>1, <1>2, <2>1, <3>4, <3>7, <3>8 DEF ReceiverPart
    <2>. QED BY <2>2, <2>3
  <1>. QED BY <1>3, <1>4

\* What is left of a packet in the buffer of the receiver is a packet.
LEMMA ReceivedPackets ==
    ASSUME NEW pkt \in Packet
    PROVE  Received(pkt, rcv_pkt_size) \in Packet
  BY TransferAssumption DEF Received, Packet, Bodies

\* Taking one of the packets off the link.
LEMMA Removal ==
    ASSUME NEW i \in 1 .. Len(link), link \in Seq(Packet), link' = RemoveAt(link, i)
    PROVE  /\ link' \in Seq(Packet) /\ Len(link') = Len(link) - 1
           /\ \A j \in 1 .. Len(link') : link'[j] = IF j < i THEN link[j] ELSE link[j + 1]
  <1>1. Len(link) \in Nat /\ i \in Nat
    OBVIOUS
  <1>. DEFINE s == SubSeq(link, 1, i - 1)
              t == SubSeq(link, i + 1, Len(link))
  <1>2. /\ s \in Seq(Packet) /\ Len(s) = i - 1
        /\ \A j \in 1 .. i - 1 : s[j] = link[j]
    OBVIOUS
  <1>3. /\ t \in Seq(Packet) /\ Len(t) = Len(link) - i
        /\ \A j \in 1 .. Len(link) - i : t[j] = link[j + i]
    OBVIOUS
  <1>4. link' = s \o t
    BY DEF RemoveAt
  <1>. HIDE DEF s, t
  <1>5. link' \in Seq(Packet) /\ Len(link') = Len(link) - 1
    <2>1. s \o t \in Seq(Packet) /\ Len(s \o t) = Len(s) + Len(t)
      BY <1>2, <1>3, ConcatProperties
    <2>. QED BY <1>1, <1>2, <1>3, <1>4, <2>1
  <1>6. ASSUME NEW j \in 1 .. Len(link')
        PROVE  link'[j] = IF j < i THEN link[j] ELSE link[j + 1]
    <2>1. CASE j < i
      BY <1>1, <1>2, <1>3, <1>4, <1>5, <2>1
    <2>2. CASE ~ (j < i)
      <3>1. j - (i - 1) \in 1 .. Len(link) - i /\ (j - (i - 1)) + i = j + 1
        BY <1>1, <1>5, <2>2
      <3>2. link'[j] = t[j - (i - 1)]
        BY <1>1, <1>2, <1>3, <1>4, <1>5, <2>2
      <3>. QED BY <1>3, <2>2, <3>1, <3>2
    <2>. QED BY <2>1, <2>2
  <1>. QED BY <1>5, <1>6

LEMMA DeliverKeeps == CoreInv /\ Deliver => CoreInv'
  <1>. SUFFICES ASSUME CoreInv, Deliver PROVE CoreInv'
    OBVIOUS
  <1>. SenderPart /\ LinkPart /\ ReceiverPart
    BY Parts
  <1>1. PICK i \in 1 .. Len(link) :
            /\ link' = RemoveAt(link, i)
            /\ IF reader = "open" THEN Receive(Received(link[i], rcv_pkt_size))
               ELSE UNCHANGED receiver
            /\ UNCHANGED sender
    BY DEF Deliver
  <1>2. /\ link \in Seq(Packet) /\ Len(link) \in Nat /\ setup' = setup
        /\ Len(link) <= setup.LinkCap /\ setup.LinkCap \in Nat
        /\ \A j \in 1 .. Len(link) : link[j].len <= setup.pkt_size
    <2>1. setup \in Setups /\ setup' = setup
      BY <1>1 DEF SenderPart, ChunkInv, sender
    <2>2. setup.LinkCap \in Nat
      BY <2>1, SetupFacts
    <2>. QED BY <2>1, <2>2 DEF LinkPart, LinkInv
  <1>3. /\ link' \in Seq(Packet) /\ Len(link') = Len(link) - 1
        /\ \A j \in 1 .. Len(link') : link'[j] = IF j < i THEN link[j] ELSE link[j + 1]
    BY <1>1, <1>2, Removal
  <1>4. \A j \in 1 .. Len(link') : link'[j].len <= setup.pkt_size
    BY <1>2, <1>3
  <1>5. LinkPart'
    BY <1>2, <1>3, <1>4 DEF LinkPart, LinkInv
  <1>6. SenderPart'
    BY <1>1, SenderFrame
  <1>7. ReceiverPart'
    <2>1. link[i] \in Packet
      BY <1>1, <1>2
    <2>. QED BY <1>1, <2>1, ReceivedPackets, ReceiveKeeps, ReceiverFrame
  <1>. QED BY <1>5, <1>6, <1>7, PartsNext

LEMMA TimeoutKeeps == CoreInv /\ Timeout => CoreInv'
  <1>. SUFFICES ASSUME CoreInv, Timeout PROVE CoreInv'
    OBVIOUS
  <1>. SenderPart /\ LinkPart /\ ReceiverPart
    BY Parts
  <1>1. /\ UNCHANGED <<sender, link, started, dec, dret, out, seen>>
        /\ reader' = "closed" /\ rret' = HGAP_ERR_TIMEOUT /\ decoding' = FALSE
    BY DEF Timeout
  <1>2. StartInv'
    BY <1>1 DEF ReceiverPart, StartInv
  <1>3. rret' \in Nat /\ dret' \in Nat /\ out' \in Seq(Bodies)
    BY <1>1 DEF ReceiverPart, HGAP_ERR_TIMEOUT
  <1>4. started' \in BOOLEAN /\ decoding' \in BOOLEAN /\ reader' \in {"open", "closed"}
    BY <1>1, Zenon DEF ReceiverPart
  <1>5. ReceiverPart'
    BY <1>2, <1>3, <1>4 DEF ReceiverPart
  <1>6. SenderPart' /\ LinkPart'
    BY <1>1, SenderFrame, LinkFrame DEF sender
  <1>. QED BY <1>5, <1>6, PartsNext

LEMMA CoreNext == CoreInv /\ [Next]_vars => CoreInv'
  <1>. SUFFICES ASSUME CoreInv, [Next]_vars PROVE CoreInv'
    OBVIOUS
  <1>1. CASE Handwave
    BY <1>1, SalveKeeps DEF Handwave
  <1>2. CASE Teardown
    BY <1>2, SalveKeeps DEF Teardown
  <1>3. CASE UNCHANGED vars
    <2>1. UNCHANGED <<sender, link, receiver>>
      BY <1>3 DEF vars, sender, receiver
    <2>. QED BY <2>1, Parts, SenderFrame, LinkFrame, ReceiverFrame, PartsNext DEF sender
  <1>. QED BY <1>1, <1>2, <1>3, NextChunkKeeps, EmitKeeps, KeepaliveKeeps, RestartKeeps,
              DeliverKeeps, TimeoutKeeps DEF Next, Finished

\* Sender, link and receiver keep CoreInv, the part of TransferInv that also holds if
\* packets are truncated.
THEOREM CoreCorrect == Spec => []CoreInv
  BY CoreInit, CoreNext, PTL DEF Spec

\* The state of both programs and of the link keeps its type.
THEOREM TransferTyped == Spec => []TypeOK
  <1>1. CoreInv => TypeOK
    BY DEF CoreInv
  <1>. QED BY <1>1, CoreCorrect, PTL

\* A chunk leaves send_loop with the redundancy asked for, and not a packet more.
THEOREM RedundancyIsMet == Spec => []RedundancyMet
  <1>1. CoreInv => RedundancyMet
    BY DEF CoreInv
  <1>. QED BY <1>1, CoreCorrect, PTL

\* A receiver that has not seen a BEGIN writes nothing, even if packets are truncated.
THEOREM NothingBeforeBegin == Spec => []NoOutputWithoutBegin
  <1>1. CoreInv => NoOutputWithoutBegin
    BY DEF CoreInv, StartInv, NoOutputWithoutBegin
  <1>. QED BY <1>1, CoreCorrect, PTL

-----------------------------------------------------------------------------
(* What one packet does to the chunk of the decoder.                       *)

LEMMA FirstRead ==
    ASSUME NEW d \in DecoderState, NEW pkt \in Packet, NEW c \in hgap_dec_chunk_init(d, pkt),
           NEW r \in hgap_dec_chunk_read(c, pkt)
    PROVE  r.dec.num = pkt.num
  <1>1. c \in DecoderState /\ c.num = pkt.num /\ ~c.chunk_complete
    BY ChunkInit
  <1>2. r.dec \in DecoderState /\ r.dec.num = c.num
    BY <1>1, ChunkRead, ZenonT(60)
  <1>. QED BY <1>1, <1>2

\* A data packet that is no error is one of the chunk the decoder then works on.
LEMMA ReadNum ==
    ASSUME NEW d \in DecoderState, Consistent(d), NEW pkt \in Packet,
           NEW r \in ReadData(d, pkt), r.ret >= 0
    PROVE  r.dec.num = pkt.num
  <1>1. CASE pkt.num = d.num
    <2>1. \/ r.dec = d
          \/ ~d.chunk_complete /\ r \in hgap_dec_chunk_read(d, pkt)
      BY <1>1 DEF ReadData
    <2>2. ~d.chunk_complete /\ r \in hgap_dec_chunk_read(d, pkt) => r.dec.num = d.num
      BY ChunkRead
    <2>. QED BY <1>1, <2>1, <2>2
  <1>2. CASE pkt.num # d.num
    <2>1. \/ r.ret \in {-HGAP_ERR_INCOMPLETE_CHUNK, -HGAP_ERR_BAD_CHUNK}
          \/ \E c \in hgap_dec_chunk_init(d, pkt) : r \in hgap_dec_chunk_read(c, pkt)
      BY <1>2 DEF ReadData
    <2>2. PICK c \in hgap_dec_chunk_init(d, pkt) : r \in hgap_dec_chunk_read(c, pkt)
      BY <2>1 DEF HGAP_ERR_INCOMPLETE_CHUNK, HGAP_ERR_BAD_CHUNK
    <2>. QED BY <2>2, FirstRead
  <1>. QED BY <1>1, <1>2

LEMMA DecodeNum ==
    ASSUME Consistent(dec), NEW pkt \in Packet, NEW o \in Decode(pkt),
           ~o.stop, hgap_pkt_type(pkt) = "data", o.dec.state = T_DATA
    PROVE  o.dec.num = pkt.num
  <1>. DEFINE u == hgap_decoder_update_state(dec, pkt)
  <1>1. PICK r \in hgap_decoder_read(dec, pkt) :
            \/ r.ret = 0 /\ o = Outcome(r.dec, out, HGAP_SUCCESS, FALSE)
            \/ o = Outcome(r.dec, out, HGAP_SUCCESS, TRUE)
            \/ o = Outcome(r.dec, out, -r.ret, TRUE)
            \/ /\ ~ (r.ret < 0)
               /\ \E e \in hgap_decoder_emit(r.dec, r.ret) :
                    o = IF e.ret = HGAP_SUCCESS
                        THEN Outcome(e.dec, Append(out, e.out), HGAP_SUCCESS, FALSE)
                        ELSE Outcome(e.dec, out, e.ret, TRUE)
    BY DEF Decode
  <1>2. /\ Consistent(r.dec) /\ r.dec \in DecoderState /\ r.ret \in Int
        /\ \/ r.dec = u
           \/ Consistent(u) /\ r \in ReadData(u, pkt)
    BY DecoderRead DEF Consistent
  <1>3. r.dec.state = u.state
    BY <1>2, DataRead
  <1>4. ~ (r.ret < 0) /\ o.dec.num = r.dec.num /\ o.dec.state = r.dec.state
    <2>1. CASE r.ret = 0 /\ o = Outcome(r.dec, out, HGAP_SUCCESS, FALSE)
      BY <2>1 DEF Outcome
    <2>2. CASE o = Outcome(r.dec, out, HGAP_SUCCESS, TRUE) \/ o = Outcome(r.dec, out, -r.ret, TRUE)
      <3>1. o.stop
        BY <2>2 DEF Outcome
      <3>. QED BY <3>1
    <2>3. CASE /\ ~ (r.ret < 0)
               /\ \E e \in hgap_decoder_emit(r.dec, r.ret) :
                    o = IF e.ret = HGAP_SUCCESS
                        THEN Outcome(e.dec, Append(out, e.out), HGAP_SUCCESS, FALSE)
                        ELSE Outcome(e.dec, out, e.ret, TRUE)
      <3>1. PICK e \in hgap_decoder_emit(r.dec, r.ret) : o.dec = e.dec
        BY <2>3 DEF Outcome
      <3>2. e.dec = r.dec \/ e.dec = [r.dec EXCEPT !.chunk_emitted = TRUE]
        BY <1>2, DecoderEmit
      <3>. QED BY <1>2, <2>3, <3>1, <3>2 DEF DecoderState
    <2>. QED BY <1>1, <2>1, <2>2, <2>3
  <1>5. u \in DecoderState /\ Consistent(u)
    <2>1. u \in DecoderState /\ u = [dec EXCEPT !.state = u.state]
      BY UpdateState DEF Consistent
    <2>. HIDE DEF u
    <2>. QED BY <2>1 DEF Consistent, DecoderState
  <1>6. r \in ReadData(u, pkt)
    <2>1. u.state = T_DATA
      BY <1>3, <1>4
    <2>. HIDE DEF u
    <2>. QED BY <2>1 DEF hgap_decoder_read, T_DATA, T_STOPPED, u
  <1>. QED BY <1>2, <1>4, <1>5, <1>6, ReadNum

\* A round of the receiver: its chunk stays as it is and nothing is written, or the
\* chunk gets the packet and is written at once if that completes it.
LEMMA ReceiveCases ==
    ASSUME ReceiverPart, NEW pkt \in Packet, Receive(pkt)
    PROVE  \/ /\ out' = out /\ (decoding' => decoding)
              /\ dec' = [dec EXCEPT !.state = dec'.state]
              /\ \/ seen' = seen
                 \/ /\ seen' = seen \union {pkt.body} /\ hgap_pkt_type(pkt) = "data"
                    /\ decoding' => dec.num = pkt.num
           \/ /\ decoding /\ hgap_pkt_type(pkt) = "data" /\ seen' = seen \union {pkt.body}
              /\ \E c \in DecoderState : \E r \in hgap_dec_chunk_read(c, pkt) :
                  /\ Continued(dec, pkt, c) /\ ~c.chunk_complete /\ ~c.chunk_emitted
                  /\ c.num = pkt.num
                  /\ \/ out' = out /\ dec' = r.dec
                     \/ /\ out' = Append(out, Emitted(r.dec)) /\ r.dec.chunk_complete
                        /\ dec' = [r.dec EXCEPT !.chunk_emitted = TRUE]
  <1>0. /\ Consistent(dec) /\ (decoding /\ dec.chunk_complete => dec.chunk_emitted)
        /\ dec \in DecoderState
    BY DEF ReceiverPart, StartInv, Consistent
  <1>1. PICK o \in IF decoding THEN Decode(pkt) ELSE {Outcome(dec, out, dret, TRUE)} :
            /\ dec' = o.dec /\ out' = o.out
            /\ decoding' = (~o.stop /\ reader' = "open")
            /\ seen' = IF decoding /\ o.dec.state = T_DATA /\ hgap_pkt_type(pkt) = "data"
                       THEN seen \union {pkt.body} ELSE seen
    BY DEF Receive
  <1>2. CASE ~decoding
    <2>1. o = Outcome(dec, out, dret, TRUE)
      BY <1>1, <1>2
    <2>2. o.dec = dec /\ o.out = out /\ o.stop = TRUE
      BY <2>1 DEF Outcome
    <2>3. dec = [dec EXCEPT !.state = dec.state]
      BY <1>0 DEF DecoderState
    <2>. QED BY <1>1, <1>2, <2>2, <2>3
  <1>3. CASE decoding
    <2>0. o \in Decode(pkt)
      BY <1>1, <1>3
    <2>1. \/ o.out = out /\ o.dec = [dec EXCEPT !.state = o.dec.state]
          \/ /\ hgap_pkt_type(pkt) = "data" /\ dec.state # T_NEW
             /\ \E c \in DecoderState : \E r \in hgap_dec_chunk_read(c, pkt) :
                  /\ Continued(dec, pkt, c) /\ ~c.chunk_complete /\ ~c.chunk_emitted
                  /\ c.num = pkt.num /\ o.dec.state = T_DATA
                  /\ \/ o.out = out /\ o.dec = r.dec /\ (o.stop \/ ~r.dec.chunk_complete)
                     \/ /\ o.out = Append(out, Emitted(r.dec)) /\ r.dec.chunk_complete
                        /\ o.dec = [r.dec EXCEPT !.chunk_emitted = TRUE]
      BY <1>0, <1>3, <2>0, DecodeCases
    <2>2. CASE o.out = out /\ o.dec = [dec EXCEPT !.state = o.dec.state]
      <3>1. o.dec.num = dec.num
        BY <1>0, <2>2 DEF DecoderState
      <3>2. ~o.stop /\ hgap_pkt_type(pkt) = "data" /\ o.dec.state = T_DATA => dec.num = pkt.num
        BY <1>0, <2>0, <3>1, DecodeNum
      <3>. QED BY <1>1, <1>3, <2>2, <3>2
    <2>3. CASE ~ (o.out = out /\ o.dec = [dec EXCEPT !.state = o.dec.state])
      <3>1. o.dec.state = T_DATA /\ hgap_pkt_type(pkt) = "data"
        BY <2>1, <2>3
      <3>2. seen' = seen \union {pkt.body}
        BY <1>1, <1>3, <3>1
      <3>3. dec' = o.dec /\ out' = o.out
        BY <1>1
      <3>. QED BY <1>3, <2>1, <2>3, <3>1, <3>2, <3>3, Zenon
    <2>. QED BY <2>2, <2>3
  <1>. QED BY <1>2, <1>3

-----------------------------------------------------------------------------
(* Without truncation: the content of the chunks.                          *)

LEMMA ChunkIndex == \A r, k, m : Chunk(r, k)[2] = k /\ (Chunk(r, k) = Chunk(r, m) <=> k = m)
  BY DEF Chunk

\* Blocks of one chunk give this chunk.
LEMMA Reconstruct ==
    ASSUME NEW blocks, blocks # {}, NEW x \in Contents, \A b \in blocks : b.body = x
    PROVE  wirehair_reconstruct(blocks) = x
  <1>1. \A y \in Contents : (\A b \in blocks : b.body = y) => y = x
    OBVIOUS
  <1>2. \E y \in Contents : \A b \in blocks : b.body = y
    OBVIOUS
  <1>3. (CHOOSE y \in Contents : \A b \in blocks : b.body = y) = x
    BY <1>1, <1>2
  <1>. QED BY <1>2, <1>3 DEF wirehair_reconstruct

\* A genuine data packet.
GenuinePkt(pkt) == pkt.num \in 0 .. NumChunks - 1 /\ pkt.body = Chunk(1, pkt.num)

LEMMA NumOfChunk ==
    ASSUME setup \in Setups, NEW k \in 0 .. NumChunks - 1
    PROVE  k # HGAP_NO_MORE_CHUNK /\ Chunk(1, k) \in Contents /\ Chunk(1, k) # NULL
  <1>1. NumChunks < NumModulus - 16 /\ NumChunks \in Nat /\ 1 \in 1 .. setup.Runs
    BY SetupFacts, ChunkFacts, Reserved
  <1>2. k # HGAP_NO_MORE_CHUNK
    BY <1>1, NumModulusAssumption DEF HGAP_NO_MORE_CHUNK
  <1>3. Chunk(1, k) \in Contents
    BY <1>1, ChunkFacts
  <1>. QED BY <1>2, <1>3, ContentsAssumption

\* A decoder with blocks of one chunk keeps them so with a packet of that chunk.
LEMMA PureRead ==
    ASSUME setup \in Setups, NEW c \in DecoderState, NEW pkt \in Packet, GenuinePkt(pkt),
           NEW r \in hgap_dec_chunk_read(c, pkt),
           ~c.chunk_complete, ~c.chunk_emitted, c.num = pkt.num, PureDecoder(c)
    PROVE  /\ PureDecoder(r.dec) /\ r.dec.num = pkt.num /\ r.dec \in DecoderState
           /\ ~r.dec.chunk_emitted
           /\ r.dec.chunk_complete => Emitted(r.dec) = Chunk(1, pkt.num)
  <1>1. /\ r.dec \in DecoderState
        /\ r.ret > 0 <=> r.dec.chunk_complete
        /\ r.dec.num = c.num /\ r.dec.len = c.len
        /\ r.dec.dsize = c.dsize /\ r.dec.chunk_emitted = c.chunk_emitted
        /\ \/ r.dec.data = c.data
           \/ c.data = NULL /\ IsSmall(c) /\ r.dec.data = pkt.body
        /\ \/ r.dec.blocks = c.blocks
           \/ r.dec.blocks = c.blocks \union {[id |-> pkt.id, body |-> pkt.body]}
        /\ r.ret > 0 => IF IsSmall(c) THEN r.dec.data # NULL \/ pkt.body = NULL
                        ELSE c.data # NULL \/ [id |-> pkt.id, body |-> pkt.body] \in r.dec.blocks
    BY ChunkRead
  <1>. DEFINE x == Chunk(1, pkt.num)
  <1>2. /\ pkt.num \in 0 .. NumChunks - 1 /\ pkt.body = x /\ x \in Contents /\ x # NULL
        /\ pkt.num # HGAP_NO_MORE_CHUNK
    BY NumOfChunk DEF GenuinePkt
  <1>. HIDE DEF x
  <1>3. IF IsSmall(c) THEN c.data = x \/ c.data = NULL
        ELSE c.data = NULL /\ \A b \in c.blocks : b.body = x
    BY <1>2 DEF PureDecoder, NoChunk, x
  <1>4. IsSmall(r.dec) <=> IsSmall(c)
    BY <1>1 DEF IsSmall
  <1>5. CASE IsSmall(c)
    <2>1. r.dec.data = x \/ (r.dec.data = NULL /\ ~r.dec.chunk_complete)
      BY <1>1, <1>2, <1>3, <1>5
    <2>. QED BY <1>1, <1>2, <1>4, <1>5, <2>1 DEF PureDecoder, Emitted, x
  <1>6. CASE ~IsSmall(c)
    <2>1. r.dec.data = NULL /\ \A b \in r.dec.blocks : b.body = x
      BY <1>1, <1>2, <1>3, <1>6
    <2>2. r.dec.chunk_complete => r.dec.blocks # {}
      BY <1>1, <1>3, <1>6
    <2>3. r.dec.chunk_complete => wirehair_reconstruct(r.dec.blocks) = x
      BY <1>2, <2>1, <2>2, Reconstruct
    <2>. QED BY <1>1, <1>2, <1>4, <1>6, <2>1, <2>2, <2>3 DEF PureDecoder, Emitted, x
  <1>. QED BY <1>5, <1>6

\* A round of the receiver with a genuine packet, or one that is no data.
LEMMA PureReceive ==
    ASSUME ReceiverPart, setup \in Setups, setup' = setup, PureDecoder(dec),
           NEW pkt \in Packet, Receive(pkt), hgap_pkt_type(pkt) = "data" => GenuinePkt(pkt)
    PROVE  /\ PureDecoder(dec)'
           /\ \/ /\ out' = out /\ (decoding' => decoding) /\ dec'.num = dec.num
                 /\ dec'.chunk_emitted = dec.chunk_emitted
                 /\ \/ seen' = seen
                    \/ /\ seen' = seen \union {pkt.body} /\ hgap_pkt_type(pkt) = "data"
                       /\ decoding' => dec.num = pkt.num
              \/ /\ decoding /\ hgap_pkt_type(pkt) = "data" /\ seen' = seen \union {pkt.body}
                 /\ dec'.num = pkt.num
                 /\ pkt.num = dec.num => ~dec.chunk_complete
                 /\ pkt.num # dec.num => dec.chunk_emitted
                 /\ \/ out' = out /\ ~dec'.chunk_emitted
                    \/ out' = Append(out, Chunk(1, pkt.num)) /\ dec'.chunk_emitted
  <1>0. /\ dec \in DecoderState /\ (decoding /\ dec.chunk_complete => dec.chunk_emitted)
        /\ dec.chunk_emitted => dec.chunk_complete
        /\ NumChunks' = NumChunks
    BY DEF ReceiverPart, StartInv, NumChunks
  <1>1. CASE /\ out' = out /\ (decoding' => decoding)
             /\ dec' = [dec EXCEPT !.state = dec'.state]
             /\ \/ seen' = seen
                \/ /\ seen' = seen \union {pkt.body} /\ hgap_pkt_type(pkt) = "data"
                   /\ decoding' => dec.num = pkt.num
    <2>1. /\ dec'.num = dec.num /\ dec'.len = dec.len /\ dec'.dsize = dec.dsize
          /\ dec'.data = dec.data /\ dec'.blocks = dec.blocks
          /\ dec'.chunk_complete = dec.chunk_complete /\ dec'.chunk_emitted = dec.chunk_emitted
      BY <1>0, <1>1 DEF DecoderState
    <2>2. PureDecoder(dec)'
      BY <1>0, <2>1 DEF PureDecoder, NoChunk, IsSmall
    <2>. QED BY <1>1, <2>1, <2>2
  <1>2. CASE /\ decoding /\ hgap_pkt_type(pkt) = "data" /\ seen' = seen \union {pkt.body}
             /\ \E c \in DecoderState : \E r \in hgap_dec_chunk_read(c, pkt) :
                  /\ Continued(dec, pkt, c) /\ ~c.chunk_complete /\ ~c.chunk_emitted
                  /\ c.num = pkt.num
                  /\ \/ out' = out /\ dec' = r.dec
                     \/ /\ out' = Append(out, Emitted(r.dec)) /\ r.dec.chunk_complete
                        /\ dec' = [r.dec EXCEPT !.chunk_emitted = TRUE]
    <2>1. PICK c \in DecoderState : \E r \in hgap_dec_chunk_read(c, pkt) :
                  /\ Continued(dec, pkt, c) /\ ~c.chunk_complete /\ ~c.chunk_emitted
                  /\ c.num = pkt.num
                  /\ \/ out' = out /\ dec' = r.dec
                     \/ /\ out' = Append(out, Emitted(r.dec)) /\ r.dec.chunk_complete
                        /\ dec' = [r.dec EXCEPT !.chunk_emitted = TRUE]
      BY <1>2
    <2>2. PICK r \in hgap_dec_chunk_read(c, pkt) :
                  /\ Continued(dec, pkt, c) /\ ~c.chunk_complete /\ ~c.chunk_emitted
                  /\ c.num = pkt.num
                  /\ \/ out' = out /\ dec' = r.dec
                     \/ /\ out' = Append(out, Emitted(r.dec)) /\ r.dec.chunk_complete
                        /\ dec' = [r.dec EXCEPT !.chunk_emitted = TRUE]
      BY <2>1
    <2>3. GenuinePkt(pkt) /\ pkt.num \in 0 .. NumChunks - 1 /\ pkt.num # HGAP_NO_MORE_CHUNK
      BY <1>2, NumOfChunk DEF GenuinePkt
    <2>4. PureDecoder(c)
      <3>1. CASE pkt.num = dec.num /\ ~dec.chunk_complete /\ c = [dec EXCEPT !.state = T_DATA]
        <4>1. /\ c.num = dec.num /\ c.len = dec.len /\ c.dsize = dec.dsize
              /\ c.data = dec.data /\ c.blocks = dec.blocks
              /\ c.chunk_complete = dec.chunk_complete
          BY <1>0, <3>1 DEF DecoderState
        <4>. QED BY <2>3, <3>1, <4>1 DEF PureDecoder, NoChunk, IsSmall
      <3>2. CASE \E u \in DecoderState : c \in hgap_dec_chunk_init(u, pkt)
        <4>1. c.data = NULL /\ (IsSmall(c) \/ c.blocks = {})
          BY <3>2, ChunkInit
        <4>. QED BY <2>2, <2>3, <4>1 DEF PureDecoder
      <3>. QED BY <2>2, <3>1, <3>2 DEF Continued
    <2>5. /\ pkt.num = dec.num => ~dec.chunk_complete
          /\ pkt.num # dec.num => dec.chunk_emitted
      BY <1>0, <1>2, <2>2 DEF Continued
    <2>6. /\ PureDecoder(r.dec) /\ r.dec.num = pkt.num /\ r.dec \in DecoderState
          /\ ~r.dec.chunk_emitted
          /\ r.dec.chunk_complete => Emitted(r.dec) = Chunk(1, pkt.num)
      BY <2>2, <2>3, <2>4, PureRead
    <2>7. CASE out' = out /\ dec' = r.dec
      <3>1. PureDecoder(dec)'
        BY <1>0, <2>6, <2>7 DEF PureDecoder, NoChunk, IsSmall
      <3>. QED BY <1>2, <2>5, <2>6, <2>7, <3>1
    <2>8. CASE /\ out' = Append(out, Emitted(r.dec)) /\ r.dec.chunk_complete
               /\ dec' = [r.dec EXCEPT !.chunk_emitted = TRUE]
      <3>1. /\ dec'.num = r.dec.num /\ dec'.len = r.dec.len /\ dec'.dsize = r.dec.dsize
            /\ dec'.data = r.dec.data /\ dec'.blocks = r.dec.blocks
            /\ dec'.chunk_complete = r.dec.chunk_complete /\ dec'.chunk_emitted
        BY <2>6, <2>8 DEF DecoderState
      <3>2. PureDecoder(dec)'
        BY <1>0, <2>6, <3>1 DEF PureDecoder, NoChunk, IsSmall
      <3>. QED BY <1>2, <2>5, <2>6, <2>8, <3>1, <3>2
    <2>. QED BY <2>2, <2>7, <2>8
  <1>. QED BY <1>1, <1>2, ReceiveCases

-----------------------------------------------------------------------------
(* Without truncation: the steps.                                          *)

\* What the sender does to the link: it adds control packets, and packets of the chunk
\* it has read last.
LastChunkPkt(pkt) ==
    hgap_pkt_type(pkt) = "data" => file > 0 /\ pkt.num = file - 1 /\ pkt.body = Chunk(run, file - 1)

LEMMA SenderSteps ==
    ASSUME CoreInv, Handwave \/ Teardown \/ NextChunk \/ EmitPkt \/ Keepalive
    PROVE  /\ UNCHANGED <<setup, run, receiver>> /\ file' >= file
           /\ \/ link' = link
              \/ \E pkt \in Packet : link' = Append(link, pkt) /\ LastChunkPkt(pkt)
  <1>. SenderPart /\ LinkPart /\ ReceiverPart
    BY Parts
  <1>0. setup \in Setups /\ file \in Nat
    BY ChunkFacts DEF SenderPart, ChunkInv
  <1>1. ASSUME NEW num \in {HGAP_BEGIN_BEACON, HGAP_NO_MORE_CHUNK, HGAP_KEEP_ALIVE}
        PROVE  ControlPkt(num) \in Packet /\ LastChunkPkt(ControlPkt(num))
    BY ControlPackets DEF LastChunkPkt
  <1>2. CASE Handwave
    <2>1. /\ UNCHANGED <<setup, run, file, receiver>>
          /\ link' = link \/ link' = Append(link, ControlPkt(HGAP_BEGIN_BEACON))
      BY <1>2 DEF Handwave, Salve, Put
    <2>. QED BY <1>0, <1>1, <2>1
  <1>3. CASE Teardown
    <2>1. /\ UNCHANGED <<setup, run, file, receiver>>
          /\ link' = link \/ link' = Append(link, ControlPkt(HGAP_NO_MORE_CHUNK))
      BY <1>3 DEF Teardown, Salve, Put
    <2>. QED BY <1>0, <1>1, <2>1
  <1>4. CASE Keepalive
    <2>1. /\ UNCHANGED <<setup, run, file, receiver>>
          /\ link' = Append(link, ControlPkt(HGAP_KEEP_ALIVE))
      BY <1>4 DEF Keepalive, sender
    <2>. QED BY <1>0, <1>1, <2>1
  <1>5. CASE NextChunk
    <2>1. UNCHANGED <<setup, run, receiver, link>>
      BY <1>5 DEF NextChunk
    <2>2. file' = file \/ file' = file + 1
      BY <1>5 DEF NextChunk, ReadChunk
    <2>. QED BY <1>0, <2>1, <2>2
  <1>6. CASE EmitPkt
    <2>1. /\ UNCHANGED <<setup, run, file, receiver>> /\ phase = "emit"
          /\ link' = link \/ link' = Append(link, EmittedPkt(chunk))
      BY <1>6 DEF EmitPkt, SendPkt, EmitFails, Put
    <2>2. /\ file > 0 /\ chunk.data = Chunk(run, file - 1) /\ chunk.num = file - 1
          /\ EmittedPkt(chunk).dsize = BlockSize(file - 1) /\ file \in 0 .. NumChunks
          /\ chunk.len \in Nat /\ chunk.pkt_size \in Nat /\ chunk.next_pkt_id \in Nat
          /\ chunk.data \in Contents \union {NULL} /\ chunk.num \in 0 .. NumModulus - 1
      BY <2>1 DEF SenderPart, ChunkInv
    <2>3. BlockSize(file - 1) \in Nat
      BY <1>0, ChunkFacts
    <2>4. EmittedPkt(chunk) = [num |-> chunk.num, size |-> chunk.len, id |-> chunk.next_pkt_id,
                               dsize |-> BlockSize(file - 1), len |-> chunk.pkt_size,
                               body |-> chunk.data]
      BY <2>2 DEF EmittedPkt
    <2>5. EmittedPkt(chunk) \in Packet
      BY <2>2, <2>3, <2>4 DEF Packet, Bodies
    <2>6. EmittedPkt(chunk).num = file - 1 /\ EmittedPkt(chunk).body = Chunk(run, file - 1)
      BY <2>2, <2>4
    <2>. QED BY <1>0, <2>1, <2>2, <2>5, <2>6 DEF LastChunkPkt
  <1>. QED BY <1>2, <1>3, <1>4, <1>5, <1>6

\* The sender keeps what is known of the content and of the order.
LEMMA SendKeepsContent ==
    ASSUME CoreInv, CoreInv', ContentInv, OrderInv, SeenInv,
           Handwave \/ Teardown \/ NextChunk \/ EmitPkt \/ Keepalive
    PROVE  ContentInv' /\ OrderInv' /\ SeenInv'
  <1>. (SenderPart /\ LinkPart /\ ReceiverPart) /\ LinkPart'
    BY Parts DEF CoreInv, LinkPart, TypeOK
  <1>0. /\ setup \in Setups /\ file \in Nat /\ link \in Seq(Packet) /\ link' \in Seq(Packet)
        /\ file \in 0 .. NumChunks /\ NumChunks \in Nat
    BY ChunkFacts DEF SenderPart, LinkPart, LinkInv, ChunkInv
  <1>1. /\ UNCHANGED <<setup, run, receiver>> /\ file' >= file
        /\ \/ link' = link
           \/ \E pkt \in Packet : link' = Append(link, pkt) /\ LastChunkPkt(pkt)
    BY SenderSteps
  <1>2. UNCHANGED <<dec, decoding, out, seen>> /\ NumChunks' = NumChunks
    BY <1>1 DEF receiver, NumChunks
  <1>3. SeenInv'
    BY <1>1, <1>2 DEF SeenInv, NoChunk
  <1>4. ASSUME NEW j \in 1 .. Len(link')
        PROVE  \/ j \in 1 .. Len(link) /\ link'[j] = link[j]
               \/ j > Len(link) /\ LastChunkPkt(link'[j])
    <2>1. CASE link' = link
      BY <2>1
    <2>2. CASE \E pkt \in Packet : link' = Append(link, pkt) /\ LastChunkPkt(pkt)
      <3>1. PICK pkt \in Packet : link' = Append(link, pkt) /\ LastChunkPkt(pkt)
        BY <2>2
      <3>2. /\ Len(link') = Len(link) + 1 /\ link'[Len(link) + 1] = pkt /\ Len(link) \in Nat
            /\ \A i \in 1 .. Len(link) : link'[i] = link[i]
        BY <1>0, <3>1
      <3>3. CASE j = Len(link) + 1
        BY <3>1, <3>2, <3>3
      <3>4. CASE j # Len(link) + 1
        BY <3>2, <3>4
      <3>. QED BY <3>3, <3>4
    <2>. QED BY <1>1, <2>1, <2>2
  <1>5. ContentInv'
    <2>. SUFFICES ASSUME run = 1 PROVE ContentInv'
      BY <1>1 DEF ContentInv
    <2>1. ASSUME NEW j \in 1 .. Len(link'), hgap_pkt_type(link'[j]) = "data"
          PROVE  link'[j].num \in 0 .. NumChunks - 1 /\ link'[j].body = Chunk(1, link'[j].num)
      BY <1>0, <1>4, <2>1 DEF ContentInv, IsData, LastChunkPkt
    <2>2. PureDecoder(dec)'
      BY <1>2 DEF ContentInv, PureDecoder, NoChunk
    <2>. QED BY <1>1, <1>2, <2>1, <2>2 DEF ContentInv, IsData
  <1>6. OrderInv'
    <2>. SUFFICES ASSUME run = 1, setup.Window = 1 PROVE OrderInv'
      BY <1>1 DEF OrderInv
    <2>0. /\ Len(link) \in Nat /\ Len(link') \in Nat /\ file' \in Nat /\ dec.num \in Nat
          /\ \A j \in 1 .. Len(link') : link'[j].num \in Nat
      <3>1. \A j \in 1 .. Len(link') : link'[j] \in Packet
        BY <1>0
      <3>2. file' \in Nat
        <4>1. setup' \in Setups
          BY DEF CoreInv, ChunkInv
        <4>2. NumChunks' \in Nat
          BY <1>0, <1>2
        <4>. QED BY <4>2 DEF CoreInv, TypeOK
      <3>3. dec.num \in Nat
        BY DEF ReceiverPart, StartInv, DecoderState
      <3>4. \A pkt \in Packet : pkt.num \in Nat
        BY DEF Packet
      <3>5. Len(link) \in Nat /\ Len(link') \in Nat
        BY <1>0
      <3>. QED BY <3>1, <3>2, <3>3, <3>4, <3>5
    <2>1. ASSUME NEW j \in 1 .. Len(link'), hgap_pkt_type(link'[j]) = "data"
          PROVE  link'[j].num < file' /\ (~NoChunk(dec) => dec.num <= link'[j].num)
      <3>1. CASE j \in 1 .. Len(link) /\ link'[j] = link[j]
        <4>1. link[j].num < file /\ (~NoChunk(dec) => dec.num <= link[j].num)
          BY <2>1, <3>1 DEF OrderInv, IsData
        <4>. QED BY <1>0, <1>1, <2>0, <3>1, <4>1
      <3>2. CASE j > Len(link) /\ LastChunkPkt(link'[j])
        <4>1. link'[j].num = file - 1
          BY <2>1, <3>2 DEF LastChunkPkt
        <4>2. ~NoChunk(dec) => dec.num < file
          BY DEF OrderInv
        <4>. QED BY <1>0, <1>1, <2>0, <4>1, <4>2
      <3>. QED BY <1>4, <2>1, <3>1, <3>2
    <2>2. ASSUME NEW i \in 1 .. Len(link'), NEW j \in 1 .. Len(link'), i < j,
                 hgap_pkt_type(link'[i]) = "data", hgap_pkt_type(link'[j]) = "data"
          PROVE  link'[i].num <= link'[j].num
      <3>1. CASE j \in 1 .. Len(link)
        <4>1. i \in 1 .. Len(link) /\ link'[i] = link[i] /\ link'[j] = link[j]
          BY <1>4, <2>0, <2>2, <3>1
        <4>. QED BY <2>2, <4>1, <3>1 DEF OrderInv, IsData
      <3>2. CASE ~ (j \in 1 .. Len(link))
        <4>1. file > 0 /\ link'[j].num = file - 1
          BY <1>4, <2>2, <3>2 DEF LastChunkPkt
        <4>2. link'[i].num < file
          BY <1>0, <1>4, <2>2 DEF OrderInv, IsData, LastChunkPkt
        <4>. QED BY <1>0, <2>0, <4>1, <4>2
      <3>. QED BY <3>1, <3>2
    <2>3. ~NoChunk(dec)' => dec'.num < file'
      BY <1>0, <1>1, <1>2, <2>0 DEF OrderInv, NoChunk
    <2>. QED BY <1>1, <1>2, <2>1, <2>2, <2>3 DEF OrderInv, IsData, NoChunk
  <1>. QED BY <1>3, <1>5, <1>6

\* What is left of the link after a delivery is in the same order.
LEMMA Remaining ==
    ASSUME NEW i \in 1 .. Len(link), link \in Seq(Packet), link' = RemoveAt(link, i)
    PROVE  /\ \A j \in 1 .. Len(link') : \E k \in 1 .. Len(link) : k >= j /\ link'[j] = link[k]
           /\ i = 1 => \A j \in 1 .. Len(link') : j + 1 \in 1 .. Len(link) /\ link'[j] = link[j + 1]
  <1>1. /\ Len(link) \in Nat /\ Len(link') = Len(link) - 1
        /\ \A j \in 1 .. Len(link') : link'[j] = IF j < i THEN link[j] ELSE link[j + 1]
    BY Removal
  <1>2. ASSUME NEW j \in 1 .. Len(link')
        PROVE  \E k \in 1 .. Len(link) : k >= j /\ link'[j] = link[k]
    <2>1. j \in 1 .. Len(link) /\ j + 1 \in 1 .. Len(link) /\ j >= j /\ j + 1 >= j
      BY <1>1
    <2>. QED BY <1>1, <2>1
  <1>. QED BY <1>1, <1>2

\* A delivery keeps the content genuine.
LEMMA DeliverContent ==
    ASSUME CoreInv, NoTruncation, ContentInv, run = 1,
           NEW i \in 1 .. Len(link), link' = RemoveAt(link, i), UNCHANGED sender,
           IF reader = "open" THEN Receive(Received(link[i], rcv_pkt_size)) ELSE UNCHANGED receiver
    PROVE  /\ ContentInv'
           /\ link[i] \in Packet /\ (IsData(i) => GenuinePkt(link[i]))
           /\ Received(link[i], rcv_pkt_size) = link[i]
  <1>. SenderPart /\ LinkPart /\ ReceiverPart
    BY Parts
  <1>0. /\ setup \in Setups /\ link \in Seq(Packet) /\ setup' = setup /\ run' = run
        /\ NumChunks' = NumChunks
    BY DEF SenderPart, LinkPart, LinkInv, ChunkInv, sender, NumChunks
  <1>1. link[i] \in Packet /\ (IsData(i) => GenuinePkt(link[i]))
    BY <1>0 DEF ContentInv, GenuinePkt
  <1>2. Received(link[i], rcv_pkt_size) = link[i]
    <2>1. link[i].len <= setup.pkt_size /\ setup.pkt_size <= rcv_pkt_size
      BY <1>0 DEF LinkPart, LinkInv, NoTruncation
    <2>2. link[i].len \in Nat /\ setup.pkt_size \in Nat /\ rcv_pkt_size \in Nat
      BY <1>0, <1>1, SetupFacts, TransferAssumption DEF Packet
    <2>. QED BY <2>1, <2>2 DEF Received
  <1>3. ASSUME NEW j \in 1 .. Len(link'), hgap_pkt_type(link'[j]) = "data"
        PROVE  link'[j].num \in 0 .. NumChunks - 1 /\ link'[j].body = Chunk(1, link'[j].num)
    BY <1>0, <1>3, Remaining DEF ContentInv, IsData
  <1>4. PureDecoder(dec)'
    <2>1. CASE reader = "open"
      BY <1>0, <1>1, <1>2, <2>1, PureReceive DEF ContentInv, IsData
    <2>2. CASE reader # "open"
      BY <1>0, <2>2 DEF ContentInv, PureDecoder, NoChunk, receiver
    <2>. QED BY <2>1, <2>2
  <1>5. \A j \in 1 .. Len(out') : \E k \in 0 .. NumChunks - 1 : out'[j] = Chunk(1, k)
    <2>0. /\ out \in Seq(Bodies) /\ Len(out) \in Nat
          /\ \A j \in 1 .. Len(out) : \E k \in 0 .. NumChunks - 1 : out[j] = Chunk(1, k)
      BY DEF ReceiverPart, ContentInv
    <2>1. \/ out' = out
          \/ out' = Append(out, Chunk(1, link[i].num)) /\ IsData(i)
      BY <1>0, <1>1, <1>2, PureReceive DEF ContentInv, IsData, receiver
    <2>2. CASE out' = Append(out, Chunk(1, link[i].num)) /\ IsData(i)
      <3>1. link[i].num \in 0 .. NumChunks - 1
        BY <1>1, <2>2 DEF GenuinePkt
      <3>2. /\ Len(out') = Len(out) + 1 /\ out'[Len(out) + 1] = Chunk(1, link[i].num)
            /\ \A j \in 1 .. Len(out) : out'[j] = out[j]
        BY <2>0, <2>2
      <3>3. ASSUME NEW j \in 1 .. Len(out')
            PROVE  \E k \in 0 .. NumChunks - 1 : out'[j] = Chunk(1, k)
        <4>1. CASE j = Len(out) + 1
          BY <3>1, <3>2, <4>1
        <4>2. CASE j # Len(out) + 1
          <5>1. j \in 1 .. Len(out)
            BY <2>0, <3>2, <4>2
          <5>. QED BY <2>0, <3>2, <5>1
        <4>. QED BY <4>1, <4>2
      <3>. QED BY <3>3
    <2>. QED BY <2>0, <2>1, <2>2
  <1>6. ContentInv'
    BY <1>0, <1>3, <1>4, <1>5 DEF ContentInv, IsData
  <1>. QED BY <1>1, <1>2, <1>6

\* A delivery in order keeps the order, and leaves no chunk behind.
LEMMA DeliverOrder ==
    ASSUME CoreInv, NoTruncation, ContentInv, OrderInv, SeenInv, run = 1, setup.Window = 1,
           1 \in 1 .. Len(link), link' = RemoveAt(link, 1), UNCHANGED sender,
           IF reader = "open" THEN Receive(Received(link[1], rcv_pkt_size)) ELSE UNCHANGED receiver
    PROVE  OrderInv' /\ SeenInv'
  <1>. SenderPart /\ LinkPart /\ ReceiverPart
    BY Parts
  <1>. DEFINE pkt == link[1]
  <1>0. /\ setup \in Setups /\ link \in Seq(Packet) /\ Len(link) \in Nat
        /\ setup' = setup /\ run' = run /\ file' = file /\ NumChunks' = NumChunks
        /\ dec \in DecoderState /\ (decoding /\ dec.chunk_complete => dec.chunk_emitted)
        /\ dec.chunk_emitted => dec.chunk_complete
        /\ out \in Seq(Bodies) /\ Len(out) \in Nat
    BY DEF SenderPart, LinkPart, LinkInv, ChunkInv, sender, NumChunks, ReceiverPart, StartInv
  <1>1. /\ pkt \in Packet /\ (hgap_pkt_type(pkt) = "data" => GenuinePkt(pkt))
        /\ Received(pkt, rcv_pkt_size) = pkt
    BY DeliverContent DEF IsData
  <1>2. \A j \in 1 .. Len(link') : j + 1 \in 1 .. Len(link) /\ link'[j] = link[j + 1]
    BY <1>0, Remaining
  <1>3. Len(link') = Len(link) - 1
    BY <1>0, Removal
  <1>. DEFINE
        Kept == /\ out' = out /\ (decoding' => decoding) /\ dec'.num = dec.num
                /\ dec'.chunk_emitted = dec.chunk_emitted
                /\ \/ seen' = seen
                   \/ /\ seen' = seen \union {pkt.body} /\ hgap_pkt_type(pkt) = "data"
                      /\ decoding' => dec.num = pkt.num
        Taken == /\ decoding /\ hgap_pkt_type(pkt) = "data" /\ seen' = seen \union {pkt.body}
                 /\ dec'.num = pkt.num
                 /\ pkt.num = dec.num => ~dec.chunk_complete
                 /\ pkt.num # dec.num => dec.chunk_emitted
                 /\ \/ out' = out /\ ~dec'.chunk_emitted
                    \/ out' = Append(out, Chunk(1, pkt.num)) /\ dec'.chunk_emitted
  <1>4. Kept \/ Taken
    <2>1. CASE reader = "open"
      <3>1. PureDecoder(dec) /\ Receive(pkt)
        BY <1>1, <2>1 DEF ContentInv
      <3>. HIDE DEF pkt
      <3>. QED BY <1>0, <1>1, <3>1, PureReceive
    <2>2. CASE reader # "open"
      BY <2>2 DEF receiver
    <2>. QED BY <2>1, <2>2
  \* A data packet is of the chunk of the decoder, or of a later one.
  <1>5. hgap_pkt_type(pkt) = "data" =>
            /\ pkt.num \in 0 .. NumChunks - 1 /\ pkt.num # HGAP_NO_MORE_CHUNK /\ pkt.num < file
            /\ pkt.body = Chunk(1, pkt.num) /\ (~NoChunk(dec) => dec.num <= pkt.num)
            /\ \A j \in 2 .. Len(link) : IsData(j) => pkt.num <= link[j].num
    <2>. SUFFICES ASSUME hgap_pkt_type(pkt) = "data"
                  PROVE  /\ pkt.num \in 0 .. NumChunks - 1 /\ pkt.num # HGAP_NO_MORE_CHUNK
                         /\ pkt.num < file /\ pkt.body = Chunk(1, pkt.num)
                         /\ ~NoChunk(dec) => dec.num <= pkt.num
                         /\ \A j \in 2 .. Len(link) : IsData(j) => pkt.num <= link[j].num
      OBVIOUS
    <2>1. IsData(1)
      BY DEF IsData
    <2>2. pkt.num \in 0 .. NumChunks - 1 /\ pkt.body = Chunk(1, pkt.num)
      BY <1>1 DEF GenuinePkt
    <2>3. pkt.num # HGAP_NO_MORE_CHUNK
      BY <1>0, <2>2, NumOfChunk
    <2>4. pkt.num < file /\ (~NoChunk(dec) => dec.num <= pkt.num)
      BY <2>1 DEF OrderInv
    <2>5. \A j \in 2 .. Len(link) : IsData(j) => pkt.num <= link[j].num
      BY <1>0, <2>1 DEF OrderInv
    <2>. QED BY <2>2, <2>3, <2>4, <2>5
  <1>6. dec.num \in Nat /\ \A k \in 0 .. NumChunks - 1 : k \in Nat
    BY <1>0, ChunkFacts DEF DecoderState
  \* What has been written before.
  <1>7. \A j \in 1 .. Len(out) : /\ out[j][2] \in Nat /\ out[j][2] <= dec.num
                                 /\ out[j][2] = dec.num => dec.chunk_emitted
                                 /\ ~NoChunk(dec)
    <2>. SUFFICES ASSUME NEW j \in 1 .. Len(out)
                  PROVE  /\ out[j][2] \in Nat /\ out[j][2] <= dec.num
                         /\ out[j][2] = dec.num => dec.chunk_emitted
                         /\ ~NoChunk(dec)
      OBVIOUS
    <2>1. PICK k \in 0 .. NumChunks - 1 : out[j] = Chunk(1, k)
      BY DEF ContentInv
    <2>2. out[j][2] \in Nat
      BY <1>6, <2>1, ChunkIndex
    <2>3. ~NoChunk(dec)
      BY <1>0 DEF OrderInv
    <2>. QED BY <2>2, <2>3 DEF OrderInv
  <1>. HIDE DEF pkt
  \* The packets still in flight.
  <1>8. /\ \A j \in 1 .. Len(link') : hgap_pkt_type(link'[j]) = "data" =>
             /\ link'[j].num < file'
             /\ ~NoChunk(dec) => dec.num <= link'[j].num
             /\ hgap_pkt_type(pkt) = "data" => pkt.num <= link'[j].num
        /\ \A j, k \in 1 .. Len(link') :
             j < k /\ hgap_pkt_type(link'[j]) = "data" /\ hgap_pkt_type(link'[k]) = "data"
             => link'[j].num <= link'[k].num
    <2>1. ASSUME NEW j \in 1 .. Len(link'), hgap_pkt_type(link'[j]) = "data"
          PROVE  /\ link'[j].num < file'
                 /\ ~NoChunk(dec) => dec.num <= link'[j].num
                 /\ hgap_pkt_type(pkt) = "data" => pkt.num <= link'[j].num
      <3>1. j + 1 \in 1 .. Len(link) /\ link'[j] = link[j + 1] /\ IsData(j + 1)
        BY <1>2, <2>1 DEF IsData
      <3>2. j + 1 \in 2 .. Len(link)
        BY <1>0, <1>3
      <3>. QED BY <1>0, <1>5, <3>1, <3>2 DEF OrderInv
    <2>2. ASSUME NEW j \in 1 .. Len(link'), NEW k \in 1 .. Len(link'), j < k,
                 hgap_pkt_type(link'[j]) = "data", hgap_pkt_type(link'[k]) = "data"
          PROVE  link'[j].num <= link'[k].num
      <3>1. /\ j + 1 \in 1 .. Len(link) /\ link'[j] = link[j + 1] /\ IsData(j + 1)
            /\ k + 1 \in 1 .. Len(link) /\ link'[k] = link[k + 1] /\ IsData(k + 1)
        BY <1>2, <2>2 DEF IsData
      <3>2. j + 1 < k + 1
        BY <1>0, <1>3, <2>2
      <3>. QED BY <3>1, <3>2 DEF OrderInv
    <2>. QED BY <2>1, <2>2
  \* What the decoder has been given before.
  <1>9. \A c \in seen : \E k \in 0 .. NumChunks - 1 : c = Chunk(1, k) /\ c[2] = k
    BY ChunkIndex DEF SeenInv
  <1>10. CASE Kept
    <2>0. NoChunk(dec)' <=> NoChunk(dec)
      BY <1>10 DEF NoChunk
    <2>1. OrderInv'
      BY <1>0, <1>8, <1>10, <2>0 DEF OrderInv, IsData
    <2>2. SeenInv'
      <3>1. CASE seen' = seen
        BY <1>0, <1>10, <2>0, <3>1 DEF SeenInv
      <3>2. CASE /\ seen' = seen \union {pkt.body} /\ hgap_pkt_type(pkt) = "data"
                 /\ decoding' => dec.num = pkt.num
        <4>1. /\ pkt.num \in 0 .. NumChunks - 1 /\ pkt.num # HGAP_NO_MORE_CHUNK
              /\ pkt.body = Chunk(1, pkt.num) /\ pkt.body[2] = pkt.num
              /\ ~NoChunk(dec) => dec.num <= pkt.num
          BY <1>5, <3>2, ChunkIndex
        <4>2. NoChunk(dec) => ~decoding'
          BY <3>2, <4>1 DEF NoChunk
        <4>3. \A c \in seen' : \E k \in 0 .. NumChunks - 1 : c = Chunk(1, k)
          BY <1>9, <3>2, <4>1
        <4>4. ASSUME decoding', NEW c \in seen' PROVE c[2] <= dec.num
          <5>1. CASE c \in seen
            BY <1>10, <4>4, <5>1 DEF SeenInv
          <5>2. CASE c = pkt.body
            BY <1>6, <3>2, <4>1, <4>4, <5>2
          <5>. QED BY <3>2, <4>4, <5>1, <5>2
        <4>5. ASSUME ~NoChunk(dec), NEW c \in seen', c[2] < dec.num
              PROVE  \E j \in 1 .. Len(out) : out[j] = c
          <5>1. c # pkt.body
            BY <1>6, <4>1, <4>5
          <5>2. c \in seen
            BY <3>2, <4>5, <5>1
          <5>. QED BY <4>5, <5>2 DEF SeenInv
        <4>. QED BY <1>0, <1>10, <2>0, <4>2, <4>3, <4>4, <4>5 DEF SeenInv
      <3>. QED BY <1>10, <3>1, <3>2
    <2>. QED BY <2>1, <2>2
  <1>11. CASE Taken
    <2>0. /\ pkt.num \in 0 .. NumChunks - 1 /\ pkt.num # HGAP_NO_MORE_CHUNK /\ pkt.num < file
          /\ pkt.body = Chunk(1, pkt.num) /\ pkt.body[2] = pkt.num
          /\ ~NoChunk(dec) => dec.num <= pkt.num
          /\ pkt.num \in Nat /\ ~NoChunk(dec)' /\ dec'.num = pkt.num
      BY <1>5, <1>6, <1>11, ChunkIndex DEF NoChunk
    \* The chunk of this packet has not been written.
    <2>1. \A j \in 1 .. Len(out) : out[j][2] < pkt.num
      BY <1>0, <1>6, <1>7, <1>11, <2>0
    <2>2. /\ Len(out') \in Nat
          /\ \A j \in 1 .. Len(out) : j \in 1 .. Len(out') /\ out'[j] = out[j]
          /\ \A j \in 1 .. Len(out') :
               \/ j \in 1 .. Len(out)
               \/ j = Len(out) + 1 /\ out'[j] = Chunk(1, pkt.num) /\ dec'.chunk_emitted
          /\ dec'.chunk_emitted => /\ Len(out) + 1 \in 1 .. Len(out')
                                   /\ out'[Len(out) + 1] = Chunk(1, pkt.num)
      <3>1. CASE out' = out /\ ~dec'.chunk_emitted
        BY <1>0, <3>1
      <3>2. CASE out' = Append(out, Chunk(1, pkt.num)) /\ dec'.chunk_emitted
        <4>1. /\ Len(out') = Len(out) + 1 /\ out'[Len(out) + 1] = Chunk(1, pkt.num)
              /\ \A j \in 1 .. Len(out) : out'[j] = out[j]
          BY <1>0, <3>2
        <4>2. \A j \in 1 .. Len(out') : j \in 1 .. Len(out) \/ j = Len(out) + 1
          BY <1>0, <4>1
        <4>3. Len(out') \in Nat /\ Len(out) + 1 \in 1 .. Len(out')
              /\ \A j \in 1 .. Len(out) : j \in 1 .. Len(out')
          BY <1>0, <4>1
        <4>. QED BY <3>2, <4>1, <4>2, <4>3
      <3>. QED BY <1>11, <3>1, <3>2
    <2>3. OrderInv'
      <3>1. ASSUME NEW j \in 1 .. Len(out')
            PROVE  out'[j][2] <= pkt.num /\ (out'[j][2] = pkt.num => dec'.chunk_emitted)
        <4>1. CASE j \in 1 .. Len(out)
          <5>1. out'[j][2] \in Nat /\ out'[j][2] < pkt.num
            BY <1>7, <2>1, <2>2, <4>1
          <5>. QED BY <2>0, <5>1
        <4>2. CASE out'[j] = Chunk(1, pkt.num) /\ dec'.chunk_emitted
          BY <2>0, <4>2, ChunkIndex
        <4>. QED BY <2>2, <4>1, <4>2
      <3>2. ASSUME NEW j \in 1 .. Len(out'), NEW k \in 1 .. Len(out'), j < k
            PROVE  out'[j][2] < out'[k][2]
        <4>1. j \in 1 .. Len(out)
          BY <1>0, <2>2, <3>2
        <4>2. CASE k \in 1 .. Len(out)
          BY <2>2, <3>2, <4>1, <4>2 DEF OrderInv
        <4>3. CASE out'[k] = Chunk(1, pkt.num)
          BY <2>1, <2>2, <4>1, <4>3, ChunkIndex
        <4>. QED BY <2>2, <4>2, <4>3
      <3>. QED BY <1>0, <1>8, <1>11, <2>0, <3>1, <3>2 DEF OrderInv, IsData
    <2>4. SeenInv'
      <3>1. \A c \in seen' : \E k \in 0 .. NumChunks - 1 : c = Chunk(1, k)
        BY <1>9, <1>11, <2>0
      <3>2. ASSUME NEW c \in seen PROVE ~NoChunk(dec) /\ c[2] \in Nat /\ c[2] <= dec.num
        BY <1>6, <1>9, <1>11, <3>2 DEF SeenInv
      <3>3. ASSUME NEW c \in seen' PROVE c[2] <= pkt.num
        <4>1. CASE c \in seen
          BY <1>6, <2>0, <3>2, <4>1
        <4>2. CASE c = pkt.body
          BY <2>0, <4>2
        <4>. QED BY <1>11, <4>1, <4>2
      <3>4. ASSUME NEW c \in seen', c[2] < pkt.num
            PROVE  \E j \in 1 .. Len(out') : out'[j] = c
        <4>1. c \in seen
          BY <1>11, <2>0, <3>4
        <4>2. ~NoChunk(dec) /\ c[2] \in Nat /\ c[2] <= dec.num
          BY <3>2, <4>1
        <4>3. \E j \in 1 .. Len(out) : out[j] = c
          <5>1. CASE c[2] < dec.num
            BY <4>1, <4>2, <5>1 DEF SeenInv
          <5>2. CASE c[2] = dec.num
            <6>1. dec.chunk_emitted
              BY <1>11, <2>0, <3>4, <5>2
            <6>2. c = Chunk(1, dec.num)
              BY <1>9, <4>1, <5>2
            <6>. QED BY <4>2, <6>1, <6>2 DEF SeenInv
          <5>. QED BY <1>6, <4>2, <5>1, <5>2
        <4>. QED BY <2>2, <4>3
      <3>5. dec'.chunk_emitted => \E j \in 1 .. Len(out') : out'[j] = Chunk(1, pkt.num)
        BY <2>2
      <3>. QED BY <1>0, <2>0, <3>1, <3>3, <3>4, <3>5 DEF SeenInv
    <2>. QED BY <2>3, <2>4
  <1>. QED BY <1>4, <1>10, <1>11

LEMMA ContentInit == Init => ContentInv /\ OrderInv /\ SeenInv
  <1>. SUFFICES ASSUME Init PROVE ContentInv /\ OrderInv /\ SeenInv
    OBVIOUS
  <1>1. NoChunk(dec) /\ dec.chunk_complete /\ dec.chunk_emitted
    BY DEF Init, hgap_decoder_new, NoChunk, HGAP_NO_MORE_CHUNK
  <1>2. link = <<>> /\ out = <<>> /\ seen = {}
    BY DEF Init
  <1>3. ContentInv
    BY <1>1, <1>2 DEF ContentInv, PureDecoder
  <1>4. OrderInv
    BY <1>1, <1>2 DEF OrderInv
  <1>5. SeenInv
    BY <1>1, <1>2 DEF SeenInv
  <1>. QED BY <1>3, <1>4, <1>5

LEMMA DeliverKeepsContent ==
    ASSUME CoreInv, NoTruncation, ContentInv, OrderInv, SeenInv, Deliver
    PROVE  ContentInv' /\ OrderInv' /\ SeenInv'
  <1>1. PICK i \in 1 .. Len(link) :
            /\ i <= setup.Window
            /\ link' = RemoveAt(link, i)
            /\ IF reader = "open" THEN Receive(Received(link[i], rcv_pkt_size))
               ELSE UNCHANGED receiver
            /\ UNCHANGED sender
    BY DEF Deliver
  <1>2. run' = run /\ setup' = setup
    BY <1>1 DEF sender
  <1>3. ContentInv'
    <2>1. CASE run = 1
      BY <1>1, <2>1, DeliverContent
    <2>2. CASE run # 1
      BY <1>2, <2>2 DEF ContentInv
    <2>. QED BY <2>1, <2>2
  <1>4. OrderInv' /\ SeenInv'
    <2>1. CASE run = 1 /\ setup.Window = 1
      <3>1. i = 1
        BY <1>1, <2>1 DEF CoreInv, LinkInv
      <3>. QED BY <1>1, <2>1, <3>1, DeliverOrder
    <2>2. CASE ~ (run = 1 /\ setup.Window = 1)
      BY <1>2, <2>2 DEF OrderInv, SeenInv
    <2>. QED BY <2>1, <2>2
  <1>. QED BY <1>3, <1>4

LEMMA ContentNext ==
    ASSUME CoreInv, CoreInv', NoTruncation, ContentInv, OrderInv, SeenInv, [Next]_vars
    PROVE  ContentInv' /\ OrderInv' /\ SeenInv'
  <1>1. CASE Handwave \/ Teardown \/ NextChunk \/ EmitPkt \/ Keepalive
    BY <1>1, SendKeepsContent
  <1>2. CASE Restart
    <2>1. run' # 1
      <3>1. run \in Nat /\ run >= 1
        <4>1. setup.Runs \in Nat
          BY SetupFacts DEF CoreInv, ChunkInv
        <4>. QED BY <4>1 DEF CoreInv, TypeOK
      <3>. QED BY <1>2, <3>1 DEF Restart
    <2>. QED BY <2>1 DEF ContentInv, OrderInv, SeenInv
  <1>3. CASE Deliver
    BY <1>3, DeliverKeepsContent
  <1>4. CASE Timeout
    <2>1. UNCHANGED <<setup, run, file, link, dec, out, seen>> /\ decoding' = FALSE
      BY <1>4 DEF Timeout, sender
    <2>. QED BY <2>1
         DEF ContentInv, OrderInv, SeenInv, PureDecoder, NoChunk, IsSmall, IsData, NumChunks
  <1>5. CASE UNCHANGED vars
    <2>1. UNCHANGED <<setup, run, file, link, dec, decoding, out, seen>>
      BY <1>5 DEF vars
    <2>. QED BY <2>1
         DEF ContentInv, OrderInv, SeenInv, PureDecoder, NoChunk, IsSmall, IsData, NumChunks
  <1>. QED BY <1>1, <1>2, <1>3, <1>4, <1>5 DEF Next, Finished

-----------------------------------------------------------------------------
(* The theorems about what is written.                                     *)

\* Sender, link and receiver keep TransferInv, whatever is lost, reordered or killed.
THEOREM TransferCorrect == Spec => []TransferInv
  <1>1. Init => TransferInv
    BY CoreInit, ContentInit DEF TransferInv
  <1>2. TransferInv /\ [Next]_vars => TransferInv'
    <2>. SUFFICES ASSUME TransferInv, [Next]_vars PROVE TransferInv'
      OBVIOUS
    <2>1. CoreInv /\ CoreInv'
      BY CoreNext DEF TransferInv
    <2>2. NoTruncation => ContentInv' /\ OrderInv' /\ SeenInv'
      BY <2>1, ContentNext DEF TransferInv
    <2>. QED BY <2>1, <2>2 DEF TransferInv, NoTruncation
  <1>. QED BY <1>1, <1>2, PTL DEF Spec

\* If no packet is truncated, what the receiver writes are chunks of the file, even if
\* packets overtake each other.
THEOREM ContentIsGenuine ==
    ASSUME NoTruncation
    PROVE  Spec => []ContentGenuine
  <1>1. TransferInv => ContentGenuine
    <2>. SUFFICES ASSUME TransferInv, run = 1 PROVE Genuine
      BY DEF ContentGenuine
    <2>1. 1 \in 1 .. setup.Runs
      BY SetupFacts DEF TransferInv, CoreInv, ChunkInv
    <2>. QED BY <2>1 DEF TransferInv, ContentInv, Genuine
  <1>. QED BY <1>1, TransferCorrect, PTL

\* If no packet is truncated and the link keeps the order, chunks are written at most
\* once and in the order of the file, whatever is lost.
THEOREM WrittenInOrder ==
    ASSUME NoTruncation
    PROVE  Spec => []OutputInOrder
  <1>1. TransferInv => OutputInOrder
    BY DEF TransferInv, ContentInv, OrderInv, OutputInOrder
  <1>. QED BY <1>1, TransferCorrect, PTL

\* If no packet is truncated and the link keeps the order, a chunk that was received in
\* part is not skipped: nothing that follows it in the file is written without it.
THEOREM NoChunkIsSkipped ==
    ASSUME NoTruncation
    PROVE  Spec => []NoPartialChunkSkipped
  <1>1. TransferInv => NoPartialChunkSkipped
    <2>. SUFFICES ASSUME TransferInv, run = 1, setup.Window = 1, NEW c \in seen,
                         NEW i \in 1 .. Len(out), out[i][2] > c[2]
                  PROVE  \E j \in 1 .. Len(out) : out[j] = c
      BY DEF NoPartialChunkSkipped
    <2>1. CoreInv /\ ContentInv /\ OrderInv /\ SeenInv
      BY DEF TransferInv
    <2>2. ~NoChunk(dec) /\ out[i][2] <= dec.num
      BY <2>1 DEF OrderInv
    <2>3. PICK k \in 0 .. NumChunks - 1 : out[i] = Chunk(1, k)
      BY <2>1 DEF ContentInv
    <2>4. PICK m \in 0 .. NumChunks - 1 : c = Chunk(1, m)
      BY <2>1 DEF SeenInv
    <2>5. out[i][2] \in Int /\ c[2] \in Int /\ dec.num \in Int
      BY <2>1, <2>3, <2>4, ChunkIndex DEF CoreInv, TypeOK
    <2>6. c[2] < dec.num
      BY <2>2, <2>5
    <2>. QED BY <2>1, <2>2, <2>6 DEF SeenInv
  <1>. QED BY <1>1, TransferCorrect, PTL

=============================================================================
