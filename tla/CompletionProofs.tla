--------------------------- MODULE CompletionProofs ---------------------------
(***************************************************************************)
(* Proof that a receiver has a beginning of the file, and the whole of it  *)
(* when both programs return HGAP_SUCCESS, for any file and configuration  *)
(* of the sender: over a link that keeps the order and loses no more       *)
(* packets than the redundancy makes up for, if no packet is truncated and *)
(* wirehair does not run out of memory at the receiver.  The sender may    *)
(* fail to read the file, or to encode it.                                 *)
(*                                                                         *)
(* The blocks of a chunk are counted: those in the decoder and in flight,  *)
(* together with the lost ones, are as many as were sent.                  *)
(***************************************************************************)
EXTENDS TransferProofs, FiniteSetTheorems

-----------------------------------------------------------------------------
(* Numbers.                                                                *)

\* b packets of size n hold at least a bytes only if they are enough.
LEMMA CeilDivFacts ==
    ASSUME NEW a \in Nat, NEW b \in Nat, b > 0
    PROVE  /\ CeilDiv(a, b) \in Nat
           /\ a > 0 => CeilDiv(a, b) > 0
           /\ \A n \in Nat : n * b >= a => n >= CeilDiv(a, b)
  <1>. DEFINE s == a + b - 1
              q == s \div b
              r == s % b
  <1>1. s \in Nat /\ b \in Nat \ {0}
    OBVIOUS
  <1>2. q \in Nat /\ r \in 0 .. b - 1 /\ s = b * q + r
    <2>. HIDE DEF s
    <2>. QED BY <1>1
  <1>3. CeilDiv(a, b) = q
    BY DEF CeilDiv
  <1>. HIDE DEF q, r
  <1>4. a > 0 => q > 0
    <2>. SUFFICES ASSUME a > 0, q = 0 PROVE FALSE
      BY <1>2
    <2>1. b * q = 0
      OBVIOUS
    <2>. QED BY <1>2, <2>1
  <1>5. ASSUME NEW n \in Nat, n * b >= a PROVE n >= q
    <2>. SUFFICES ASSUME n + 1 <= q PROVE FALSE
      BY <1>2
    <2>1. b * (n + 1) <= b * q
      BY <1>2
    <2>2. b * (n + 1) = n * b + b
      OBVIOUS
    <2>3. n * b \in Nat /\ b * q \in Nat
      BY <1>2, Product
    <2>. QED BY <1>2, <1>5, <2>1, <2>2, <2>3
  <1>. QED BY <1>2, <1>3, <1>4, <1>5

LEMMA NeededFacts ==
    ASSUME setup \in Setups, NEW k \in Int
    PROVE  /\ SizeOf(k) \in Nat /\ BlockSize(k) \in Nat /\ BlockSize(k) <= SizeOf(k)
           /\ SizeOf(k) > 0 => BlockSize(k) > 0 /\ Needed(k) \in Nat /\ Needed(k) > 0
           /\ k < NumChunks - 1 => SizeOf(k) > 0
  <1>1. SizeOf(k) \in Nat /\ BlockSize(k) \in Nat
    BY ChunkFacts
  <1>2. setup.pkt_size \in Nat /\ setup.pkt_size > 24
    BY SetupFacts, HeaderLen
  <1>3. BlockSize(k) <= SizeOf(k) /\ (SizeOf(k) > 0 => BlockSize(k) > 0)
    BY <1>1, <1>2, HeaderLen DEF BlockSize
  <1>4. SizeOf(k) > 0 => Needed(k) \in Nat /\ Needed(k) > 0
    <2>. SUFFICES ASSUME SizeOf(k) > 0 PROVE Needed(k) \in Nat /\ Needed(k) > 0
      OBVIOUS
    <2>1. CeilDiv(SizeOf(k), BlockSize(k)) \in Nat /\ CeilDiv(SizeOf(k), BlockSize(k)) > 0
      BY <1>1, <1>3, CeilDivFacts
    <2>. QED BY <2>1, WirehairAssumption DEF Needed
  <1>5. k < NumChunks - 1 => SizeOf(k) > 0
    <2>1. ChunkBytes(setup) \in Nat \ {0}
      BY ChunkFacts
    <2>. QED BY <2>1 DEF SizeOf
  <1>. QED BY <1>1, <1>3, <1>4, <1>5

\* Enough packets of each chunk are sent to make up for what the link may lose.
LEMMA SentIsEnough ==
    CoreInv /\ LinkTolerable /\ phase = "read" /\ file > 0 /\ SizeOf(file - 1) > 0
    => chunk.next_pkt_id - setup.LossBudget >= Needed(file - 1)
  <1>. SUFFICES ASSUME CoreInv, LinkTolerable, phase = "read", file > 0, SizeOf(file - 1) > 0
                PROVE  chunk.next_pkt_id - setup.LossBudget >= Needed(file - 1)
    OBVIOUS
  <1>. SenderPart
    BY Parts
  <1>. DEFINE k == file - 1
              n == chunk.next_pkt_id
              num == setup.RedundNum
              den == setup.RedundDen
              size == SizeOf(k)
              bsize == BlockSize(k)
  <1>1. /\ setup \in Setups /\ k \in 0 .. NumChunks - 1 /\ k \in Int
        /\ chunk.len = size /\ EmittedPkt(chunk).dsize = bsize /\ n \in Nat
    BY ChunkFacts DEF SenderPart, ChunkInv
  <1>2. /\ num \in Nat /\ den \in Nat /\ den > 0 /\ size \in Nat /\ bsize \in Nat /\ bsize > 0
        /\ setup.LossBudget \in Nat /\ Needed(k) \in Nat
    BY <1>1, SetupFacts, NeededFacts
  <1>3. n * bsize * den >= num * size
    BY <1>1 DEF SenderPart, RedundancyMet
  <1>4. CeilDiv(num * size, den * bsize) - setup.LossBudget >= Needed(k)
    BY <1>1 DEF LinkTolerable
  <1>. HIDE DEF n, num, den, size, bsize, k
  <1>5. num * size \in Nat /\ den * bsize \in Nat /\ den * bsize > 0
    BY <1>2, Product
  <1>6. n * bsize * den = n * (den * bsize)
    BY <1>1, <1>2
  <1>7. CeilDiv(num * size, den * bsize) \in Nat /\ n >= CeilDiv(num * size, den * bsize)
    BY <1>1, <1>3, <1>5, <1>6, CeilDivFacts
  <1>8. n - setup.LossBudget >= Needed(k)
    BY <1>1, <1>2, <1>4, <1>7
  <1>. QED BY <1>8 DEF n, k

-----------------------------------------------------------------------------
(* One packet, if wirehair does not fail.                                  *)

LEMMA WirehairSucceeds == ~WirehairMayFail => Succeeds = {TRUE}
  BY DEF Succeeds

\* The blocks after which a chunk of the decoder can be decoded for sure.
Enough(d) == CeilDiv(d.len, d.dsize) + WirehairOverhead

Ids(blocks) == {b.id : b \in blocks}

\* A decoder that wirehair has been set up for, if it needs it.
Prepared(d) == IsSmall(d) \/ (d.wh_state /\ d.data = NULL)

LEMMA PreparedInit ==
    ASSUME ~WirehairMayFail, NEW d \in DecoderState, NEW pkt \in Packet,
           NEW c \in hgap_dec_chunk_init(d, pkt)
    PROVE  Prepared(c)
  <1>. DEFINE b == [d EXCEPT !.data = NULL, !.num = pkt.num, !.len = pkt.size,
                             !.dsize = pkt.dsize,
                             !.chunk_complete = FALSE, !.chunk_emitted = FALSE]
  <1>1. \/ c = b /\ IsSmall(b)
        \/ c = [b EXCEPT !.wh_state = TRUE, !.blocks = {}]
    BY WirehairSucceeds DEF hgap_dec_chunk_init
  <1>2. c.data = NULL
    BY ChunkInit
  <1>. QED BY <1>1, <1>2 DEF Prepared, DecoderState

\* A packet completes a small chunk, and adds its block to a large one.
LEMMA PreparedRead ==
    ASSUME NEW c \in DecoderState, NEW pkt \in Packet, ~c.chunk_complete, Prepared(c),
           NEW r \in hgap_dec_chunk_read(c, pkt)
    PROVE  /\ r.dec.wh_state = c.wh_state /\ (r.ret = 0 \/ r.ret = c.len)
           /\ IsSmall(c) => r.ret = c.len
           /\ ~IsSmall(c) => r.dec.blocks = c.blocks \union {[id |-> pkt.id, body |-> pkt.body]}
           /\ ~IsSmall(c) /\ r.ret = 0 =>
                \/ Cardinality(Ids(r.dec.blocks)) < CeilDiv(c.len, c.dsize)
                \/ ~ (Cardinality(Ids(r.dec.blocks)) >= Enough(c))
  <1>. DEFINE ReadResult(x, n) == [dec |-> [x EXCEPT !.chunk_complete = @ \/ n > 0], ret |-> n]
              withData == [c EXCEPT !.data = pkt.body]
              blocks == c.blocks \union {[id |-> pkt.id, body |-> pkt.body]}
              withBlock == [c EXCEPT !.blocks = blocks]
  <1>1. CASE IsSmall(c)
    <2>1. r = ReadResult(c, c.len) \/ r = ReadResult(withData, c.len)
      BY <1>1 DEF hgap_dec_chunk_read
    <2>2. withData \in DecoderState /\ withData.wh_state = c.wh_state
      BY DEF DecoderState, Packet
    <2>. HIDE DEF withData
    <2>3. r.dec.wh_state = c.wh_state /\ r.ret = c.len
      BY <2>1, <2>2 DEF DecoderState
    <2>. QED BY <1>1, <2>3
  <1>2. CASE ~IsSmall(c)
    <2>1. \E ready \in wirehair_read(c.len, c.dsize, blocks) :
              r = ReadResult(withBlock, IF ready THEN c.len ELSE 0)
      BY <1>2 DEF hgap_dec_chunk_read, Prepared
    <2>2. PICK ready \in wirehair_read(c.len, c.dsize, blocks) :
              r = ReadResult(withBlock, IF ready THEN c.len ELSE 0)
      BY <2>1
    <2>3. /\ r.dec.wh_state = c.wh_state /\ r.dec.blocks = blocks
          /\ r.ret = IF ready THEN c.len ELSE 0
      BY <2>2 DEF DecoderState
    <2>4. c.len \in Nat /\ c.dsize \in Nat /\ c.len # 0
      BY <1>2 DEF DecoderState, IsSmall
    <2>5. r.ret = 0 => FALSE \in wirehair_read(c.len, c.dsize, blocks)
      <3>1. wirehair_read(c.len, c.dsize, blocks) \subseteq BOOLEAN
        BY DEF wirehair_read
      <3>. QED BY <2>2, <2>3, <2>4, <3>1
    <2>. HIDE DEF blocks
    <2>6. r.ret = 0 => \/ Cardinality(Ids(blocks)) < CeilDiv(c.len, c.dsize)
                       \/ ~ (Cardinality(Ids(blocks)) >= Enough(c))
      BY <2>5 DEF wirehair_read, Ids, Enough, CeilDiv
    <2>7. r.ret = 0 \/ r.ret = c.len
      BY <2>3
    <2>. QED BY <1>2, <2>3, <2>6, <2>7 DEF blocks
  <1>. QED BY <1>1, <1>2

\* The decoder d has been given a packet, and is e now: its chunk went on, or the next
\* one began.
Fed(d, pkt, e) ==
    /\ e.num = pkt.num /\ e.state = T_DATA
    /\ IF pkt.num = d.num
       THEN ~d.chunk_complete /\ e.len = d.len /\ e.dsize = d.dsize
       ELSE d.chunk_complete /\ e.len = pkt.size /\ e.dsize = pkt.dsize
    /\ IsSmall(e) => (e.chunk_complete <=> e.len > 0)
    /\ ~IsSmall(e) =>
        /\ e.wh_state
        /\ e.blocks = (IF pkt.num = d.num THEN d.blocks ELSE {})
                        \union {[id |-> pkt.id, body |-> pkt.body]}
        /\ ~e.chunk_complete => \/ Cardinality(Ids(e.blocks)) < CeilDiv(e.len, e.dsize)
                                \/ ~ (Cardinality(Ids(e.blocks)) >= Enough(e))

\* Giving a packet to a chunk that wirehair is ready for.
LEMMA FedRead ==
    ASSUME NEW d \in DecoderState, NEW c \in DecoderState, NEW pkt \in Packet,
           NEW r \in hgap_dec_chunk_read(c, pkt), Prepared(c),
           ~c.chunk_complete, c.state = T_DATA, c.num = pkt.num,
           IF pkt.num = d.num
           THEN /\ ~d.chunk_complete /\ c.len = d.len /\ c.dsize = d.dsize /\ c.blocks = d.blocks
           ELSE /\ d.chunk_complete /\ c.len = pkt.size /\ c.dsize = pkt.dsize
                /\ IsSmall(c) \/ c.blocks = {}
    PROVE  Fed(d, pkt, r.dec) /\ r.ret >= 0
  <1>1. /\ r.dec \in DecoderState
        /\ r.ret > 0 <=> r.dec.chunk_complete
        /\ r.dec.state = c.state /\ r.dec.num = c.num /\ r.dec.len = c.len
        /\ r.dec.dsize = c.dsize
    BY ChunkRead, ZenonT(60)
  <1>2. /\ r.dec.wh_state = c.wh_state /\ (r.ret = 0 \/ r.ret = c.len)
        /\ IsSmall(c) => r.ret = c.len
        /\ ~IsSmall(c) => r.dec.blocks = c.blocks \union {[id |-> pkt.id, body |-> pkt.body]}
        /\ ~IsSmall(c) /\ r.ret = 0 =>
             \/ Cardinality(Ids(r.dec.blocks)) < CeilDiv(c.len, c.dsize)
             \/ ~ (Cardinality(Ids(r.dec.blocks)) >= Enough(c))
    BY PreparedRead
  <1>3. (IsSmall(r.dec) <=> IsSmall(c)) /\ Enough(r.dec) = Enough(c) /\ c.len \in Nat
    BY <1>1 DEF IsSmall, Enough, DecoderState
  <1>4. r.ret >= 0 /\ (r.ret = 0 \/ r.dec.chunk_complete)
    BY <1>1, <1>2, <1>3
  <1>5. CASE IsSmall(c)
    BY <1>1, <1>2, <1>3, <1>4, <1>5 DEF Fed
  <1>6. CASE ~IsSmall(c)
    <2>1. r.dec.wh_state
      BY <1>2, <1>6 DEF Prepared
    <2>2. r.dec.blocks = (IF pkt.num = d.num THEN d.blocks ELSE {})
                           \union {[id |-> pkt.id, body |-> pkt.body]}
      BY <1>2, <1>6
    <2>3. ~r.dec.chunk_complete =>
              \/ Cardinality(Ids(r.dec.blocks)) < CeilDiv(r.dec.len, r.dec.dsize)
              \/ ~ (Cardinality(Ids(r.dec.blocks)) >= Enough(r.dec))
      BY <1>1, <1>2, <1>3, <1>4, <1>6
    <2>. QED BY <1>1, <1>3, <1>4, <1>6, <2>1, <2>2, <2>3 DEF Fed
  <1>. QED BY <1>5, <1>6

\* A data packet after the BEGIN: an error, nothing, or the chunk gets it.
LEMMA OpenRead ==
    ASSUME ~WirehairMayFail, NEW d, Consistent(d),
           ~d.chunk_complete => Prepared(d), d.chunk_complete => d.chunk_emitted,
           d.state \in {T_STARTED, T_DATA},
           NEW pkt \in Packet, hgap_pkt_type(pkt) = "data", NEW r \in hgap_decoder_read(d, pkt)
    PROVE  \/ r.ret \in {-HGAP_ERR_INCOMPLETE_CHUNK, -HGAP_ERR_BAD_CHUNK}
           \/ /\ pkt.num = d.num /\ d.chunk_complete
              /\ r.dec = [d EXCEPT !.state = T_DATA] /\ r.ret = 0
           \/ Fed(d, pkt, r.dec) /\ r.ret >= 0
  <1>. DEFINE u == [d EXCEPT !.state = T_DATA]
  <1>1. hgap_decoder_update_state(d, pkt) = u
    BY StateNumbers DEF hgap_decoder_update_state, Consistent, DecoderState
  <1>2. /\ d \in DecoderState /\ u \in DecoderState /\ u.state = T_DATA
        /\ u.num = d.num /\ u.len = d.len /\ u.dsize = d.dsize /\ u.data = d.data
        /\ u.wh_state = d.wh_state /\ u.blocks = d.blocks
        /\ u.chunk_complete = d.chunk_complete /\ u.chunk_emitted = d.chunk_emitted
    BY StateNumbers DEF Consistent, DecoderState
  <1>. HIDE DEF u
  <1>3. r \in ReadData(u, pkt)
    BY <1>1, <1>2, StateNumbers DEF hgap_decoder_read
  <1>4. CASE pkt.num # d.num
    <2>1. \/ r.ret \in {-HGAP_ERR_INCOMPLETE_CHUNK, -HGAP_ERR_BAD_CHUNK}
          \/ /\ d.chunk_complete
             /\ \E c \in hgap_dec_chunk_init(u, pkt) : r \in hgap_dec_chunk_read(c, pkt)
      BY <1>2, <1>3, <1>4 DEF ReadData
    <2>2. ASSUME d.chunk_complete, NEW c \in hgap_dec_chunk_init(u, pkt),
                 r \in hgap_dec_chunk_read(c, pkt)
          PROVE  Fed(d, pkt, r.dec) /\ r.ret >= 0
      <3>1. /\ c \in DecoderState /\ c.state = T_DATA /\ c.num = pkt.num /\ c.len = pkt.size
            /\ c.dsize = pkt.dsize /\ ~c.chunk_complete /\ (IsSmall(c) \/ c.blocks = {})
        BY <1>2, ChunkInit
      <3>2. Prepared(c)
        BY <1>2, PreparedInit
      <3>. QED BY <1>2, <1>4, <2>2, <3>1, <3>2, FedRead
    <2>. QED BY <2>1, <2>2
  <1>5. CASE pkt.num = d.num /\ d.chunk_complete
    BY <1>2, <1>3, <1>5 DEF ReadData, u
  <1>6. CASE pkt.num = d.num /\ ~d.chunk_complete
    <2>1. r \in hgap_dec_chunk_read(u, pkt)
      BY <1>2, <1>3, <1>6 DEF ReadData
    <2>2. Prepared(u)
      BY <1>2, <1>6 DEF Prepared, IsSmall
    <2>. QED BY <1>2, <1>6, <2>1, <2>2, FedRead
  <1>. QED BY <1>4, <1>5, <1>6

\* decloop on a packet after the BEGIN, or on one that is neither data nor END.
LEMMA OpenDecode ==
    ASSUME ~WirehairMayFail, Consistent(dec), ~dec.chunk_complete => Prepared(dec),
           dec.chunk_complete => dec.chunk_emitted, dec.state # T_STOPPED,
           NEW pkt \in Packet, hgap_pkt_type(pkt) \in {"data", "end"} => dec.state # T_NEW,
           hgap_pkt_type(pkt) # "end", NEW o \in Decode(pkt), o.ret = HGAP_SUCCESS
    PROVE  /\ ~o.stop /\ o.dec.state # T_STOPPED
           /\ dec.state # T_NEW \/ hgap_pkt_type(pkt) = "begin" => o.dec.state # T_NEW
           /\ \/ /\ o.dec = [dec EXCEPT !.state = o.dec.state]
                 /\ hgap_pkt_type(pkt) = "data" => pkt.num = dec.num /\ dec.chunk_complete
              \/ hgap_pkt_type(pkt) = "data" /\ Fed(dec, pkt, o.dec)
  <1>. DEFINE u == hgap_decoder_update_state(dec, pkt)
  <1>1. PICK r \in hgap_decoder_read(dec, pkt) :
            \/ r.ret = 0 /\ o = Outcome(r.dec, out, HGAP_SUCCESS, FALSE)
            \/ r.ret = -HGAP_EOT /\ o = Outcome(r.dec, out, HGAP_SUCCESS, TRUE)
            \/ r.ret < 0 /\ o = Outcome(r.dec, out, -r.ret, TRUE)
            \/ /\ ~ (r.ret < 0) /\ r.ret # 0
               /\ \E e \in hgap_decoder_emit(r.dec, r.ret) :
                    o = IF e.ret = HGAP_SUCCESS
                        THEN Outcome(e.dec, Append(out, e.out), HGAP_SUCCESS, FALSE)
                        ELSE Outcome(e.dec, out, e.ret, TRUE)
    BY DEF Decode
  <1>2. Consistent(r.dec) /\ r.ret \in Int /\ r.dec \in DecoderState /\ dec \in DecoderState
    BY DecoderRead DEF Consistent
  <1>3. dec.state \in 0 .. 2
    BY <1>2, StateNumbers DEF DecoderState
  <1>4. CASE hgap_pkt_type(pkt) = "data"
    <2>1. \/ r.ret \in {-HGAP_ERR_INCOMPLETE_CHUNK, -HGAP_ERR_BAD_CHUNK}
          \/ /\ pkt.num = dec.num /\ dec.chunk_complete
             /\ r.dec = [dec EXCEPT !.state = T_DATA] /\ r.ret = 0
          \/ Fed(dec, pkt, r.dec) /\ r.ret >= 0
      <3>1. dec.state \in {T_STARTED, T_DATA}
        BY <1>3, <1>4, StateNumbers
      <3>. QED BY <1>4, <3>1, OpenRead
    <2>2. CASE r.ret \in {-HGAP_ERR_INCOMPLETE_CHUNK, -HGAP_ERR_BAD_CHUNK}
      <3>1. o = Outcome(r.dec, out, -r.ret, TRUE) /\ -r.ret # HGAP_SUCCESS
        <4>1. r.ret # 0 /\ r.ret # -HGAP_EOT /\ r.ret < 0 /\ -r.ret # HGAP_SUCCESS
          BY <2>2 DEF HGAP_ERR_INCOMPLETE_CHUNK, HGAP_ERR_BAD_CHUNK, HGAP_SUCCESS, HGAP_EOT
        <4>. QED BY <1>1, <4>1, Zenon
      <3>. QED BY <3>1 DEF Outcome
    <2>3. CASE /\ pkt.num = dec.num /\ dec.chunk_complete
               /\ r.dec = [dec EXCEPT !.state = T_DATA] /\ r.ret = 0
      <3>1. o.dec = r.dec /\ ~o.stop
        BY <1>1, <2>3 DEF Outcome, HGAP_EOT
      <3>2. o.dec.state = T_DATA
        BY <1>2, <2>3, <3>1 DEF DecoderState
      <3>. QED BY <2>3, <3>1, <3>2, StateNumbers
    <2>4. CASE Fed(dec, pkt, r.dec) /\ r.ret >= 0
      <3>1. CASE r.ret = 0
        <4>1. o.dec = r.dec /\ ~o.stop
          BY <1>1, <3>1 DEF Outcome, HGAP_EOT
        <4>. QED BY <1>4, <2>4, <4>1, StateNumbers DEF Fed
      <3>2. CASE r.ret > 0
        <4>1. PICK e \in hgap_decoder_emit(r.dec, r.ret) :
                  o = IF e.ret = HGAP_SUCCESS
                      THEN Outcome(e.dec, Append(out, e.out), HGAP_SUCCESS, FALSE)
                      ELSE Outcome(e.dec, out, e.ret, TRUE)
          <5>1. r.ret # 0 /\ r.ret # -HGAP_EOT /\ ~ (r.ret < 0)
            BY <1>2, <3>2 DEF HGAP_EOT
          <5>. QED BY <1>1, <5>1, Zenon
        <4>2. e.ret = HGAP_SUCCESS
          BY <3>2, ReadyChunkIsEmitted
        <4>3. o.dec = e.dec /\ ~o.stop
          BY <4>1, <4>2 DEF Outcome
        <4>4. e.dec = r.dec \/ e.dec = [r.dec EXCEPT !.chunk_emitted = TRUE]
          BY <1>2, DecoderEmit
        <4>5. Fed(dec, pkt, e.dec)
          BY <1>2, <2>4, <4>4 DEF Fed, DecoderState, IsSmall, Enough
        <4>. QED BY <1>4, <4>3, <4>5, StateNumbers DEF Fed
      <3>. QED BY <1>2, <2>4, <3>1, <3>2
    <2>. QED BY <2>1, <2>2, <2>3, <2>4
  <1>5. CASE hgap_pkt_type(pkt) # "data"
    <2>1. u = [dec EXCEPT !.state = u.state]
      BY UpdateState DEF Consistent
    <2>2. /\ u.state \in 0 .. 2
          /\ dec.state # T_NEW \/ hgap_pkt_type(pkt) = "begin" => u.state # T_NEW
      BY <1>2, <1>3, <1>5, StateNumbers DEF hgap_decoder_update_state, DecoderState
    <2>. HIDE DEF u
    <2>3. r = [dec |-> u, ret |-> 0]
      BY <1>5, <2>2, StateNumbers DEF hgap_decoder_read, u
    <2>4. o.dec = u /\ ~o.stop
      BY <1>1, <2>3 DEF Outcome, HGAP_EOT
    <2>. QED BY <1>5, <2>1, <2>2, <2>4, StateNumbers
  <1>. QED BY <1>4, <1>5

\* A round of the receiver, while it is open: an error or an END closes it, and any
\* other packet leaves the chunk alone, or is given to it, which is written at once if
\* that completes it.
LEMMA OpenRound ==
    ASSUME ~WirehairMayFail, ReceiverPart, setup \in Setups, setup' = setup,
           decoding, dec.state # T_STOPPED, PureDecoder(dec),
           ~dec.chunk_complete => Prepared(dec),
           NEW pkt \in Packet, hgap_pkt_type(pkt) = "data" => GenuinePkt(pkt),
           hgap_pkt_type(pkt) \in {"data", "end"} => dec.state # T_NEW, Receive(pkt)
    PROVE  \/ reader' = "closed" /\ out' = out /\ (dret' = HGAP_SUCCESS => hgap_pkt_type(pkt) = "end")
           \/ /\ reader' = "open" /\ decoding' /\ dec'.state # T_STOPPED
              /\ hgap_pkt_type(pkt) # "end"
              /\ dec.state # T_NEW \/ hgap_pkt_type(pkt) = "begin" => dec'.state # T_NEW
              /\ \/ /\ out' = out /\ dec' = [dec EXCEPT !.state = dec'.state]
                    /\ hgap_pkt_type(pkt) = "data" => pkt.num = dec.num /\ dec.chunk_complete
                 \/ /\ hgap_pkt_type(pkt) = "data" /\ Fed(dec, pkt, dec')
                    /\ dec'.chunk_emitted <=> dec'.chunk_complete
                    /\ out' = IF dec'.chunk_complete THEN Append(out, Chunk(1, pkt.num)) ELSE out
  <1>0. /\ Consistent(dec) /\ (dec.chunk_complete => dec.chunk_emitted) /\ dec \in DecoderState
    BY DEF ReceiverPart, StartInv, Consistent
  <1>1. PICK o \in Decode(pkt) :
            /\ dec' = o.dec /\ out' = o.out /\ dret' = o.ret
            /\ reader' = IF hgap_pkt_type(pkt) = "end" \/ o.ret # HGAP_SUCCESS
                         THEN "closed" ELSE "open"
            /\ decoding' = (~o.stop /\ reader' = "open")
    BY DEF Receive
  <1>2. CASE o.ret # HGAP_SUCCESS
    <2>1. o.out = out
      BY <1>2 DEF Decode, Outcome
    <2>. QED BY <1>1, <1>2, <2>1
  <1>3. CASE hgap_pkt_type(pkt) = "end"
    <2>1. out' = out
      BY <1>0, <1>1, <1>3, DecodeCases
    <2>. QED BY <1>1, <1>3, <2>1
  <1>4. CASE o.ret = HGAP_SUCCESS /\ hgap_pkt_type(pkt) # "end"
    <2>1. /\ ~o.stop /\ o.dec.state # T_STOPPED
          /\ dec.state # T_NEW \/ hgap_pkt_type(pkt) = "begin" => o.dec.state # T_NEW
          /\ \/ /\ o.dec = [dec EXCEPT !.state = o.dec.state]
                /\ hgap_pkt_type(pkt) = "data" => pkt.num = dec.num /\ dec.chunk_complete
             \/ hgap_pkt_type(pkt) = "data" /\ Fed(dec, pkt, o.dec)
      BY <1>0, <1>4, OpenDecode
    <2>2. reader' = "open" /\ decoding'
      BY <1>1, <1>4, <2>1
    <2>3. dec'.chunk_emitted <=> dec'.chunk_complete
      <3>1. ReceiverPart'
        BY ReceiveKeeps
      <3>. QED BY <2>2, <3>1 DEF ReceiverPart, StartInv
    <2>4. \/ /\ out' = out /\ dec'.num = dec.num /\ dec'.chunk_emitted = dec.chunk_emitted
          \/ /\ hgap_pkt_type(pkt) = "data" /\ dec'.num = pkt.num
             /\ pkt.num = dec.num => ~dec.chunk_complete
             /\ pkt.num # dec.num => dec.chunk_emitted
             /\ \/ out' = out /\ ~dec'.chunk_emitted
                \/ out' = Append(out, Chunk(1, pkt.num)) /\ dec'.chunk_emitted
      BY PureReceive
    <2>5. CASE /\ dec' = [dec EXCEPT !.state = dec'.state]
               /\ hgap_pkt_type(pkt) = "data" => pkt.num = dec.num /\ dec.chunk_complete
      <3>1. out' = out
        <4>1. hgap_pkt_type(pkt) = "data" => pkt.num = dec.num /\ dec.chunk_complete
          BY <2>5
        <4>. QED BY <2>4, <4>1
      <3>. QED BY <1>1, <1>4, <2>1, <2>2, <2>5, <3>1
    <2>6. CASE hgap_pkt_type(pkt) = "data" /\ Fed(dec, pkt, dec')
      <3>1. out' = IF dec'.chunk_complete THEN Append(out, Chunk(1, pkt.num)) ELSE out
        <4>1. dec'.num = pkt.num /\ (pkt.num = dec.num => ~dec.chunk_complete)
          BY <2>6 DEF Fed
        <4>2. dec.chunk_emitted => dec.chunk_complete
          BY <1>0 DEF Consistent
        <4>. QED BY <2>3, <2>4, <4>1, <4>2
      <3>. QED BY <1>1, <1>4, <2>1, <2>2, <2>3, <2>6, <3>1
    <2>. QED BY <1>1, <2>1, <2>5, <2>6
  <1>. QED BY <1>2, <1>3, <1>4

-----------------------------------------------------------------------------
(* The link, and the blocks that survive.                                  *)

OpenInv ==
    /\ decoding /\ dec.state # T_STOPPED
    /\ BeginInv /\ EndInv /\ SizeInv /\ BlockInv /\ PrefixInv /\ LossInv

\* The ids of the blocks of chunk k in the decoder, and in flight.
Got(k) == Ids(IF dec.num = k /\ ~IsSmall(dec) THEN dec.blocks ELSE {})
Flying(k) == {link[i].id : i \in {j \in 1 .. Len(link) : IsData(j) /\ link[j].num = k}}

LEMMA SurvivingParts ==
    \A k : /\ Surviving(k) = Got(k) \union Flying(k)
           /\ Surviving(k)' = Got(k)' \union Flying(k)'
  BY DEF Surviving, Got, Flying, Ids

LEMMA ControlTypes ==
    /\ hgap_pkt_type(ControlPkt(HGAP_BEGIN_BEACON)) = "begin"
    /\ hgap_pkt_type(ControlPkt(HGAP_NO_MORE_CHUNK)) = "end"
    /\ hgap_pkt_type(ControlPkt(HGAP_KEEP_ALIVE)) = "keepalive"
  BY NumModulusAssumption
  DEF hgap_pkt_type, ControlPkt, HGAP_HEADER_LEN, HGAP_FIRST_RESERVED,
      HGAP_BEGIN_BEACON, HGAP_NO_MORE_CHUNK, HGAP_KEEP_ALIVE

LEMMA Appending ==
    ASSUME link \in Seq(Packet), NEW pkt \in Packet, link' = Append(link, pkt)
    PROVE  /\ Len(link) \in Nat /\ Len(link') = Len(link) + 1
           /\ link'[Len(link) + 1] = pkt /\ \A i \in 1 .. Len(link) : link'[i] = link[i]
           /\ \A k : Flying(k)' = IF hgap_pkt_type(pkt) = "data" /\ pkt.num = k
                                  THEN Flying(k) \union {pkt.id} ELSE Flying(k)
  <1>1. /\ Len(link) \in Nat /\ Len(link') = Len(link) + 1
        /\ link'[Len(link) + 1] = pkt /\ \A i \in 1 .. Len(link) : link'[i] = link[i]
    OBVIOUS
  <1>2. ASSUME NEW k
        PROVE  Flying(k)' = IF hgap_pkt_type(pkt) = "data" /\ pkt.num = k
                            THEN Flying(k) \union {pkt.id} ELSE Flying(k)
    <2>. DEFINE A == {j \in 1 .. Len(link) : hgap_pkt_type(link[j]) = "data" /\ link[j].num = k}
                B == {j \in 1 .. Len(link') : hgap_pkt_type(link'[j]) = "data" /\ link'[j].num = k}
    <2>1. Flying(k) = {link[i].id : i \in A} /\ Flying(k)' = {link'[i].id : i \in B}
      BY DEF Flying, IsData
    <2>2. B = IF hgap_pkt_type(pkt) = "data" /\ pkt.num = k THEN A \union {Len(link) + 1} ELSE A
      <3>1. 1 .. Len(link') = 1 .. Len(link) \union {Len(link) + 1}
        BY <1>1
      <3>2. Len(link) + 1 \notin 1 .. Len(link)
        BY <1>1
      <3>. QED BY <1>1, <3>1, <3>2
    <2>3. \A i \in A : link'[i].id = link[i].id
      BY <1>1
    <2>. HIDE DEF A, B
    <2>4. CASE hgap_pkt_type(pkt) = "data" /\ pkt.num = k
      <3>1. B = A \union {Len(link) + 1}
        BY <2>2, <2>4
      <3>2. \A x : (\E i \in B : x = link'[i].id) <=> (\E i \in A : x = link[i].id) \/ x = pkt.id
        BY <1>1, <2>3, <3>1
      <3>3. ASSUME NEW x PROVE x \in Flying(k)' <=> x \in Flying(k) \union {pkt.id}
        <4>1. x \in Flying(k)' <=> \E i \in B : x = link'[i].id
          BY <2>1, Zenon
        <4>2. x \in Flying(k) <=> \E i \in A : x = link[i].id
          BY <2>1, Zenon
        <4>. QED BY <3>2, <4>1, <4>2
      <3>. QED BY <2>4, <3>3
    <2>5. CASE ~ (hgap_pkt_type(pkt) = "data" /\ pkt.num = k)
      <3>1. B = A
        BY <2>2, <2>5
      <3>2. \A x : (\E i \in B : x = link'[i].id) <=> \E i \in A : x = link[i].id
        BY <2>3, <3>1
      <3>3. Flying(k)' = Flying(k)
        BY <2>1, <3>2
      <3>. QED BY <2>5, <3>3
    <2>. QED BY <2>4, <2>5
  <1>. QED BY <1>1, <1>2

LEMMA Removing ==
    ASSUME link \in Seq(Packet), 1 \in 1 .. Len(link), link' = RemoveAt(link, 1)
    PROVE  \A k : Flying(k) = IF hgap_pkt_type(link[1]) = "data" /\ link[1].num = k
                              THEN Flying(k)' \union {link[1].id} ELSE Flying(k)'
  <1>1. /\ Len(link) \in Nat /\ Len(link') = Len(link) - 1 /\ Len(link) >= 1
        /\ \A j \in 1 .. Len(link') : link'[j] = link[j + 1]
    BY Removal
  <1>2. ASSUME NEW k
        PROVE  Flying(k) = IF hgap_pkt_type(link[1]) = "data" /\ link[1].num = k
                           THEN Flying(k)' \union {link[1].id} ELSE Flying(k)'
    <2>. DEFINE A == {j \in 1 .. Len(link) : hgap_pkt_type(link[j]) = "data" /\ link[j].num = k}
                B == {j \in 1 .. Len(link') : hgap_pkt_type(link'[j]) = "data" /\ link'[j].num = k}
    <2>1. Flying(k) = {link[i].id : i \in A} /\ Flying(k)' = {link'[i].id : i \in B}
      BY DEF Flying, IsData
    <2>2. \A j \in B : j + 1 \in A /\ link[j + 1].id = link'[j].id
      BY <1>1
    <2>3. ASSUME NEW i \in A PROVE i = 1 \/ (i - 1 \in B /\ link'[i - 1].id = link[i].id)
      <3>. SUFFICES ASSUME i # 1 PROVE i - 1 \in B /\ link'[i - 1].id = link[i].id
        OBVIOUS
      <3>1. i - 1 \in 1 .. Len(link') /\ (i - 1) + 1 = i
        BY <1>1
      <3>2. link'[i - 1] = link[i]
        BY <1>1, <3>1
      <3>. QED BY <3>1, <3>2
    <2>4. 1 \in A <=> hgap_pkt_type(link[1]) = "data" /\ link[1].num = k
      OBVIOUS
    <2>. HIDE DEF A, B
    <2>. QED BY <2>1, <2>2, <2>3, <2>4
  <1>. QED BY <1>2

\* The sizes depend on nothing but the setup.
LEMMA SizesFrame ==
    setup' = setup =>
        /\ NumChunks' = NumChunks /\ LinkTolerable' = LinkTolerable
        /\ \A k : SizeOf(k)' = SizeOf(k) /\ BlockSize(k)' = BlockSize(k) /\ Needed(k)' = Needed(k)
  BY DEF NumChunks, LinkTolerable, SizeOf, BlockSize, Needed

LEMMA GotFrame == dec' = dec => \A k : Got(k)' = Got(k)
  BY DEF Got, IsSmall

-----------------------------------------------------------------------------
(* The sender.                                                             *)

\* What is on the link after a step of the sender that puts pkt there, or loses it.
LEMMA Sent ==
    ASSUME link \in Seq(Packet), NEW pkt \in Packet, link' = link \/ link' = Append(link, pkt),
           NEW i \in 1 .. Len(link')
    PROVE  \/ i \in 1 .. Len(link) /\ link'[i] = link[i]
           \/ i = Len(link) + 1 /\ link'[i] = pkt
  <1>1. CASE link' = link
    BY <1>1
  <1>2. CASE link' = Append(link, pkt)
    BY <1>2, Appending
  <1>. QED BY <1>1, <1>2

\* A control packet changes nothing for the blocks.
LEMMA ControlKeeps ==
    ASSUME CoreInv, OpenInv, NEW num \in {HGAP_BEGIN_BEACON, HGAP_NO_MORE_CHUNK, HGAP_KEEP_ALIVE},
           link' = link \/ link' = Append(link, ControlPkt(num)),
           UNCHANGED <<setup, run, file, chunk, sret, receiver>>,
           phase' = "emit" <=> phase = "emit", phase = "emit" => lost' = lost
    PROVE  /\ decoding' /\ dec'.state # T_STOPPED
           /\ SizeInv' /\ BlockInv' /\ PrefixInv' /\ LossInv'
  <1>0. /\ UNCHANGED <<dec, decoding, out>> /\ link \in Seq(Packet)
        /\ NumChunks' = NumChunks
        /\ \A k : SizeOf(k)' = SizeOf(k) /\ BlockSize(k)' = BlockSize(k) /\ Needed(k)' = Needed(k)
    BY SizesFrame DEF receiver, CoreInv, LinkInv
  <1>1. ControlPkt(num) \in Packet /\ hgap_pkt_type(ControlPkt(num)) # "data"
    BY ControlPackets
  <1>2. \A k : Flying(k)' = Flying(k)
    <2>1. CASE link' = link
      BY <2>1 DEF Flying, IsData
    <2>2. CASE link' = Append(link, ControlPkt(num))
      BY <1>0, <1>1, <2>2, Appending
    <2>. QED BY <2>1, <2>2
  <1>3. \A k : Surviving(k)' = Surviving(k)
    BY <1>0, <1>2, SurvivingParts, GotFrame
  <1>4. SizeInv'
    <2>1. ASSUME NEW i \in 1 .. Len(link'), hgap_pkt_type(link'[i]) = "data"
          PROVE  /\ link'[i].size = SizeOf(link'[i].num)
                 /\ link'[i].dsize = BlockSize(link'[i].num)
      <3>1. i \in 1 .. Len(link) /\ link'[i] = link[i]
        BY <1>0, <1>1, <2>1, Sent
      <3>. QED BY <2>1, <3>1 DEF OpenInv, SizeInv, IsData
    <2>. QED BY <1>0, <1>3, <2>1 DEF OpenInv, SizeInv, IsData, NoChunk
  <1>5. BlockInv' /\ PrefixInv'
    BY <1>0 DEF OpenInv, BlockInv, PrefixInv, Prefix, NoChunk, IsSmall
  <1>6. LossInv'
    BY <1>0, <1>3 DEF OpenInv, LossInv
  <1>. QED BY <1>0, <1>4, <1>5, <1>6 DEF OpenInv

\* The first packet on the link that matters is a BEGIN.
FirstBegin ==
    \E i \in 1 .. Len(link) :
        /\ hgap_pkt_type(link[i]) = "begin"
        /\ \A j \in 1 .. i : hgap_pkt_type(link[j]) \notin {"data", "end"}

LEMMA BeginCases ==
    BeginInv <=> \/ dec.state # T_NEW \/ FirstBegin
                 \/ /\ phase = "begin" /\ salve <= lost
                    /\ \A j \in 1 .. Len(link) : hgap_pkt_type(link[j]) \notin {"data", "end"}
  BY DEF BeginInv, FirstBegin

\* It stays so, whatever the sender adds.
LEMMA BeginKept ==
    ASSUME link \in Seq(Packet), NEW pkt \in Packet, link' = link \/ link' = Append(link, pkt),
           dec' = dec, dec.state # T_NEW \/ FirstBegin
    PROVE  BeginInv'
  <1>1. CASE dec.state # T_NEW
    BY <1>1 DEF BeginInv
  <1>2. CASE FirstBegin
    <2>1. PICK i \in 1 .. Len(link) :
                 /\ hgap_pkt_type(link[i]) = "begin"
                 /\ \A j \in 1 .. i : hgap_pkt_type(link[j]) \notin {"data", "end"}
      BY <1>2 DEF FirstBegin
    <2>2. i \in 1 .. Len(link') /\ \A j \in 1 .. i : link'[j] = link[j]
      BY Appending
    <2>3. \A j \in 1 .. i : hgap_pkt_type(link'[j]) \notin {"data", "end"}
      BY <2>1, <2>2
    <2>4. hgap_pkt_type(link'[i]) = "begin"
      BY <2>1, <2>2
    <2>. QED BY <2>2, <2>3, <2>4 DEF BeginInv
  <1>. QED BY <1>1, <1>2

LEMMA HandwaveOpen == CoreInv /\ LinkTolerable /\ OpenInv /\ Handwave => OpenInv'
  <1>. SUFFICES ASSUME CoreInv, LinkTolerable, OpenInv, Handwave PROVE OpenInv'
    OBVIOUS
  <1>. SenderPart /\ LinkPart /\ ReceiverPart
    BY Parts
  <1>. DEFINE pkt == ControlPkt(HGAP_BEGIN_BEACON)
              last == salve + 1 = HGAP_SALVE_LEN
  <1>1. /\ phase = "begin" /\ UNCHANGED <<setup, run, file, chunk, sret, receiver>>
        /\ salve' = IF last THEN 0 ELSE salve + 1
        /\ phase' = IF last THEN "read" ELSE phase
        /\ \/ link' = Append(link, pkt)
           \/ /\ lost < setup.LossBudget /\ link' = link
              /\ lost' = IF last THEN 0 ELSE lost + 1
    BY DEF Handwave, Salve, Put
  <1>2. /\ pkt \in Packet /\ hgap_pkt_type(pkt) = "begin" /\ link \in Seq(Packet) /\ dec' = dec
    BY <1>1, ControlPackets, ControlTypes DEF LinkPart, LinkInv, receiver
  <1>. HIDE DEF pkt
  <1>3. /\ decoding' /\ dec'.state # T_STOPPED
        /\ SizeInv' /\ BlockInv' /\ PrefixInv' /\ LossInv'
    <2>1. phase' # "emit"
      BY <1>1
    <2>. QED BY <1>1, <2>1, ControlKeeps DEF pkt
  <1>4. \A i \in 1 .. Len(link') : \/ i \in 1 .. Len(link) /\ link'[i] = link[i]
                                   \/ i = Len(link) + 1 /\ link'[i] = pkt
    BY <1>1, <1>2, Sent
  <1>5. BeginInv'
    <2>1. CASE dec.state # T_NEW \/ FirstBegin
      BY <1>1, <1>2, <2>1, BeginKept
    <2>2. CASE /\ salve <= lost
               /\ \A j \in 1 .. Len(link) : hgap_pkt_type(link[j]) \notin {"data", "end"}
      <3>1. CASE link' = Append(link, pkt)
        <4>1. Len(link) + 1 \in 1 .. Len(link') /\ link'[Len(link) + 1] = pkt
          BY <1>2, <3>1, Appending
        <4>2. \A j \in 1 .. Len(link) + 1 : hgap_pkt_type(link'[j]) \notin {"data", "end"}
          BY <1>2, <2>2, <3>1, Appending
        <4>. QED BY <1>2, <4>1, <4>2 DEF BeginInv
      <3>2. CASE /\ lost < setup.LossBudget /\ link' = link
                 /\ lost' = IF last THEN 0 ELSE lost + 1
        <4>1. /\ salve \in Nat /\ lost \in Nat /\ setup.LossBudget < HGAP_SALVE_LEN
              /\ setup.LossBudget \in Nat /\ HGAP_SALVE_LEN \in Nat
          BY SetupFacts, TransferAssumption DEF SenderPart, LinkTolerable, ChunkInv
        <4>2. ~last
          BY <2>2, <3>2, <4>1
        <4>. QED BY <1>1, <2>2, <3>2, <4>1, <4>2 DEF BeginInv
      <3>. QED BY <1>1, <3>1, <3>2
    <2>. QED BY <2>1, <2>2, BeginCases DEF OpenInv
  <1>6. EndInv'
    <2>1. phase' \in {"begin", "read"}
      BY <1>1
    <2>2. \A i \in 1 .. Len(link') : hgap_pkt_type(link'[i]) # "end"
      BY <1>1, <1>2, <1>4 DEF OpenInv, EndInv
    <2>. QED BY <2>1, <2>2 DEF EndInv
  <1>. QED BY <1>3, <1>5, <1>6 DEF OpenInv

LEMMA TeardownOpen == CoreInv /\ OpenInv /\ Teardown => OpenInv'
  <1>. SUFFICES ASSUME CoreInv, OpenInv, Teardown PROVE OpenInv'
    OBVIOUS
  <1>. SenderPart /\ LinkPart /\ ReceiverPart
    BY Parts
  <1>. DEFINE pkt == ControlPkt(HGAP_NO_MORE_CHUNK)
  <1>1. /\ phase = "end" /\ UNCHANGED <<setup, run, file, chunk, sret, receiver>>
        /\ phase' \in {"end", "off"} /\ (link' = link \/ link' = Append(link, pkt))
    BY DEF Teardown, Salve, Put
  <1>2. /\ pkt \in Packet /\ hgap_pkt_type(pkt) = "end" /\ link \in Seq(Packet) /\ dec' = dec
        /\ Len(link) \in Nat
    BY <1>1, ControlPackets, ControlTypes DEF LinkPart, LinkInv, receiver
  <1>. HIDE DEF pkt
  <1>3. /\ decoding' /\ dec'.state # T_STOPPED
        /\ SizeInv' /\ BlockInv' /\ PrefixInv' /\ LossInv'
    BY <1>1, ControlKeeps DEF pkt
  <1>4. BeginInv'
    BY <1>1, <1>2, BeginKept, BeginCases DEF OpenInv
  <1>5. EndInv'
    <2>1. sret' = HGAP_SUCCESS => file' = NumChunks'
      BY <1>1 DEF OpenInv, EndInv, NumChunks
    <2>2. ASSUME NEW i \in 1 .. Len(link'), hgap_pkt_type(link'[i]) = "end",
                 NEW j \in i .. Len(link'), hgap_pkt_type(link'[j]) = "data"
          PROVE  FALSE
      <3>0. j \in 1 .. Len(link')
        BY <1>1, <1>2, Appending
      <3>1. j \in 1 .. Len(link) /\ link'[j] = link[j]
        BY <1>1, <1>2, <2>2, <3>0, Sent
      <3>2. i \in 1 .. Len(link) /\ link'[i] = link[i]
        BY <1>1, <1>2, <2>2, <3>1, Sent
      <3>3. j \in i .. Len(link)
        BY <2>2, <3>1, <3>2
      <3>. QED BY <2>2, <3>1, <3>2, <3>3 DEF OpenInv, EndInv, IsData
    <2>. QED BY <1>1, <2>1, <2>2 DEF EndInv, IsData
  <1>. QED BY <1>3, <1>4, <1>5 DEF OpenInv

LEMMA KeepaliveOpen == CoreInv /\ OpenInv /\ Keepalive => OpenInv'
  <1>. SUFFICES ASSUME CoreInv, OpenInv, Keepalive PROVE OpenInv'
    OBVIOUS
  <1>. SenderPart /\ LinkPart /\ ReceiverPart
    BY Parts
  <1>. DEFINE pkt == ControlPkt(HGAP_KEEP_ALIVE)
  <1>1. UNCHANGED <<setup, phase, run, salve, file, chunk, sret, lost, receiver>> /\ link' = Append(link, pkt)
    BY DEF Keepalive, sender
  <1>2. /\ pkt \in Packet /\ hgap_pkt_type(pkt) = "keepalive" /\ link \in Seq(Packet) /\ dec' = dec
        /\ Len(link) \in Nat
    BY <1>1, ControlPackets, ControlTypes DEF LinkPart, LinkInv, receiver
  <1>. HIDE DEF pkt
  <1>3. /\ decoding' /\ dec'.state # T_STOPPED
        /\ SizeInv' /\ BlockInv' /\ PrefixInv' /\ LossInv'
    BY <1>1, ControlKeeps DEF pkt
  <1>4. BeginInv'
    <2>1. CASE dec.state # T_NEW \/ FirstBegin
      BY <1>1, <1>2, <2>1, BeginKept
    <2>2. CASE /\ phase = "begin" /\ salve <= lost
               /\ \A j \in 1 .. Len(link) : hgap_pkt_type(link[j]) \notin {"data", "end"}
      <3>1. \A j \in 1 .. Len(link') : hgap_pkt_type(link'[j]) \notin {"data", "end"}
        BY <1>1, <1>2, <2>2, Sent
      <3>. QED BY <1>1, <2>2, <3>1 DEF BeginInv
    <2>. QED BY <2>1, <2>2, BeginCases DEF OpenInv
  <1>5. EndInv'
    <2>1. ASSUME NEW i \in 1 .. Len(link'), hgap_pkt_type(link'[i]) = "end"
          PROVE  /\ phase \in {"end", "off"}
                 /\ \A j \in i .. Len(link') : hgap_pkt_type(link'[j]) # "data"
      <3>1. i \in 1 .. Len(link) /\ link'[i] = link[i] /\ Len(link') = Len(link) + 1
        BY <1>1, <1>2, <2>1, Sent, Appending
      <3>2. phase \in {"end", "off"} /\ \A j \in i .. Len(link) : hgap_pkt_type(link[j]) # "data"
        BY <2>1, <3>1 DEF OpenInv, EndInv, IsData
      <3>3. \A j \in i .. Len(link') : \/ j \in i .. Len(link) /\ link'[j] = link[j]
                                       \/ link'[j] = pkt
        BY <1>1, <1>2, <3>1, Appending
      <3>. QED BY <1>2, <3>2, <3>3
    <2>. QED BY <1>1, <2>1 DEF OpenInv, EndInv, IsData, NumChunks
  <1>. QED BY <1>3, <1>4, <1>5 DEF OpenInv

LEMMA FirstId ==
    ASSUME NEW e, NEW data, NEW size, NEW r \in hgap_enc_chunk_init(e, hgap_enc_chunk_new, data, size)
    PROVE  r.chunk.next_pkt_id = 0
  <1>. DEFINE full == size + HGAP_HEADER_LEN
              c == [hgap_enc_chunk_new EXCEPT !.data = data,
                        !.num = e.next_chunk_num, !.len = size,
                        !.pkt_size = IF e.pkt_size < full THEN e.pkt_size ELSE full,
                        !.next_pkt_id = 0]
              next == [e EXCEPT !.next_chunk_num = (@ + 1) % NumModulus]
              small == hgap_enc_chunk_is_small(c)
              made == IF small THEN {c.wh_state} ELSE BOOLEAN
              made_of(wh) == [enc |-> next, chunk |-> [c EXCEPT !.wh_state = wh],
                              ret |-> IF small \/ wh THEN HGAP_SUCCESS
                                      ELSE HGAP_ERR_WIREHAIR_ERROR]
  <1>0. \E wh \in made : r = made_of(wh)
    BY Zenon DEF hgap_enc_chunk_init
  <1>1. PICK wh : r = made_of(wh)
    BY <1>0, Zenon
  <1>. HIDE DEF c, small
  <1>2. r.chunk = [c EXCEPT !.wh_state = wh]
    BY <1>1
  <1>. QED BY <1>2 DEF hgap_enc_chunk_new, c

\* Of a chunk that has just been read there is nothing on the link yet.
LEMMA NextChunkOpen ==
    CoreInv /\ OrderInv /\ run = 1 /\ LinkTolerable /\ OpenInv /\ NextChunk => OpenInv'
  <1>. SUFFICES ASSUME CoreInv, OrderInv, run = 1, LinkTolerable, OpenInv, NextChunk PROVE OpenInv'
    OBVIOUS
  <1>. SenderPart /\ LinkPart /\ ReceiverPart
    BY Parts
  <1>1. /\ phase = "read" /\ UNCHANGED <<setup, run, lost, link, dec, decoding, out>>
        /\ sret = HGAP_SUCCESS
        /\ \/ /\ phase' = "end" /\ file' = file /\ chunk' = chunk
              /\ sret' = HGAP_SUCCESS => file = NumChunks
           \/ /\ file < NumChunks /\ file' = file + 1 /\ chunk'.next_pkt_id = 0
              /\ \/ phase' = "emit" /\ sret' = HGAP_SUCCESS
                 \/ phase' = "end" /\ sret' # HGAP_SUCCESS
    <2>1. /\ phase = "read" /\ UNCHANGED <<setup, run, lost, link, dec, decoding, out>>
          /\ sret = HGAP_SUCCESS
      BY DEF NextChunk, receiver, SenderPart, ChunkInv
    <2>2. CASE ReadChunk
      <3>1. PICK r \in hgap_enc_chunk_init(enc, hgap_enc_chunk_new, Chunk(run, file), SizeOf(file)) :
                /\ chunk' = r.chunk /\ file' = file + 1
                /\ \/ phase' = "emit" /\ sret' = sret
                   \/ phase' = "end" /\ sret' = r.ret /\ r.ret # HGAP_SUCCESS
        BY <2>2 DEF ReadChunk, Pill
      <3>2. file < NumChunks
        BY <2>2 DEF ReadChunk
      <3>3. r.chunk.next_pkt_id = 0
        BY FirstId
      <3>. QED BY <2>1, <3>1, <3>2, <3>3
    <2>3. CASE ~ReadChunk
      <3>1. HGAP_ERR_FILE_READ # HGAP_SUCCESS
        BY DEF HGAP_ERR_FILE_READ, HGAP_SUCCESS
      <3>. QED BY <2>1, <2>3, <3>1 DEF NextChunk, Pill
    <2>. QED BY <2>2, <2>3
  <1>2. /\ file \in Nat /\ file <= NumChunks /\ lost \in Nat /\ link \in Seq(Packet)
        /\ NumChunks \in Nat /\ NumChunks < NumModulus - 16 /\ setup.Window = 1
        /\ \A i \in 1 .. Len(link) : link[i].num \in Nat
    <2>1. link \in Seq(Packet) /\ \A i \in 1 .. Len(link) : link[i] \in Packet
      BY DEF LinkPart, LinkInv
    <2>2. \A i \in 1 .. Len(link) : link[i].num \in Nat
      BY <2>1 DEF Packet
    <2>3. NumChunks \in Nat /\ NumChunks < NumModulus - 16 /\ setup.LossBudget \in Nat
      BY SetupFacts, ChunkFacts, Reserved DEF SenderPart, ChunkInv
    <2>. QED BY <2>1, <2>2, <2>3 DEF SenderPart, LinkTolerable
  <1>3. /\ NumChunks' = NumChunks
        /\ \A k : SizeOf(k)' = SizeOf(k) /\ BlockSize(k)' = BlockSize(k) /\ Needed(k)' = Needed(k)
    BY <1>1, SizesFrame
  <1>4. \A k : Surviving(k)' = Surviving(k)
    BY <1>1 DEF Surviving, IsSmall, IsData
  <1>5. BeginInv'
    BY <1>1, BeginCases DEF OpenInv, BeginInv, FirstBegin
  <1>6. EndInv'
    <2>1. \A i \in 1 .. Len(link) : hgap_pkt_type(link[i]) # "end"
      BY <1>1 DEF OpenInv, EndInv
    <2>. QED BY <1>1, <1>2, <1>3, <2>1 DEF EndInv, IsData
  <1>7. file < NumChunks => Surviving(file) = {}
    <2>. SUFFICES ASSUME file < NumChunks PROVE Surviving(file) = {}
      OBVIOUS
    <2>1. dec.num # file
      BY <1>2, NumModulusAssumption DEF OrderInv, NoChunk, HGAP_NO_MORE_CHUNK
    <2>2. \A i \in 1 .. Len(link) : IsData(i) => link[i].num # file
      BY <1>2 DEF OrderInv
    <2>. QED BY <2>1, <2>2 DEF Surviving
  <1>8. SizeInv'
    <2>1. file' > 0 /\ SizeOf(file' - 1) > 0 =>
              \A n \in Surviving(file' - 1) : n < chunk'.next_pkt_id
      <3>1. CASE file' = file /\ chunk' = chunk
        BY <1>1, <3>1 DEF OpenInv, SizeInv
      <3>2. CASE file < NumChunks /\ file' = file + 1
        <4>1. file' - 1 = file
          BY <1>2, <3>2
        <4>. QED BY <1>7, <3>2, <4>1
      <3>. QED BY <1>1, <3>1, <3>2
    <2>2. (file > 0 /\ SizeOf(file - 1) > 0 => \A n \in Surviving(file - 1) : n < chunk.next_pkt_id)'
      <3>1. SizeOf(file - 1)' = SizeOf(file' - 1) /\ Surviving(file - 1)' = Surviving(file' - 1)
        BY <1>1 DEF SizeOf, NumChunks, Surviving, IsSmall, IsData
      <3>. QED BY <2>1, <3>1
    <2>. QED BY <1>1, <1>3, <2>2 DEF OpenInv, SizeInv, IsData, NoChunk
  <1>9. BlockInv' /\ PrefixInv'
    BY <1>1, <1>3 DEF OpenInv, BlockInv, PrefixInv, Prefix, NoChunk, IsSmall
  <1>10. LossInv'
    <2>. SUFFICES ASSUME NEW k \in Len(out) .. file' - 1, SizeOf(k) > 0
                  PROVE  /\ IsFiniteSet(Surviving(k))
                         /\ k < file' - 1 \/ (phase' # "emit" /\ sret' = HGAP_SUCCESS) =>
                                Cardinality(Surviving(k)) >= Needed(k)
                         /\ k = file' - 1 /\ phase' = "emit" =>
                                Cardinality(Surviving(k)) + lost >= chunk'.next_pkt_id
      BY <1>1, <1>3, <1>4 DEF LossInv
    <2>0. Len(out) \in Nat
      BY DEF ReceiverPart
    <2>1. CASE k = file /\ file < NumChunks /\ file' = file + 1
      <3>1. Surviving(k) = {} /\ chunk'.next_pkt_id = 0 /\ ~ (k < file' - 1)
        BY <1>1, <1>2, <1>7, <2>1
      <3>2. ~ (phase' # "emit" /\ sret' = HGAP_SUCCESS)
        BY <1>1, <1>2, <2>1
      <3>. QED BY <1>2, <3>1, <3>2, FS_EmptySet
    <2>2. CASE ~ (k = file /\ file < NumChunks /\ file' = file + 1)
      <3>1. k \in Len(out) .. file - 1 /\ ~ (phase' = "emit" /\ k = file' - 1)
        BY <1>1, <1>2, <2>0, <2>2
      <3>. QED BY <1>1, <3>1 DEF OpenInv, LossInv
    <2>. QED BY <2>1, <2>2
  <1>. QED BY <1>1, <1>5, <1>6, <1>8, <1>9, <1>10 DEF OpenInv

LEMMA DataTypes ==
    ASSUME NEW pkt \in Packet, pkt.num < HGAP_FIRST_RESERVED
    PROVE  /\ hgap_pkt_type(pkt) # "end"
           /\ pkt.len >= HGAP_HEADER_LEN => hgap_pkt_type(pkt) = "data"
  BY NumModulusAssumption
  DEF hgap_pkt_type, Packet, HGAP_HEADER_LEN, HGAP_FIRST_RESERVED,
      HGAP_BEGIN_BEACON, HGAP_NO_MORE_CHUNK, HGAP_KEEP_ALIVE

\* The packet of the chunk that is being sent.
LEMMA EmittedFacts ==
    ASSUME CoreInv, phase = "emit"
    PROVE  /\ EmittedPkt(chunk) \in Packet /\ EmittedPkt(chunk).num = file - 1
           /\ EmittedPkt(chunk).size = SizeOf(file - 1) /\ EmittedPkt(chunk).dsize = BlockSize(file - 1)
           /\ EmittedPkt(chunk).id = chunk.next_pkt_id
           /\ hgap_pkt_type(EmittedPkt(chunk)) # "end"
           /\ SizeOf(file - 1) > 0 => hgap_pkt_type(EmittedPkt(chunk)) = "data"
           /\ file \in Nat /\ file > 0 /\ file - 1 \in 0 .. NumChunks - 1
  <1>. SenderPart
    BY Parts
  <1>. DEFINE pkt == EmittedPkt(chunk)
  <1>1. /\ setup \in Setups /\ file \in Nat /\ file > 0 /\ file - 1 \in 0 .. NumChunks - 1
        /\ NumChunks < HGAP_FIRST_RESERVED /\ NumChunks \in Nat /\ HGAP_FIRST_RESERVED = NumModulus - 16
    BY ChunkFacts, Reserved DEF SenderPart, ChunkInv
  <1>2. /\ chunk.num = file - 1 /\ chunk.len = SizeOf(file - 1) /\ chunk.data \in Contents \union {NULL}
        /\ pkt.dsize = BlockSize(file - 1)
        /\ chunk.len \in Nat /\ chunk.pkt_size \in Nat /\ chunk.next_pkt_id \in Nat
    BY <1>1 DEF SenderPart, ChunkInv
  <1>3. /\ pkt.num = chunk.num /\ pkt.size = chunk.len /\ pkt.id = chunk.next_pkt_id
        /\ pkt.len = chunk.pkt_size
        /\ pkt.dsize = IF chunk.len <= chunk.pkt_size - 24 THEN chunk.len ELSE chunk.pkt_size - 24
        /\ pkt = [num |-> chunk.num, size |-> chunk.len, id |-> chunk.next_pkt_id,
                  dsize |-> pkt.dsize, len |-> chunk.pkt_size, body |-> chunk.data]
    BY HeaderLen DEF EmittedPkt, hgap_enc_chunk_is_small, PayloadSize
  <1>. HIDE DEF pkt
  <1>4. BlockSize(file - 1) \in Nat /\ (SizeOf(file - 1) > 0 => BlockSize(file - 1) > 0)
    BY <1>1, NeededFacts
  <1>5. pkt \in Packet
    <2>1. file - 1 \in 0 .. NumModulus - 1
      BY <1>1, NumModulusAssumption
    <2>. QED BY <1>2, <1>3, <1>4, <2>1 DEF Packet, Bodies
  <1>6. SizeOf(file - 1) > 0 => pkt.len >= HGAP_HEADER_LEN
    BY <1>2, <1>3, <1>4, HeaderLen
  <1>7. pkt.num < HGAP_FIRST_RESERVED
    BY <1>1, <1>2, <1>3, Reserved
  <1>8. /\ hgap_pkt_type(pkt) # "end"
        /\ SizeOf(file - 1) > 0 => hgap_pkt_type(pkt) = "data"
    BY <1>5, <1>6, <1>7, DataTypes
  <1>. QED BY <1>1, <1>2, <1>3, <1>5, <1>8 DEF pkt

\* A packet of the chunk that is being sent: it survives with a new id, or is one more
\* of the lost ones.
LEMMA SendOpen ==
    ASSUME CoreInv, CoreInv', LinkTolerable, OpenInv, EmitPkt, SendPkt
    PROVE  OpenInv'
  <1>. SenderPart /\ LinkPart /\ ReceiverPart
    BY Parts
  <1>. DEFINE pkt == EmittedPkt(chunk)
              n == chunk.next_pkt_id
  <1>0. PICK k : k = file - 1
    OBVIOUS
  <1>1. /\ phase = "emit" /\ UNCHANGED <<setup, run, file, sret, dec, decoding, out>>
        /\ link \in Seq(Packet) /\ n \in Nat /\ lost \in Nat /\ setup.LossBudget \in Nat
        /\ lost <= setup.LossBudget /\ setup \in Setups
    <2>1. phase = "emit" /\ UNCHANGED <<setup, run, file, sret, dec, decoding, out>>
      BY DEF EmitPkt, SendPkt, receiver
    <2>2. link \in Seq(Packet) /\ n \in Nat /\ setup \in Setups
      BY DEF LinkPart, LinkInv, SenderPart, ChunkInv
    <2>3. setup.LossBudget \in Nat /\ lost \in 0 .. setup.LossBudget
      BY <2>2, SetupFacts DEF SenderPart
    <2>. QED BY <2>1, <2>2, <2>3
  <1>2. /\ pkt \in Packet /\ pkt.num = k /\ pkt.size = SizeOf(k) /\ pkt.dsize = BlockSize(k)
        /\ pkt.id = n /\ hgap_pkt_type(pkt) # "end"
        /\ SizeOf(k) > 0 => hgap_pkt_type(pkt) = "data"
        /\ file \in Nat /\ file > 0 /\ k \in 0 .. NumChunks - 1 /\ k \in Int
    BY <1>0, <1>1, EmittedFacts
  <1>3. sret = HGAP_SUCCESS /\ SizeOf(k) > 0 => chunk'.next_pkt_id = n + 1
    <2>1. chunk' = AfterEmit(chunk)
      BY DEF SendPkt
    <2>2. chunk'.next_pkt_id = NextId(n)
      BY <2>1 DEF AfterEmit, SenderPart, ChunkInv
    <2>3. chunk.len = SizeOf(k)
      BY <1>0, <1>1, <1>2 DEF SenderPart, ChunkInv
    <2>. QED BY <1>1, <2>2, <2>3, EnoughIds
  <1>4. PICK more \in BelowRedund(chunk', setup.RedundNum, setup.RedundDen) :
            /\ phase' = IF more THEN "emit" ELSE IF sret = HGAP_SUCCESS THEN "read" ELSE "end"
            /\ Put(pkt, ~more)
    BY DEF SendPkt
  <1>. HIDE DEF pkt, n
  <1>5. \/ link' = Append(link, pkt) /\ (more => lost' = lost)
        \/ lost + 1 <= setup.LossBudget /\ link' = link /\ (more => lost' = lost + 1)
    BY <1>1, <1>4 DEF Put
  <1>6. /\ NumChunks' = NumChunks /\ LinkTolerable'
        /\ \A j : SizeOf(j)' = SizeOf(j) /\ BlockSize(j)' = BlockSize(j) /\ Needed(j)' = Needed(j)
    BY <1>1, SizesFrame
  <1>7. \A j : Surviving(j)' = IF link' # link /\ hgap_pkt_type(pkt) = "data" /\ j = k
                               THEN Surviving(j) \union {n} ELSE Surviving(j)
    <2>1. CASE link' = link
      BY <1>1, <2>1 DEF Surviving, IsSmall, IsData
    <2>2. CASE link' = Append(link, pkt)
      <3>1. /\ \A j : Flying(j)' = IF hgap_pkt_type(pkt) = "data" /\ pkt.num = j
                                   THEN Flying(j) \union {pkt.id} ELSE Flying(j)
            /\ link' # link
        BY <1>1, <1>2, <2>2, Appending
      <3>2. \A j : Got(j)' = Got(j)
        BY <1>1, GotFrame
      <3>. QED BY <1>2, <3>1, <3>2, SurvivingParts
    <2>. QED BY <1>5, <2>1, <2>2
  <1>8. \A i \in 1 .. Len(link') : \/ i \in 1 .. Len(link) /\ link'[i] = link[i]
                                   \/ i = Len(link) + 1 /\ link'[i] = pkt
    BY <1>1, <1>2, <1>5, Sent
  <1>9. BeginInv'
    BY <1>1, <1>2, <1>5, BeginKept, BeginCases DEF OpenInv
  <1>10. EndInv'
    <2>1. sret' = HGAP_SUCCESS => phase' \in {"emit", "read"}
      BY <1>1, <1>4
    <2>2. \A i \in 1 .. Len(link') : hgap_pkt_type(link'[i]) # "end"
      BY <1>1, <1>2, <1>8 DEF OpenInv, EndInv
    <2>. QED BY <2>1, <2>2 DEF EndInv
  <1>11. SizeInv'
    <2>1. \A i \in 1 .. Len(link') : hgap_pkt_type(link'[i]) = "data" =>
              /\ link'[i].size = SizeOf(link'[i].num) /\ link'[i].dsize = BlockSize(link'[i].num)
      BY <1>2, <1>8 DEF OpenInv, SizeInv, IsData
    <2>2. ASSUME sret = HGAP_SUCCESS, SizeOf(k) > 0
          PROVE  \A m \in Surviving(k)' : m < chunk'.next_pkt_id
      <3>1. \A m \in Surviving(k) : m < n
        BY <1>0, <1>2, <2>2 DEF OpenInv, SizeInv, n
      <3>2. Surviving(k) \subseteq Nat
        <4>1. \A i \in 1 .. Len(link) : link[i] \in Packet
          BY <1>1
        <4>2. \A i \in 1 .. Len(link) : link[i].id \in Nat
          BY <4>1 DEF Packet
        <4>3. \A b \in dec.blocks : b.id \in Nat
          BY DEF ReceiverPart, StartInv, DecoderState
        <4>. QED BY <4>2, <4>3 DEF Surviving
      <3>. QED BY <1>1, <1>3, <1>7, <2>2, <3>1, <3>2
    <2>3. Surviving(file - 1)' = Surviving(k)' /\ SizeOf(file - 1)' = SizeOf(k)
      BY <1>0, <1>1 DEF SizeOf, NumChunks
    <2>. QED BY <1>1, <1>6, <2>1, <2>2, <2>3 DEF OpenInv, SizeInv, IsData, NoChunk
  <1>12. BlockInv' /\ PrefixInv'
    BY <1>1, <1>6 DEF OpenInv, BlockInv, PrefixInv, Prefix, NoChunk, IsSmall
  <1>13. LossInv'
    <2>. SUFFICES ASSUME NEW j \in Len(out) .. k, SizeOf(j) > 0
                  PROVE  /\ IsFiniteSet(Surviving(j)')
                         /\ j < k \/ (phase' # "emit" /\ sret = HGAP_SUCCESS) =>
                                Cardinality(Surviving(j)') >= Needed(j)
                         /\ j = k /\ phase' = "emit" /\ sret = HGAP_SUCCESS =>
                                Cardinality(Surviving(j)') + lost' >= chunk'.next_pkt_id
      BY <1>0, <1>1, <1>6 DEF LossInv
    <2>0. Len(out) \in Nat /\ j \in Int
      BY DEF ReceiverPart
    <2>1. CASE j # k
      <3>1. Surviving(j)' = Surviving(j) /\ j < file - 1 /\ j \in Len(out) .. file - 1
        BY <1>0, <1>2, <1>7, <2>0, <2>1
      <3>. QED BY <2>1, <3>1 DEF OpenInv, LossInv
    <2>2. CASE j = k
      <3>. DEFINE S == Surviving(k)
                  T == Surviving(k)'
      <3>1. /\ IsFiniteSet(S) /\ SizeOf(k) > 0
            /\ sret = HGAP_SUCCESS => Cardinality(S) + lost >= n
        BY <1>0, <1>1, <2>2 DEF OpenInv, LossInv, n
      <3>2. sret = HGAP_SUCCESS => n \notin S
        BY <1>0, <1>1, <1>2, <3>1 DEF OpenInv, SizeInv, n
      <3>3. T = IF link' = link THEN S ELSE S \union {n}
        BY <1>2, <1>7, <3>1
      <3>. HIDE DEF S, T
      <3>4. /\ Cardinality(S) \in Nat /\ IsFiniteSet(T) /\ Cardinality(T) \in Nat
            /\ sret = HGAP_SUCCESS =>
                   Cardinality(T) = IF link' = link THEN Cardinality(S) ELSE Cardinality(S) + 1
        BY <3>1, <3>2, <3>3, FS_CardinalityType, FS_AddElement
      <3>5. ASSUME sret = HGAP_SUCCESS
            PROVE  /\ Cardinality(T) + setup.LossBudget >= n + 1
                   /\ more => Cardinality(T) + lost' >= n + 1
        <4>1. CASE link' = Append(link, pkt) /\ (more => lost' = lost)
          <5>1. link' # link
            BY <1>1, <1>2, <4>1, Appending
          <5>. QED BY <1>1, <3>1, <3>4, <3>5, <4>1, <5>1
        <4>2. CASE lost + 1 <= setup.LossBudget /\ link' = link /\ (more => lost' = lost + 1)
          BY <1>1, <3>1, <3>4, <3>5, <4>2
        <4>. QED BY <1>5, <4>1, <4>2
      <3>6. ASSUME sret = HGAP_SUCCESS, ~more PROVE Cardinality(T) >= Needed(k)
        <4>1. (CoreInv /\ LinkTolerable /\ phase = "read" /\ file > 0 /\ SizeOf(file - 1) > 0)'
          BY <1>0, <1>1, <1>2, <1>4, <1>6, <3>1, <3>6
        <4>2. (chunk.next_pkt_id - setup.LossBudget >= Needed(file - 1))'
          BY <4>1, SentIsEnough, PTL
        <4>3. n + 1 - setup.LossBudget >= Needed(k)
          BY <1>0, <1>1, <1>3, <1>6, <3>1, <3>6, <4>2
        <4>4. Needed(k) \in Nat
          BY <1>1, <1>2, <3>1, NeededFacts
        <4>. QED BY <1>1, <3>4, <3>5, <3>6, <4>3, <4>4
      <3>7. (phase' = "emit" => more) /\ (more => phase' = "emit") /\ ~ (j < k)
        BY <1>2, <1>4, <2>2
      <3>. USE DEF T
      <3>. QED BY <1>3, <2>2, <3>1, <3>4, <3>5, <3>6, <3>7
    <2>. QED BY <2>1, <2>2
  <1>. QED BY <1>1, <1>9, <1>10, <1>11, <1>12, <1>13 DEF OpenInv

\* A block that wirehair does not make: nothing is counted for this chunk any more.
LEMMA FailOpen ==
    ASSUME CoreInv, OpenInv, EmitPkt, EmitFails
    PROVE  OpenInv'
  <1>. SenderPart /\ LinkPart /\ ReceiverPart
    BY Parts
  <1>1. /\ phase = "emit" /\ phase' = "emit" /\ sret' # HGAP_SUCCESS
        /\ UNCHANGED <<setup, run, salve, file, lost, link, dec, decoding, out>>
    BY DEF EmitPkt, EmitFails, receiver, HGAP_ERR_WIREHAIR_ERROR, HGAP_SUCCESS
  <1>2. /\ NumChunks' = NumChunks
        /\ \A k : SizeOf(k)' = SizeOf(k) /\ BlockSize(k)' = BlockSize(k) /\ Needed(k)' = Needed(k)
        /\ \A k : Surviving(k)' = Surviving(k)
    BY <1>1, SizesFrame DEF Surviving, IsSmall, IsData
  <1>3. BeginInv' /\ EndInv'
    BY <1>1, <1>2 DEF OpenInv, BeginInv, EndInv, IsData
  <1>4. SizeInv'
    BY <1>1, <1>2 DEF OpenInv, SizeInv, NoChunk, IsData
  <1>5. BlockInv' /\ PrefixInv'
    BY <1>1, <1>2 DEF OpenInv, BlockInv, PrefixInv, Prefix, NoChunk, IsSmall
  <1>6. LossInv'
    BY <1>1, <1>2 DEF OpenInv, LossInv
  <1>. QED BY <1>1, <1>3, <1>4, <1>5, <1>6 DEF OpenInv

LEMMA EmitOpen ==
    CoreInv /\ CoreInv' /\ LinkTolerable /\ OpenInv /\ EmitPkt => OpenInv'
  BY SendOpen, FailOpen DEF EmitPkt

-----------------------------------------------------------------------------
(* The receiver.                                                           *)

\* What the invariants say of an open receiver.
LEMMA OpenFacts ==
    ASSUME CoreInv, ContentInv, run = 1, OpenInv
    PROVE  /\ setup \in Setups /\ NumChunks \in Nat \ {0} /\ file \in Nat
           /\ out \in Seq(Bodies) /\ Len(out) \in Nat
           /\ link \in Seq(Packet) /\ Len(link) \in Nat
           /\ dec \in DecoderState /\ dec.num \in Nat /\ PureDecoder(dec)
           /\ dec.chunk_complete <=> dec.chunk_emitted
           /\ ~dec.chunk_complete => Prepared(dec)
  <1>. SenderPart /\ LinkPart /\ ReceiverPart
    BY Parts
  <1>1. setup \in Setups
    BY DEF SenderPart, ChunkInv
  <1>2. NumChunks \in Nat \ {0} /\ file \in Nat
    BY <1>1, ChunkFacts DEF SenderPart
  <1>3. link \in Seq(Packet) /\ Len(link) \in Nat /\ out \in Seq(Bodies) /\ Len(out) \in Nat
    BY DEF LinkPart, LinkInv, ReceiverPart
  <1>4. /\ dec \in DecoderState /\ PureDecoder(dec)
        /\ dec.chunk_complete <=> dec.chunk_emitted
    BY DEF ReceiverPart, StartInv, OpenInv, ContentInv
  <1>5. dec.num \in Nat
    BY <1>4 DEF DecoderState
  <1>6. ~dec.chunk_complete => Prepared(dec)
    <2>. SUFFICES ASSUME ~dec.chunk_complete, ~IsSmall(dec) PROVE dec.wh_state /\ dec.data = NULL
      BY DEF Prepared
    <2>1. ~NoChunk(dec) /\ dec.data = NULL
      BY <1>1, <1>4, NumOfChunk DEF PureDecoder, NoChunk
    <2>2. dec.wh_state
      BY <2>1 DEF OpenInv, BlockInv
    <2>. QED BY <2>1, <2>2
  <1>. QED BY <1>1, <1>2, <1>3, <1>4, <1>5, <1>6

\* Behind an END no block is in flight: all that was not written yet would be in the
\* decoder, which does not have enough of it.
LEMMA EndMeansAll ==
    ASSUME CoreInv, ContentInv, run = 1, OpenInv, sret = HGAP_SUCCESS,
           1 \in 1 .. Len(link), hgap_pkt_type(link[1]) = "end"
    PROVE  out = Everything
  <1>1. /\ setup \in Setups /\ NumChunks \in Nat \ {0} /\ out \in Seq(Bodies) /\ Len(out) \in Nat
        /\ Len(link) \in Nat /\ (dec.chunk_complete => dec.chunk_emitted)
        /\ dec \in DecoderState /\ PureDecoder(dec)
    BY OpenFacts
  <1>2. /\ phase # "emit" /\ file = NumChunks
        /\ \A j \in 1 .. Len(link) : ~IsData(j)
    BY <1>1 DEF OpenInv, EndInv
  <1>3. ASSUME NEW k \in Len(out) .. NumChunks - 1, SizeOf(k) > 0
        PROVE  FALSE
    <2>1. k \in 0 .. NumChunks - 1 /\ k \in Int
      BY <1>1, <1>3
    <2>2. k # HGAP_NO_MORE_CHUNK
      BY <1>1, <2>1, NumOfChunk
    <2>3. IsFiniteSet(Surviving(k)) /\ Cardinality(Surviving(k)) >= Needed(k)
      BY <1>2, <1>3 DEF OpenInv, LossInv
    <2>4. Needed(k) \in Nat /\ Needed(k) > 0
      BY <1>1, <1>3, <2>1, NeededFacts
    <2>5. Surviving(k) = Got(k)
      <3>1. Flying(k) = {}
        BY <1>2 DEF Flying
      <3>. QED BY <3>1, SurvivingParts
    <2>6. Got(k) # {}
      BY <2>3, <2>4, <2>5, FS_EmptySet
    <2>7. dec.num = k /\ ~IsSmall(dec) /\ Got(k) = Ids(dec.blocks)
      BY <2>6 DEF Got, Ids
    <2>8. ~dec.chunk_complete
      BY <1>1, <1>3, <2>1, <2>2, <2>7 DEF OpenInv, PrefixInv, NoChunk
    <2>9. Cardinality(Ids(dec.blocks)) < Needed(k)
      BY <2>2, <2>7, <2>8 DEF OpenInv, BlockInv, NoChunk, Ids
    <2>. QED BY <2>3, <2>4, <2>5, <2>7, <2>9, FS_CardinalityType
  <1>. DEFINE n == NumChunks - (IF SizeOf(NumChunks - 1) = 0 THEN 1 ELSE 0)
  <1>4. SizeOf(NumChunks - 1) \in Nat /\ \A k \in Int : k < NumChunks - 1 => SizeOf(k) > 0
    <2>1. NumChunks - 1 \in Int
      BY <1>1
    <2>. QED BY <1>1, <2>1, NeededFacts
  <1>5. Len(out) >= n
    <2>. SUFFICES ASSUME Len(out) < n PROVE FALSE
      BY <1>1
    <2>1. Len(out) \in Len(out) .. NumChunks - 1
      BY <1>1
    <2>2. SizeOf(Len(out)) > 0
      BY <1>1, <1>4
    <2>. QED BY <1>3, <2>1, <2>2
  <1>6. Len(out) <= n
    <2>1. CASE NoChunk(dec)
      BY <1>1, <2>1 DEF OpenInv, PrefixInv
    <2>2. CASE ~NoChunk(dec)
      <3>1. dec.num \in 0 .. NumChunks - 1
        BY <1>1, <2>2 DEF PureDecoder
      <3>2. dec.chunk_emitted => SizeOf(dec.num) > 0
        BY <2>2 DEF OpenInv, PrefixInv, SizeInv
      <3>. QED BY <1>1, <2>2, <3>1, <3>2 DEF OpenInv, PrefixInv
    <2>. QED BY <2>1, <2>2
  <1>7. n \in Nat /\ Len(out) = n
    BY <1>1, <1>5, <1>6
  <1>. HIDE DEF n
  <1>8. out = [k \in 1 .. n |-> Chunk(1, k - 1)]
    <2>1. out = [k \in 1 .. n |-> out[k]]
      BY <1>1, <1>7
    <2>2. \A k \in 1 .. n : out[k] = Chunk(1, k - 1)
      BY <1>7 DEF OpenInv, PrefixInv, Prefix
    <2>. QED BY <2>1, <2>2
  <1>. QED BY <1>8 DEF Everything, n

\* No chunk is left out: of one that was left out blocks would be in flight, before
\* the packet that comes.
LEMMA NextInOrder ==
    ASSUME CoreInv, ContentInv, OrderInv, run = 1, setup.Window = 1, OpenInv,
           1 \in 1 .. Len(link), IsData(1),
           IF link[1].num = dec.num THEN ~dec.chunk_complete ELSE dec.chunk_complete
    PROVE  link[1].num = Len(out) /\ link[1].num \in 0 .. NumChunks - 1 /\ link[1].num < file
  <1>. DEFINE m == link[1].num
              k == Len(out)
  <1>1. /\ setup \in Setups /\ NumChunks \in Nat \ {0} /\ k \in Nat /\ file \in Nat
        /\ Len(link) \in Nat /\ (dec.chunk_complete => dec.chunk_emitted)
        /\ (dec.chunk_emitted => dec.chunk_complete)
        /\ dec.num \in Nat /\ PureDecoder(dec) /\ m \in 0 .. NumChunks - 1 /\ m < file
        /\ \A j \in 1 .. Len(link) : IsData(j) => link[j].num \in 0 .. NumChunks - 1
    BY OpenFacts DEF ContentInv, OrderInv
  <1>2. m # HGAP_NO_MORE_CHUNK
    BY <1>1, NumOfChunk
  <1>3. CASE m = dec.num
    BY <1>1, <1>2, <1>3 DEF OpenInv, PrefixInv, NoChunk
  <1>4. CASE m # dec.num
    <2>1. k = IF NoChunk(dec) THEN 0 ELSE dec.num + 1
      BY <1>1, <1>4 DEF OpenInv, PrefixInv
    <2>2. m >= k
      BY <1>1, <1>4, <2>1 DEF OrderInv
    <2>. SUFFICES ASSUME m > k PROVE FALSE
      BY <1>1, <2>2
    <2>3. k \in Len(out) .. file - 1 /\ k < file - 1 /\ k < NumChunks - 1 /\ k \in 0 .. NumChunks - 1
      BY <1>1
    <2>4. SizeOf(k) > 0 /\ Needed(k) \in Nat /\ Needed(k) > 0
      BY <1>1, <2>3, NeededFacts
    <2>5. IsFiniteSet(Surviving(k)) /\ Cardinality(Surviving(k)) >= Needed(k)
      BY <2>3, <2>4 DEF OpenInv, LossInv
    <2>6. Got(k) = {}
      <3>1. dec.num # k
        BY <1>1, <2>1, <2>3, NumOfChunk DEF NoChunk
      <3>. QED BY <3>1 DEF Got, Ids
    <2>7. Flying(k) = {}
      <3>1. \A j \in 1 .. Len(link) : IsData(j) => link[j].num >= m
        BY <1>1 DEF OrderInv
      <3>2. \A j \in 1 .. Len(link) : IsData(j) => link[j].num # k
        BY <1>1, <3>1
      <3>. QED BY <3>2 DEF Flying
    <2>8. Surviving(k) = {}
      BY <2>6, <2>7, SurvivingParts
    <2>. QED BY <2>4, <2>5, <2>8, FS_EmptySet
  <1>. QED BY <1>1, <1>3, <1>4

\* What a delivery does to the decoder and to the blocks, if it leaves the receiver open.
Progress ==
    /\ BlockInv' /\ PrefixInv'
    /\ (~NoChunk(dec) => dec.len = SizeOf(dec.num) /\ dec.dsize = BlockSize(dec.num))'
    /\ \A k : Surviving(k)' \subseteq Surviving(k)
    /\ \A k \in Len(out') .. file - 1 : SizeOf(k) > 0 => Surviving(k)' = Surviving(k)

\* The packet is of a chunk that is written already, or no data.
LEMMA KeptProgress ==
    ASSUME CoreInv, ContentInv, run = 1, OpenInv,
           1 \in 1 .. Len(link), link' = RemoveAt(link, 1), UNCHANGED sender,
           out' = out, dec' = [dec EXCEPT !.state = dec'.state],
           IsData(1) => link[1].num = dec.num /\ dec.chunk_complete
    PROVE  Progress
  <1>1. /\ setup \in Setups /\ link \in Seq(Packet) /\ dec \in DecoderState /\ dec.num \in Nat
        /\ (dec.chunk_complete => dec.chunk_emitted) /\ setup' = setup /\ Len(out) \in Nat
    BY OpenFacts DEF sender
  <1>2. /\ dec'.num = dec.num /\ dec'.len = dec.len /\ dec'.dsize = dec.dsize
        /\ dec'.blocks = dec.blocks /\ dec'.wh_state = dec.wh_state
        /\ dec'.chunk_complete = dec.chunk_complete /\ dec'.chunk_emitted = dec.chunk_emitted
    BY <1>1 DEF DecoderState
  <1>3. /\ NumChunks' = NumChunks
        /\ \A k : SizeOf(k)' = SizeOf(k) /\ BlockSize(k)' = BlockSize(k) /\ Needed(k)' = Needed(k)
    BY <1>1, SizesFrame
  <1>4. BlockInv' /\ PrefixInv'
    BY <1>2, <1>3 DEF OpenInv, BlockInv, PrefixInv, Prefix, NoChunk, IsSmall
  <1>5. (~NoChunk(dec) => dec.len = SizeOf(dec.num) /\ dec.dsize = BlockSize(dec.num))'
    BY <1>1, <1>2 DEF OpenInv, SizeInv, NoChunk, SizeOf, BlockSize, NumChunks
  <1>6. \A k : Got(k)' = Got(k)
    BY <1>2 DEF Got, IsSmall
  <1>7. \A k : Flying(k) = IF IsData(1) /\ link[1].num = k
                           THEN Flying(k)' \union {link[1].id} ELSE Flying(k)'
    BY <1>1, Removing DEF IsData
  <1>8. \A k : Surviving(k)' \subseteq Surviving(k)
    BY <1>6, <1>7, SurvivingParts
  <1>9. \A k \in Len(out') .. file - 1 : Surviving(k)' = Surviving(k)
    <2>. SUFFICES ASSUME NEW k \in Len(out) .. file - 1, IsData(1), link[1].num = k PROVE FALSE
      BY <1>6, <1>7, SurvivingParts
    <2>1. k = dec.num /\ dec.chunk_emitted
      BY <1>1
    <2>2. ~NoChunk(dec)
      BY <1>1, <2>1, NumOfChunk DEF ContentInv, NoChunk
    <2>3. Len(out) = k + 1
      BY <2>1, <2>2 DEF OpenInv, PrefixInv
    <2>. QED BY <1>1, <2>1, <2>3
  <1>. QED BY <1>4, <1>5, <1>8, <1>9 DEF Progress

\* The packet is given to the decoder: its block moves from the link to the decoder.
LEMMA FedProgress ==
    ASSUME CoreInv, CoreInv', ContentInv, OrderInv, run = 1, setup.Window = 1, OpenInv,
           1 \in 1 .. Len(link), link' = RemoveAt(link, 1), UNCHANGED sender,
           IsData(1), Fed(dec, link[1], dec'), dec'.chunk_emitted <=> dec'.chunk_complete,
           out' = IF dec'.chunk_complete THEN Append(out, Chunk(1, link[1].num)) ELSE out
    PROVE  Progress
  <1>. SenderPart /\ LinkPart /\ ReceiverPart
    BY Parts
  <1>0. PICK pkt, m : pkt = link[1] /\ m = pkt.num
    OBVIOUS
  <1>1. /\ setup \in Setups /\ link \in Seq(Packet) /\ dec \in DecoderState /\ dec.num \in Nat
        /\ (dec.chunk_complete <=> dec.chunk_emitted) /\ setup' = setup /\ Len(out) \in Nat
        /\ out \in Seq(Bodies) /\ NumChunks \in Nat /\ file \in Nat /\ pkt \in Packet
    BY <1>0, OpenFacts DEF sender
  <1>2. dec' \in DecoderState
    BY DEF CoreInv, StartInv
  <1>3. /\ dec'.num = m
        /\ IF m = dec.num
           THEN ~dec.chunk_complete /\ dec'.len = dec.len /\ dec'.dsize = dec.dsize
           ELSE dec.chunk_complete /\ dec'.len = pkt.size /\ dec'.dsize = pkt.dsize
        /\ IsSmall(dec') => (dec'.chunk_complete <=> dec'.len > 0)
        /\ ~IsSmall(dec') =>
            /\ dec'.wh_state
            /\ dec'.blocks = (IF m = dec.num THEN dec.blocks ELSE {})
                               \union {[id |-> pkt.id, body |-> pkt.body]}
            /\ ~dec'.chunk_complete =>
                 \/ Cardinality(Ids(dec'.blocks)) < CeilDiv(dec'.len, dec'.dsize)
                 \/ ~ (Cardinality(Ids(dec'.blocks)) >= Enough(dec'))
    BY <1>0 DEF Fed
  <1>4. m = Len(out) /\ m \in 0 .. NumChunks - 1 /\ m < file
    BY <1>0, <1>3, NextInOrder
  <1>5. m # HGAP_NO_MORE_CHUNK /\ (~NoChunk(dec))'
    BY <1>1, <1>3, <1>4, NumOfChunk DEF NoChunk
  <1>6. /\ \A k : SizeOf(k)' = SizeOf(k) /\ BlockSize(k)' = BlockSize(k) /\ Needed(k)' = Needed(k)
        /\ \A k \in Int : SizeOf(k) \in Nat /\ BlockSize(k) \in Nat
    BY <1>1, SizesFrame, ChunkFacts
  <1>7. dec'.len = SizeOf(m) /\ dec'.dsize = BlockSize(m)
    <2>1. pkt.size = SizeOf(m) /\ pkt.dsize = BlockSize(m)
      BY <1>0 DEF OpenInv, SizeInv
    <2>2. m = dec.num => dec.len = SizeOf(m) /\ dec.dsize = BlockSize(m)
      BY <1>5 DEF OpenInv, SizeInv, NoChunk
    <2>. QED BY <1>3, <2>1, <2>2
  <1>8. /\ Flying(m) = Flying(m)' \union {pkt.id}
        /\ \A k : k # m => Flying(k) = Flying(k)'
    BY <1>0, <1>1, Removing DEF IsData
  <1>9. /\ \A k : Got(k)' = IF k = m /\ ~IsSmall(dec') THEN Got(m) \union {pkt.id} ELSE {}
        /\ IsSmall(dec') => Got(m) = {}
        /\ IF m = dec.num /\ ~IsSmall(dec') THEN Ids(dec.blocks) = Got(m) ELSE Got(m) = {}
    <2>1. m = dec.num => (IsSmall(dec') <=> IsSmall(dec))
      BY <1>3 DEF IsSmall
    <2>2. IF m = dec.num /\ ~IsSmall(dec') THEN Ids(dec.blocks) = Got(m) ELSE Got(m) = {}
      BY <2>1 DEF Got, Ids
    <2>3. ~IsSmall(dec') => Ids(dec'.blocks) = Got(m) \union {pkt.id}
      <3>. SUFFICES ASSUME ~IsSmall(dec') PROVE Ids(dec'.blocks) = Got(m) \union {pkt.id}
        OBVIOUS
      <3>. DEFINE B == IF m = dec.num THEN dec.blocks ELSE {}
                  b == [id |-> pkt.id, body |-> pkt.body]
      <3>1. dec'.blocks = B \union {b} /\ b.id = pkt.id
        BY <1>3
      <3>2. Ids(B) = Got(m)
        BY <2>2 DEF Ids
      <3>. HIDE DEF B, b
      <3>. QED BY <3>1, <3>2 DEF Ids
    <2>4. ASSUME NEW k PROVE Got(k)' = IF k = m /\ ~IsSmall(dec') THEN Ids(dec'.blocks) ELSE {}
      BY <1>3 DEF Got, Ids, IsSmall
    <2>. QED BY <2>2, <2>3, <2>4
  <1>10. \A k : Surviving(k)' \subseteq Surviving(k)
    <2>. SUFFICES ASSUME NEW k PROVE Surviving(k)' \subseteq Surviving(k)
      OBVIOUS
    <2>1. CASE k = m
      BY <1>8, <1>9, <2>1, SurvivingParts
    <2>2. CASE k # m
      BY <1>8, <1>9, <2>2, SurvivingParts
    <2>. QED BY <2>1, <2>2
  <1>11. Len(out') = IF dec'.chunk_complete THEN m + 1 ELSE m
    BY <1>0, <1>1, <1>4
  <1>12. ASSUME NEW k \in Len(out') .. file - 1, SizeOf(k) > 0
         PROVE  Surviving(k)' = Surviving(k)
    <2>1. CASE k = m
      <3>1. ~IsSmall(dec')
        BY <1>1, <1>3, <1>4, <1>7, <1>11, <1>12, <2>1
      <3>. QED BY <1>8, <1>9, <2>1, <3>1, SurvivingParts
    <2>2. CASE k # m
      <3>1. k > m /\ k \in 0 .. NumChunks - 1
        <4>1. file <= NumChunks /\ k >= Len(out')
          BY <1>1, <1>12 DEF SenderPart, ChunkInv
        <4>. QED BY <1>1, <1>4, <1>11, <2>2, <4>1
      <3>2. dec.num # k
        <4>1. ~NoChunk(dec) => dec.num <= m
          BY <1>0 DEF OrderInv
        <4>2. NoChunk(dec) => dec.num # k
          BY <1>1, <3>1, NumOfChunk DEF NoChunk
        <4>. QED BY <1>1, <1>4, <3>1, <4>1, <4>2
      <3>3. Got(k) = {} /\ Got(k)' = {}
        BY <1>9, <2>2, <3>2 DEF Got, Ids
      <3>. QED BY <1>8, <2>2, <3>3, SurvivingParts
    <2>. QED BY <2>1, <2>2
  <1>13. BlockInv'
    <2>. SUFFICES ASSUME ~IsSmall(dec'), ~dec'.chunk_complete
                  PROVE  Cardinality(Ids(dec'.blocks)) < Needed(m)
      <3>1. Needed(dec'.num) = Needed(m) /\ (Needed(dec.num))' = Needed(m)
        BY <1>1, <1>3 DEF Needed, SizeOf, BlockSize, NumChunks
      <3>. QED BY <1>3, <3>1 DEF BlockInv, IsSmall, Ids
    <2>1. SizeOf(m) > BlockSize(m) /\ SizeOf(m) > 0 /\ SizeOf(m) \in Nat /\ BlockSize(m) \in Nat
      <3>1. SizeOf(m) \in Nat /\ BlockSize(m) \in Nat /\ m \in Int
        BY <1>4, <1>6
      <3>. QED BY <1>7, <3>1 DEF IsSmall
    <2>2. Needed(m) = CeilDiv(SizeOf(m), BlockSize(m)) + WirehairOverhead /\ Needed(m) \in Nat
      <3>1. Needed(m) \in Nat
        BY <1>1, <1>4, <2>1, NeededFacts
      <3>. QED BY <2>1, <3>1 DEF Needed
    <2>3. Ids(dec'.blocks) \subseteq Surviving(m)
      BY <1>3, <1>8, <1>9, SurvivingParts DEF Got
    <2>4. IsFiniteSet(Surviving(m))
      <3>1. m \in Len(out) .. file - 1
        BY <1>1, <1>4
      <3>. QED BY <2>1, <3>1 DEF OpenInv, LossInv
    <2>5. Cardinality(Ids(dec'.blocks)) \in Nat
      BY <2>3, <2>4, FS_Subset, FS_CardinalityType
    <2>6. CeilDiv(SizeOf(m), BlockSize(m)) \in Nat /\ WirehairOverhead \in Nat
      <3>1. BlockSize(m) > 0
        BY <1>1, <1>4, <2>1, NeededFacts
      <3>. QED BY <2>1, <3>1, CeilDivFacts, WirehairAssumption
    <2>. QED BY <1>3, <1>7, <2>2, <2>5, <2>6 DEF Enough
  <1>14. PrefixInv'
    <2>1. ASSUME NEW i \in 1 .. Len(out') PROVE out'[i] = Chunk(1, i - 1)
      <3>1. CASE i \in 1 .. Len(out)
        BY <1>0, <1>1, <3>1 DEF OpenInv, PrefixInv, Prefix
      <3>2. CASE i = Len(out) + 1 /\ dec'.chunk_complete
        BY <1>0, <1>1, <1>4, <3>2
      <3>. QED BY <1>1, <1>4, <1>11, <3>1, <3>2
    <2>2. dec'.chunk_complete => dec'.len > 0
      <3>1. dec'.len \in Nat /\ (~IsSmall(dec') => dec'.len > dec'.dsize /\ dec'.dsize \in Nat)
        BY <1>2 DEF DecoderState, IsSmall
      <3>. QED BY <1>3, <3>1
    <2>3. Len(out') = IF dec'.chunk_emitted THEN dec'.num + 1 ELSE dec'.num
      BY <1>3, <1>11
    <2>. QED BY <1>5, <2>1, <2>2, <2>3 DEF PrefixInv, Prefix
  <1>15. (~NoChunk(dec) => dec.len = SizeOf(dec.num) /\ dec.dsize = BlockSize(dec.num))'
    BY <1>1, <1>3, <1>7 DEF SizeOf, BlockSize, NumChunks
  <1>. QED BY <1>10, <1>12, <1>13, <1>14, <1>15 DEF Progress


-----------------------------------------------------------------------------
(* The steps of the receiver.                                              *)

\* What is left on the link, once its first packet has been taken.
LEMMA TakenFirst ==
    ASSUME link \in Seq(Packet), 1 \in 1 .. Len(link), link' = RemoveAt(link, 1), UNCHANGED sender,
           OpenInv,
           \/ dec'.state # T_NEW
           \/ dec.state = T_NEW /\ hgap_pkt_type(link[1]) \notin {"begin", "data", "end"}
    PROVE  /\ BeginInv' /\ EndInv'
           /\ \A j \in 1 .. Len(link') :
                j + 1 \in 1 .. Len(link) /\ link'[j] = link[j + 1]
  <1>1. /\ Len(link) \in Nat /\ Len(link') = Len(link) - 1
        /\ \A j \in 1 .. Len(link') : j + 1 \in 1 .. Len(link) /\ link'[j] = link[j + 1]
    BY Removal, Remaining
  <1>2. UNCHANGED <<setup, phase, salve, lost, file, sret>>
    BY DEF sender
  <1>3. BeginInv'
    <2>1. CASE dec'.state # T_NEW
      BY <2>1 DEF BeginInv
    <2>2. CASE dec.state = T_NEW /\ hgap_pkt_type(link[1]) \notin {"begin", "data", "end"}
      <3>1. CASE FirstBegin
        <4>1. PICK i \in 1 .. Len(link) :
                  /\ hgap_pkt_type(link[i]) = "begin"
                  /\ \A j \in 1 .. i : hgap_pkt_type(link[j]) \notin {"data", "end"}
          BY <3>1 DEF FirstBegin
        <4>2. i # 1
          BY <2>2, <4>1
        <4>3. i - 1 \in 1 .. Len(link') /\ (i - 1) + 1 = i
          BY <1>1, <4>2
        <4>4. hgap_pkt_type(link'[i - 1]) = "begin"
          BY <1>1, <4>1, <4>3
        <4>5. ASSUME NEW j \in 1 .. i - 1 PROVE hgap_pkt_type(link'[j]) \notin {"data", "end"}
          <5>1. j \in 1 .. Len(link') /\ j + 1 \in 1 .. i
            BY <1>1, <4>3
          <5>. QED BY <1>1, <4>1, <5>1
        <4>. QED BY <4>3, <4>4, <4>5 DEF BeginInv
      <3>2. CASE /\ phase = "begin" /\ salve <= lost
                 /\ \A j \in 1 .. Len(link) : hgap_pkt_type(link[j]) \notin {"data", "end"}
        <4>1. \A j \in 1 .. Len(link') : hgap_pkt_type(link'[j]) \notin {"data", "end"}
          BY <1>1, <3>2
        <4>. QED BY <1>2, <3>2, <4>1 DEF BeginInv
      <3>. QED BY <2>2, <3>1, <3>2, BeginCases DEF OpenInv
    <2>. QED BY <2>1, <2>2
  <1>4. EndInv'
    <2>1. ASSUME NEW i \in 1 .. Len(link'), hgap_pkt_type(link'[i]) = "end"
          PROVE  /\ phase \in {"end", "off"}
                 /\ \A j \in i .. Len(link') : hgap_pkt_type(link'[j]) # "data"
      <3>1. /\ phase \in {"end", "off"}
            /\ \A j \in i + 1 .. Len(link) : hgap_pkt_type(link[j]) # "data"
        BY <1>1, <2>1 DEF OpenInv, EndInv, IsData
      <3>2. ASSUME NEW j \in i .. Len(link') PROVE hgap_pkt_type(link'[j]) # "data"
        <4>1. j \in 1 .. Len(link') /\ j + 1 \in i + 1 .. Len(link)
          BY <1>1
        <4>. QED BY <1>1, <3>1, <4>1
      <3>. QED BY <3>1, <3>2
    <2>2. phase' \in {"end", "off"} /\ sret' = HGAP_SUCCESS => file' = NumChunks'
      BY <1>2 DEF OpenInv, EndInv, NumChunks
    <2>. QED BY <1>2, <2>1, <2>2 DEF EndInv, IsData
  <1>. QED BY <1>1, <1>3, <1>4

\* A delivery that leaves the receiver open keeps the count, and one that ends it well
\* is that of an END.
LEMMA DeliverOpen ==
    ASSUME NoTruncation, ~WirehairMayFail, CoreInv, CoreInv', ContentInv, OrderInv, run = 1,
           LinkTolerable, reader = "open", OpenInv, Deliver
    PROVE  IF reader' = "open" THEN OpenInv'
           ELSE /\ \A i \in 1 .. Len(out') : out'[i] = Chunk(1, i - 1)
                /\ Result' = HGAP_SUCCESS /\ sret' = HGAP_SUCCESS => out' = Everything
  <1>. SenderPart /\ LinkPart /\ ReceiverPart
    BY Parts
  <1>1. PICK i \in 1 .. Len(link) :
            /\ i <= setup.Window
            /\ link' = RemoveAt(link, i)
            /\ Receive(Received(link[i], rcv_pkt_size))
            /\ UNCHANGED sender
    BY DEF Deliver
  <1>2. /\ i = 1 /\ setup.Window = 1 /\ setup \in Setups /\ setup' = setup /\ link \in Seq(Packet)
        /\ dec \in DecoderState /\ PureDecoder(dec) /\ (~dec.chunk_complete => Prepared(dec))
    BY <1>1, OpenFacts DEF LinkTolerable, sender
  <1>3. /\ link[1] \in Packet /\ (IsData(1) => GenuinePkt(link[1]))
        /\ Received(link[1], rcv_pkt_size) = link[1] /\ Receive(link[1])
    BY <1>1, <1>2, DeliverContent
  <1>4. 1 \in 1 .. Len(link) /\ link' = RemoveAt(link, 1) /\ UNCHANGED sender
    BY <1>1, <1>2
  <1>5. hgap_pkt_type(link[1]) \in {"data", "end"} => dec.state # T_NEW
    <2>. SUFFICES ASSUME dec.state = T_NEW PROVE hgap_pkt_type(link[1]) \notin {"data", "end"}
      OBVIOUS
    <2>1. CASE FirstBegin
      <3>1. PICK j \in 1 .. Len(link) :
                \A m \in 1 .. j : hgap_pkt_type(link[m]) \notin {"data", "end"}
        BY <2>1 DEF FirstBegin
      <3>. QED BY <3>1
    <2>2. CASE \A j \in 1 .. Len(link) : hgap_pkt_type(link[j]) \notin {"data", "end"}
      BY <1>4, <2>2
    <2>. QED BY <2>1, <2>2, BeginCases DEF OpenInv
  <1>6. \/ /\ reader' = "closed" /\ out' = out
           /\ dret' = HGAP_SUCCESS => hgap_pkt_type(link[1]) = "end"
        \/ /\ reader' = "open" /\ decoding' /\ dec'.state # T_STOPPED
           /\ hgap_pkt_type(link[1]) # "end"
           /\ dec.state # T_NEW \/ hgap_pkt_type(link[1]) = "begin" => dec'.state # T_NEW
           /\ \/ /\ out' = out /\ dec' = [dec EXCEPT !.state = dec'.state]
                 /\ hgap_pkt_type(link[1]) = "data" => link[1].num = dec.num /\ dec.chunk_complete
              \/ /\ hgap_pkt_type(link[1]) = "data" /\ Fed(dec, link[1], dec')
                 /\ dec'.chunk_emitted <=> dec'.chunk_complete
                 /\ out' = IF dec'.chunk_complete THEN Append(out, Chunk(1, link[1].num)) ELSE out
    <2>1. decoding /\ dec.state # T_STOPPED
      BY DEF OpenInv
    <2>. QED BY <1>2, <1>3, <1>5, <2>1, OpenRound DEF IsData
  <1>7. CASE reader' = "closed"
    <2>1. Result' = HGAP_SUCCESS => dret' = HGAP_SUCCESS
      BY DEF Result, HGAP_SELECT_ERROR
    <2>2. out' = out /\ sret' = sret
      BY <1>4, <1>6, <1>7 DEF sender
    <2>3. \A j \in 1 .. Len(out) : out[j] = Chunk(1, j - 1)
      BY DEF OpenInv, PrefixInv, Prefix
    <2>. QED BY <1>4, <1>6, <1>7, <2>1, <2>2, <2>3, EndMeansAll
  <1>8. CASE reader' = "open"
    <2>1. Progress
      <3>1. CASE /\ out' = out /\ dec' = [dec EXCEPT !.state = dec'.state]
                 /\ hgap_pkt_type(link[1]) = "data" => link[1].num = dec.num /\ dec.chunk_complete
        BY <1>4, <3>1, KeptProgress DEF IsData
      <3>2. CASE /\ hgap_pkt_type(link[1]) = "data" /\ Fed(dec, link[1], dec')
                 /\ dec'.chunk_emitted <=> dec'.chunk_complete
                 /\ out' = IF dec'.chunk_complete THEN Append(out, Chunk(1, link[1].num)) ELSE out
        BY <1>2, <1>4, <3>2, FedProgress DEF IsData
      <3>. QED BY <1>6, <1>8, <3>1, <3>2
    <2>2. /\ BeginInv' /\ EndInv'
          /\ \A j \in 1 .. Len(link') : j + 1 \in 1 .. Len(link) /\ link'[j] = link[j + 1]
      <3>1. \/ dec'.state # T_NEW
            \/ dec.state = T_NEW /\ hgap_pkt_type(link[1]) \notin {"begin", "data", "end"}
        BY <1>5, <1>6, <1>8
      <3>. QED BY <1>2, <1>4, <3>1, TakenFirst
    <2>3. /\ UNCHANGED <<phase, file, lost, chunk, sret>>
          /\ \A k : SizeOf(k)' = SizeOf(k) /\ BlockSize(k)' = BlockSize(k) /\ Needed(k)' = Needed(k)
      BY <1>2, <1>4, SizesFrame DEF sender
    <2>4. SizeInv'
      <3>1. ASSUME NEW j \in 1 .. Len(link'), hgap_pkt_type(link'[j]) = "data"
            PROVE  /\ link'[j].size = SizeOf(link'[j].num)
                   /\ link'[j].dsize = BlockSize(link'[j].num)
        BY <2>2, <3>1 DEF OpenInv, SizeInv, IsData
      <3>2. ASSUME NEW j \in 1 .. Len(link'), hgap_pkt_type(link'[j]) = "data"
            PROVE  (link[j].size = SizeOf(link[j].num) /\ link[j].dsize = BlockSize(link[j].num))'
        BY <1>2, <3>1, <3>2 DEF SizeOf, BlockSize, NumChunks
      <3>3. (file > 0 /\ SizeOf(file - 1) > 0 /\ sret = HGAP_SUCCESS =>
                 \A n \in Surviving(file - 1) : n < chunk.next_pkt_id)'
        <4>0. PICK k : k = file - 1
          OBVIOUS
        <4>1. file > 0 /\ SizeOf(k) > 0 /\ sret = HGAP_SUCCESS =>
                  \A n \in Surviving(k) : n < chunk.next_pkt_id
          BY <4>0 DEF OpenInv, SizeInv
        <4>2. Surviving(k)' \subseteq Surviving(k)
          BY <2>1 DEF Progress
        <4>3. Surviving(file - 1)' = Surviving(k)' /\ SizeOf(file - 1)' = SizeOf(k)
          BY <1>2, <2>3, <4>0 DEF SizeOf, NumChunks
        <4>. QED BY <2>3, <4>1, <4>2, <4>3
      <3>. QED BY <2>1, <3>2, <3>3 DEF SizeInv, Progress, IsData
    <2>5. LossInv'
      <3>1. Len(out') >= Len(out) /\ Len(out) \in Nat /\ Len(out') \in Nat /\ file \in Nat
        <4>1. Len(out) \in Nat /\ out \in Seq(Bodies) /\ file \in Nat
          BY OpenFacts
        <4>2. Len(out') \in Nat /\ (out' = out \/ Len(out') = Len(out) + 1)
          BY <1>6, <1>8, <4>1
        <4>. QED BY <4>1, <4>2
      <3>2. ASSUME NEW k \in Len(out') .. file - 1, SizeOf(k) > 0
            PROVE  /\ IsFiniteSet(Surviving(k)')
                   /\ k < file - 1 \/ (phase' # "emit" /\ sret' = HGAP_SUCCESS) =>
                          Cardinality(Surviving(k)') >= Needed(k)
                   /\ k = file - 1 /\ phase' = "emit" /\ sret' = HGAP_SUCCESS =>
                          Cardinality(Surviving(k)') + lost' >= chunk'.next_pkt_id
        <4>1. k \in Len(out) .. file - 1
          BY <3>1
        <4>2. Surviving(k)' = Surviving(k)
          BY <2>1, <3>2 DEF Progress
        <4>. QED BY <2>3, <3>2, <4>1, <4>2 DEF OpenInv, LossInv
      <3>. QED BY <2>3, <3>2 DEF LossInv
    <2>. QED BY <1>6, <1>8, <2>1, <2>2, <2>4, <2>5 DEF OpenInv, Progress
  <1>. QED BY <1>6, <1>7, <1>8


\* The timeout is an error, and leaves the file as it is.
LEMMA TimeoutResult ==
    CoreInv /\ Timeout => reader' # "open" /\ out' = out /\ Result' # HGAP_SUCCESS
  BY DEF Timeout, Result, HGAP_SELECT_ERROR, HGAP_SUCCESS, HGAP_ERR_TIMEOUT

\* An error of the sender stays one.
LEMMA FailedKeeps ==
    [Next]_vars /\ ~Restart /\ sret' = HGAP_SUCCESS => sret = HGAP_SUCCESS
  <1>. SUFFICES ASSUME [Next]_vars, ~Restart, sret' # sret PROVE sret' # HGAP_SUCCESS
    OBVIOUS
  <1>1. NextChunk \/ EmitPkt
    BY DEF Next, Handwave, Teardown, Salve, Keepalive, Deliver, Timeout, Finished, sender, vars
  <1>2. HGAP_ERR_FILE_READ # HGAP_SUCCESS /\ HGAP_ERR_WIREHAIR_ERROR # HGAP_SUCCESS
    BY DEF HGAP_ERR_FILE_READ, HGAP_ERR_WIREHAIR_ERROR, HGAP_SUCCESS
  <1>. QED BY <1>1, <1>2 DEF NextChunk, ReadChunk, Pill, EmitPkt, SendPkt, EmitFails

\* A closed receiver takes nothing.
LEMMA ClosedKeeps ==
    [Next]_vars /\ reader # "open" => UNCHANGED <<reader, out, Result>>
  <1>. SUFFICES ASSUME [Next]_vars, reader # "open" PROVE UNCHANGED <<reader, out, dret, rret>>
    BY DEF Result
  <1>1. CASE Handwave \/ Teardown \/ NextChunk \/ EmitPkt \/ Keepalive \/ Restart
    BY <1>1 DEF Handwave, Teardown, Salve, NextChunk, EmitPkt, Keepalive, Restart, receiver
  <1>2. CASE Deliver
    BY <1>2 DEF Deliver, receiver
  <1>3. CASE Timeout
    BY <1>3 DEF Timeout
  <1>4. CASE UNCHANGED vars
    BY <1>4 DEF vars
  <1>. QED BY <1>1, <1>2, <1>3, <1>4 DEF Next, Finished

\* Nothing is sent, taken or lost.
LEMMA OpenFrame == OpenInv /\ UNCHANGED vars => OpenInv'
  <1>. SUFFICES ASSUME OpenInv, UNCHANGED vars PROVE OpenInv'
    OBVIOUS
  <1>1. UNCHANGED <<setup, phase, salve, file, chunk, sret, lost, link, dec, decoding, out>>
    BY DEF vars
  <1>2. /\ NumChunks' = NumChunks
        /\ \A k : SizeOf(k)' = SizeOf(k) /\ BlockSize(k)' = BlockSize(k) /\ Needed(k)' = Needed(k)
        /\ \A k : Surviving(k)' = Surviving(k)
    BY <1>1, SizesFrame DEF Surviving, IsSmall, IsData
  <1>3. BeginInv' /\ EndInv'
    BY <1>1, <1>2 DEF OpenInv, BeginInv, EndInv, IsData
  <1>4. SizeInv'
    BY <1>1, <1>2 DEF OpenInv, SizeInv, NoChunk, IsData
  <1>5. BlockInv' /\ PrefixInv'
    BY <1>1, <1>2 DEF OpenInv, BlockInv, PrefixInv, Prefix, NoChunk, IsSmall
  <1>6. LossInv'
    BY <1>1, <1>2 DEF OpenInv, LossInv
  <1>. QED BY <1>1, <1>3, <1>4, <1>5, <1>6 DEF OpenInv

-----------------------------------------------------------------------------
(* The theorems.                                                           *)

LEMMA CompleteInit == Init => CompleteInv
  <1>. SUFFICES ASSUME Init PROVE OpenInv
    BY DEF Init, CompleteInv, OpenInv
  <1>1. NoChunk(dec) /\ dec.state = T_NEW /\ decoding
    BY DEF Init, hgap_decoder_new, NoChunk, HGAP_NO_MORE_CHUNK
  <1>2. phase = "begin" /\ salve = 0 /\ lost = 0 /\ file = 0 /\ link = <<>> /\ out = <<>>
    BY DEF Init
  <1>3. BeginInv /\ EndInv /\ SizeInv
    BY <1>1, <1>2 DEF BeginInv, EndInv, SizeInv
  <1>4. BlockInv /\ PrefixInv /\ LossInv
    BY <1>1, <1>2 DEF BlockInv, PrefixInv, Prefix, LossInv
  <1>. QED BY <1>1, <1>3, <1>4, StateNumbers DEF OpenInv

LEMMA CompleteNext ==
    ASSUME NoTruncation, ~WirehairMayFail,
           CoreInv, CoreInv', ContentInv, OrderInv, CompleteInv, [Next]_vars
    PROVE  CompleteInv'
  <1>. SUFFICES ASSUME LinkTolerable', run' = 1
                PROVE  IF reader' = "open" THEN OpenInv'
                       ELSE /\ \A i \in 1 .. Len(out') : out'[i] = Chunk(1, i - 1)
                            /\ Result' = HGAP_SUCCESS /\ sret' = HGAP_SUCCESS => out' = Everything'
    BY DEF CompleteInv, OpenInv, Prefix
  <1>1. setup' = setup /\ Everything' = Everything /\ LinkTolerable
    <2>1. setup' = setup
      BY DEF Next, Handwave, Teardown, Salve, NextChunk, EmitPkt, Keepalive, Restart, Deliver,
             Timeout, Finished, sender, vars
    <2>. QED BY <2>1, SizesFrame DEF Everything, SizeOf, NumChunks
  <1>2. run = 1 /\ ~Restart
    <2>1. run \in Nat /\ run >= 1
      BY SetupFacts DEF CoreInv, TypeOK, ChunkInv
    <2>2. run' = run \/ (Restart /\ run' = run + 1)
      BY DEF Next, Handwave, Teardown, Salve, NextChunk, EmitPkt, Keepalive, Restart, Deliver,
             Timeout, Finished, sender, vars
    <2>3. Restart => run' = run + 1
      BY DEF Restart
    <2>. QED BY <2>1, <2>2, <2>3
  <1>3. CASE reader # "open"
    <2>1. UNCHANGED <<reader, out, Result>>
      BY <1>3, ClosedKeeps
    <2>2. sret' = HGAP_SUCCESS => sret = HGAP_SUCCESS
      BY <1>2, FailedKeeps
    <2>. QED BY <1>1, <1>2, <1>3, <2>1, <2>2 DEF CompleteInv, Prefix
  <1>4. CASE reader = "open"
    <2>. OpenInv
      BY <1>1, <1>2, <1>4 DEF CompleteInv, OpenInv
    <2>1. CASE Handwave \/ Teardown \/ NextChunk \/ EmitPkt \/ Keepalive
      <3>1. OpenInv'
        BY <1>1, <1>2, <2>1, HandwaveOpen, TeardownOpen, NextChunkOpen, EmitOpen, KeepaliveOpen
      <3>2. reader' = reader
        BY <2>1 DEF Handwave, Teardown, Salve, NextChunk, EmitPkt, Keepalive, receiver
      <3>. QED BY <1>4, <3>1, <3>2
    <2>2. CASE Deliver
      BY <1>1, <1>2, <1>4, <2>2, DeliverOpen
    <2>3. CASE Timeout
      BY <2>3, TimeoutResult DEF OpenInv, PrefixInv, Prefix
    <2>4. CASE UNCHANGED vars
      <3>1. OpenInv' /\ reader' = reader
        BY <2>4, OpenFrame DEF vars
      <3>. QED BY <1>4, <3>1
    <2>. QED BY <1>2, <2>1, <2>2, <2>3, <2>4 DEF Next, Finished
  <1>. QED BY <1>3, <1>4

\* If no packet is truncated and wirehair does not fail at the receiver, of each chunk
\* that is not written yet and the sender has not failed on enough packets survive, as
\* long as the link is tolerable.
THEOREM CompletionCorrect ==
    ASSUME NoTruncation, ~WirehairMayFail
    PROVE  Spec => []CompleteInv
  <1>1. TransferInv /\ TransferInv' /\ CompleteInv /\ [Next]_vars => CompleteInv'
    <2>1. TransferInv => CoreInv /\ ContentInv /\ OrderInv
      BY DEF TransferInv
    <2>2. TransferInv' => CoreInv'
      BY DEF TransferInv
    <2>. QED BY <2>1, <2>2, CompleteNext
  <1>. QED BY <1>1, CompleteInit, TransferCorrect, PTL DEF Spec

\* Under the same conditions a receiver has written a beginning of the file, and the whole
\* of it, each chunk once and in its place, when both hgap_send and hgap_receive return
\* HGAP_SUCCESS.
THEOREM SuccessMeansComplete ==
    ASSUME NoTruncation, ~WirehairMayFail
    PROVE  Spec => []CompleteOnSuccess
  <1>1. CompleteInv => CompleteOnSuccess
    BY DEF CompleteInv, CompleteOnSuccess, PrefixInv, Success
  <1>. QED BY <1>1, CompletionCorrect, PTL

=============================================================================
