----------------------------- MODULE DecoderProofs -----------------------------
(***************************************************************************)
(* What hgap_decoder_read and hgap_decoder_emit leave behind, for any      *)
(* state of the decoder and any packet: the facts about them that the      *)
(* proofs about the threads and about whole transfers use.                 *)
(***************************************************************************)
EXTENDS Decoder, TLAPS

LEMMA StateNumbers == T_NEW = 0 /\ T_STARTED = 1 /\ T_DATA = 2 /\ T_STOPPED = 3
  BY DEF T_NEW, T_STARTED, T_DATA, T_STOPPED

LEMMA NewDecoder == hgap_decoder_new \in DecoderState
  BY NumModulusAssumption DEF hgap_decoder_new, DecoderState, T_NEW, T_STOPPED, Bodies

\* Only the state changes, and it never goes back.
LEMMA UpdateState ==
    ASSUME NEW d \in DecoderState, NEW pkt \in Packet
    PROVE  LET u == hgap_decoder_update_state(d, pkt) IN
           /\ u \in DecoderState /\ u.state >= d.state
           /\ u = [d EXCEPT !.state = u.state]
           /\ d.state = T_NEW /\ u.state # T_NEW => hgap_pkt_type(pkt) = "begin"
  BY DEF hgap_decoder_update_state, DecoderState, T_NEW, T_STARTED, T_DATA, T_STOPPED

\* A new chunk: nothing of the one before is left that could be taken for its own.
LEMMA ChunkInit ==
    ASSUME NEW d \in DecoderState, NEW pkt \in Packet, NEW c \in hgap_dec_chunk_init(d, pkt)
    PROVE  /\ c \in DecoderState
           /\ c.state = d.state /\ c.num = pkt.num /\ c.len = pkt.size /\ c.dsize = pkt.dsize
           /\ c.data = NULL /\ ~c.chunk_complete /\ ~c.chunk_emitted
           /\ IsSmall(c) \/ c.blocks = {}
  <1>. DEFINE b == [d EXCEPT !.data = NULL, !.num = pkt.num, !.len = pkt.size,
                             !.dsize = pkt.dsize,
                             !.chunk_complete = FALSE, !.chunk_emitted = FALSE]
  <1>1. b \in DecoderState
    BY DEF DecoderState, Packet, Bodies
  <1>2. /\ b.state = d.state /\ b.num = pkt.num /\ b.len = pkt.size /\ b.dsize = pkt.dsize
        /\ b.data = NULL /\ ~b.chunk_complete /\ ~b.chunk_emitted
    BY DEF DecoderState
  <1>. HIDE DEF b
  <1>3. \/ c = b /\ IsSmall(b)
        \/ \E wh \in Succeeds : c = [b EXCEPT !.wh_state = wh, !.blocks = {}]
    BY DEF hgap_dec_chunk_init, b
  <1>4. CASE c = b /\ IsSmall(b)
    BY <1>1, <1>2, <1>4
  <1>5. CASE \E wh \in Succeeds : c = [b EXCEPT !.wh_state = wh, !.blocks = {}]
    <2>. PICK wh \in Succeeds : c = [b EXCEPT !.wh_state = wh, !.blocks = {}]
      BY <1>5
    <2>1. wh \in BOOLEAN
      BY DEF Succeeds
    <2>. QED BY <2>1, <1>1, <1>2 DEF DecoderState
  <1>. QED BY <1>3, <1>4, <1>5

\* A packet is given to the chunk: its block is added to those of the chunk, and the
\* chunk is complete if and only if its length is returned.
LEMMA ChunkRead ==
    ASSUME NEW d \in DecoderState, NEW pkt \in Packet, ~d.chunk_complete,
           NEW r \in hgap_dec_chunk_read(d, pkt)
    PROVE  /\ r.dec \in DecoderState /\ r.ret \in {d.len, 0, -1}
           /\ r.ret > 0 <=> r.dec.chunk_complete
           /\ r.dec.state = d.state /\ r.dec.num = d.num /\ r.dec.len = d.len
           /\ r.dec.dsize = d.dsize /\ r.dec.chunk_emitted = d.chunk_emitted
           /\ \/ r.dec.data = d.data
              \/ d.data = NULL /\ IsSmall(d) /\ r.dec.data = pkt.body
           /\ \/ r.dec.blocks = d.blocks
              \/ r.dec.blocks = d.blocks \union {[id |-> pkt.id, body |-> pkt.body]}
           /\ r.ret > 0 => IF IsSmall(d) THEN r.dec.data # NULL \/ pkt.body = NULL
                           ELSE d.data # NULL \/ [id |-> pkt.id, body |-> pkt.body] \in r.dec.blocks
  <1>. DEFINE Result(x, n) == [dec |-> [x EXCEPT !.chunk_complete = @ \/ n > 0], ret |-> n]
              block == [id |-> pkt.id, body |-> pkt.body]
              withData == [d EXCEPT !.data = pkt.body]
              withBlock == [d EXCEPT !.blocks = d.blocks \union {block}]
  <1>1. /\ withData \in DecoderState /\ ~withData.chunk_complete /\ withData.data = pkt.body
        /\ withData.blocks = d.blocks /\ withData.state = d.state /\ withData.num = d.num
        /\ withData.len = d.len /\ withData.dsize = d.dsize
        /\ withData.chunk_emitted = d.chunk_emitted
    BY DEF DecoderState, Packet
  <1>2. /\ withBlock \in DecoderState /\ ~withBlock.chunk_complete
        /\ withBlock.blocks = d.blocks \union {block} /\ withBlock.data = d.data
        /\ withBlock.state = d.state /\ withBlock.num = d.num /\ withBlock.len = d.len
        /\ withBlock.dsize = d.dsize /\ withBlock.chunk_emitted = d.chunk_emitted
    <2>1. d.blocks \union {block} \in SUBSET [id : Nat, body : Bodies]
      BY DEF DecoderState, Packet
    <2>. QED BY <2>1 DEF DecoderState
  <1>3. \/ r = Result(d, d.len) /\ d.data # NULL
        \/ r = Result(withData, d.len) /\ d.data = NULL /\ IsSmall(d)
        \/ r = Result(d, -1)
        \/ r = Result(withBlock, d.len) /\ ~IsSmall(d)
        \/ r = Result(withBlock, 0) /\ ~IsSmall(d)
    BY DEF hgap_dec_chunk_read
  <1>. HIDE DEF withData, withBlock
  <1>4. ASSUME NEW x \in DecoderState, NEW n \in Int, ~x.chunk_complete, r = Result(x, n)
        PROVE  /\ r.dec \in DecoderState /\ r.ret = n /\ (r.dec.chunk_complete <=> n > 0)
               /\ r.dec.state = x.state /\ r.dec.num = x.num /\ r.dec.len = x.len
               /\ r.dec.dsize = x.dsize /\ r.dec.chunk_emitted = x.chunk_emitted
               /\ r.dec.data = x.data /\ r.dec.blocks = x.blocks
    BY <1>4 DEF DecoderState
  <1>5. d.len \in Nat /\ 0 \in Int /\ -1 \in Int
    BY DEF DecoderState
  <1>. HIDE DEF Result
  <1>6. CASE r = Result(d, d.len) /\ d.data # NULL
    BY <1>4, <1>5, <1>6
  <1>7. CASE r = Result(withData, d.len) /\ d.data = NULL /\ IsSmall(d)
    BY <1>1, <1>4, <1>5, <1>7
  <1>8. CASE r = Result(d, -1)
    BY <1>4, <1>5, <1>8
  <1>9. CASE r = Result(withBlock, d.len) /\ ~IsSmall(d)
    BY <1>2, <1>4, <1>5, <1>9
  <1>10. CASE r = Result(withBlock, 0) /\ ~IsSmall(d)
    BY <1>2, <1>4, <1>5, <1>10
  <1>. QED BY <1>3, <1>6, <1>7, <1>8, <1>9, <1>10

\* What hgap_decoder_read starts from and leaves: an emitted chunk is complete.
Consistent(d) == d \in DecoderState /\ (d.chunk_emitted => d.chunk_complete)

\* Only a complete chunk that was not emitted is said to be ready, with its length.
Ready(d, n) == n > 0 => d.chunk_complete /\ ~d.chunk_emitted /\ n = d.len

\* A data packet adds to the chunk, begins the next one or changes nothing.
LEMMA DataRead ==
    ASSUME NEW d, Consistent(d), NEW pkt \in Packet, NEW r \in ReadData(d, pkt)
    PROVE  /\ Consistent(r.dec) /\ r.ret \in Int /\ Ready(r.dec, r.ret)
           /\ r.dec.state = d.state
           /\ \/ r.dec = d
              \/ pkt.num = d.num /\ ~d.chunk_complete /\ r \in hgap_dec_chunk_read(d, pkt)
              \/ /\ pkt.num # d.num /\ d.chunk_complete
                 /\ \E c \in hgap_dec_chunk_init(d, pkt) : r \in hgap_dec_chunk_read(c, pkt)
  <1>0. d \in DecoderState /\ (d.chunk_emitted => d.chunk_complete)
    BY DEF Consistent
  <1>1. CASE /\ r.dec = d
             /\ \/ r.ret \in {-HGAP_ERR_INCOMPLETE_CHUNK, -HGAP_ERR_BAD_CHUNK, 0}
                \/ d.chunk_complete /\ ~d.chunk_emitted /\ r.ret = d.len
    BY <1>0, <1>1 DEF Consistent, Ready, HGAP_ERR_INCOMPLETE_CHUNK, HGAP_ERR_BAD_CHUNK, DecoderState
  <1>2. CASE pkt.num = d.num /\ ~d.chunk_complete /\ r \in hgap_dec_chunk_read(d, pkt)
    <2>1. /\ r.dec \in DecoderState /\ r.ret \in {d.len, 0, -1}
          /\ r.ret > 0 <=> r.dec.chunk_complete
          /\ r.dec.state = d.state /\ r.dec.len = d.len /\ r.dec.chunk_emitted = d.chunk_emitted
      BY <1>0, <1>2, ChunkRead
    <2>. QED BY <1>0, <1>2, <2>1 DEF Consistent, Ready, DecoderState
  <1>3. CASE /\ pkt.num # d.num /\ d.chunk_complete
             /\ \E c \in hgap_dec_chunk_init(d, pkt) : r \in hgap_dec_chunk_read(c, pkt)
    <2>1. PICK c \in hgap_dec_chunk_init(d, pkt) : r \in hgap_dec_chunk_read(c, pkt)
      BY <1>3
    <2>2. c \in DecoderState /\ c.state = d.state /\ ~c.chunk_complete /\ ~c.chunk_emitted
      BY <1>0, ChunkInit
    <2>3. /\ r.dec \in DecoderState /\ r.ret \in {c.len, 0, -1}
          /\ r.ret > 0 <=> r.dec.chunk_complete
          /\ r.dec.state = c.state /\ r.dec.len = c.len /\ r.dec.chunk_emitted = c.chunk_emitted
      BY <2>1, <2>2, ChunkRead
    <2>. QED BY <1>3, <2>2, <2>3 DEF Consistent, Ready, DecoderState
  <1>. QED BY <1>0, <1>1, <1>2, <1>3 DEF ReadData

\* hgap_decoder_read, whatever packet it is given.
LEMMA DecoderRead ==
    ASSUME NEW d, Consistent(d), NEW pkt \in Packet, NEW r \in hgap_decoder_read(d, pkt)
    PROVE  /\ Consistent(r.dec) /\ r.ret \in Int /\ Ready(r.dec, r.ret)
           /\ LET u == hgap_decoder_update_state(d, pkt) IN
              \/ r.dec = u /\ r.ret <= 0
              \/ /\ u.state = T_DATA /\ hgap_pkt_type(pkt) = "data" /\ Consistent(u)
                 /\ r \in ReadData(u, pkt)
  <1>. DEFINE u == hgap_decoder_update_state(d, pkt)
  <1>1. u \in DecoderState /\ u = [d EXCEPT !.state = u.state]
    BY UpdateState DEF Consistent
  <1>2. Consistent(u)
    BY <1>1 DEF Consistent, DecoderState
  <1>3. u.state \in 0 .. 3
    BY <1>1 DEF DecoderState, T_NEW, T_STOPPED
  <1>. HIDE DEF u
  <1>4. \/ r.dec = u /\ r.ret \in {0, -HGAP_EOT}
        \/ u.state = T_DATA /\ hgap_pkt_type(pkt) = "data" /\ r \in ReadData(u, pkt)
    BY <1>3 DEF hgap_decoder_read, u, T_DATA, T_STOPPED
  <1>5. CASE r.dec = u /\ r.ret \in {0, -HGAP_EOT}
    BY <1>2, <1>5 DEF u, Ready, HGAP_EOT
  <1>6. CASE u.state = T_DATA /\ hgap_pkt_type(pkt) = "data" /\ r \in ReadData(u, pkt)
    BY <1>2, <1>6, DataRead DEF u
  <1>. QED BY <1>4, <1>5, <1>6

\* hgap_decoder_emit, whatever it is asked for.
LEMMA DecoderEmit ==
    ASSUME NEW d, Consistent(d), NEW n \in Int, NEW e \in hgap_decoder_emit(d, n)
    PROVE  /\ Consistent(e.dec) /\ e.ret \in Nat /\ e.out \in Bodies
           /\ \/ e.dec = d
              \/ e.ret = HGAP_SUCCESS /\ e.dec = [d EXCEPT !.chunk_emitted = TRUE]
  <1>1. wirehair_reconstruct(d.blocks) \in Bodies
    BY DEF wirehair_reconstruct, Bodies
  <1>2. d.data \in Bodies /\ NULL \in Bodies
    BY DEF Consistent, DecoderState, Bodies
  <1>. DEFINE Fail(m) == [dec |-> d, ret |-> m, out |-> NULL]
              Done(x) == [dec |-> [d EXCEPT !.chunk_emitted = TRUE],
                          ret |-> HGAP_SUCCESS, out |-> x]
  <1>3. \/ \E m \in {HGAP_ERR_INCOMPLETE_CHUNK, HGAP_ERR_BUFFER_TOO_SMALL,
                    HGAP_ERR_WIREHAIR_ERROR} : e = Fail(m)
        \/ /\ d.chunk_complete
           /\ \E x \in {d.data, wirehair_reconstruct(d.blocks)} : e = Done(x)
    BY DEF hgap_decoder_emit
  <1>4. d.chunk_complete => Consistent([d EXCEPT !.chunk_emitted = TRUE])
    BY DEF Consistent, DecoderState
  <1>5. CASE \E m \in {HGAP_ERR_INCOMPLETE_CHUNK, HGAP_ERR_BUFFER_TOO_SMALL,
                    HGAP_ERR_WIREHAIR_ERROR} : e = Fail(m)
    <2>1. PICK m \in Nat : e = Fail(m)
      BY <1>5 DEF HGAP_ERR_INCOMPLETE_CHUNK, HGAP_ERR_BUFFER_TOO_SMALL, HGAP_ERR_WIREHAIR_ERROR
    <2>2. e.dec = d /\ e.ret = m /\ e.out = NULL
      BY <2>1
    <2>. QED BY <1>2, <2>2
  <1>6. CASE /\ d.chunk_complete
             /\ \E x \in {d.data, wirehair_reconstruct(d.blocks)} : e = Done(x)
    <2>1. PICK x \in Bodies : e = Done(x)
      BY <1>1, <1>2, <1>6
    <2>2. e.dec = [d EXCEPT !.chunk_emitted = TRUE] /\ e.ret = HGAP_SUCCESS /\ e.out = x
      BY <2>1
    <2>. QED BY <1>4, <1>6, <2>2 DEF HGAP_SUCCESS
  <1>. QED BY <1>3, <1>5, <1>6

\* encoding.h: a chunk hgap_decoder_read says is ready can be emitted into a buffer of
\* the size it returned; only wirehair can make hgap_decoder_emit fail then.
THEOREM ReadyChunkIsEmitted ==
    ASSUME NEW d, Consistent(d), NEW pkt \in Packet, NEW r \in hgap_decoder_read(d, pkt),
           r.ret > 0, NEW e \in hgap_decoder_emit(r.dec, r.ret)
    PROVE  \/ e.ret = HGAP_SUCCESS /\ e.dec.chunk_emitted
           \/ e.ret = HGAP_ERR_WIREHAIR_ERROR /\ WirehairMayFail /\ ~IsSmall(r.dec)
  <1>1. Consistent(r.dec) /\ Ready(r.dec, r.ret) /\ r.ret \in Int
    BY DecoderRead
  <1>2. r.dec.chunk_complete /\ ~(r.ret < r.dec.len) /\ r.dec \in DecoderState
    BY <1>1 DEF Ready, Consistent
  <1>. DEFINE Fail(m) == [dec |-> r.dec, ret |-> m, out |-> NULL]
              Done(x) == [dec |-> [r.dec EXCEPT !.chunk_emitted = TRUE],
                          ret |-> HGAP_SUCCESS, out |-> x]
  <1>3. \/ \E x \in {r.dec.data, wirehair_reconstruct(r.dec.blocks)} : e = Done(x)
        \/ ~IsSmall(r.dec) /\ WirehairMayFail /\ e = Fail(HGAP_ERR_WIREHAIR_ERROR)
    BY <1>2 DEF hgap_decoder_emit, Succeeds
  <1>. QED BY <1>2, <1>3 DEF DecoderState

=============================================================================
