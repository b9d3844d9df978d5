------------------------------- MODULE Decoder -------------------------------
(***************************************************************************)
(* The receiving half of src/lib/encoding.c, as operators on the value of  *)
(* struct hgap_decoder, the chunk it is working on included.  An operation *)
(* that can end in several ways is the set of what it may leave behind.    *)
(***************************************************************************)
EXTENDS Wirehair

CONSTANT HGAP_MAX_CHUNK_SIZE

ASSUME MaxChunkAssumption == HGAP_MAX_CHUNK_SIZE \in Nat

T_NEW == 0
T_STARTED == 1
T_DATA == 2
T_STOPPED == 3

\* struct hgap_decoder.
DecoderState ==
    [state : T_NEW .. T_STOPPED, num : 0 .. NumModulus - 1, len : Nat, dsize : Nat,
     data : Bodies, wh_state : BOOLEAN, blocks : SUBSET [id : Nat, body : Bodies],
     chunk_complete : BOOLEAN, chunk_emitted : BOOLEAN]

\* (uint64_t) -1 is no number of a chunk: it is HGAP_NO_MORE_CHUNK.
hgap_decoder_new ==
    [state |-> T_NEW, num |-> NumModulus - 1, len |-> 0, dsize |-> 0,
     data |-> NULL, wh_state |-> FALSE, blocks |-> {},
     chunk_complete |-> TRUE, chunk_emitted |-> TRUE]

\* hgap_enc_chunk_is_small, for the chunk of the decoder.
IsSmall(dec) == dec.len <= dec.dsize

-----------------------------------------------------------------------------

\* Mutant: the wirehair state of the previous chunk is kept.
hgap_dec_chunk_init_KeepsBlocks(dec, pkt) ==
    {[dec EXCEPT !.data = NULL, !.num = pkt.num, !.len = pkt.size, !.dsize = pkt.dsize,
                 !.chunk_complete = FALSE, !.chunk_emitted = FALSE, !.wh_state = TRUE]}

\* hgap_enc_chunk_purge and hgap_dec_chunk_init, whose return value is dropped.
hgap_dec_chunk_init(dec, pkt) ==
    LET c == [dec EXCEPT !.data = NULL, !.num = pkt.num, !.len = pkt.size,
                         !.dsize = pkt.dsize,
                         !.chunk_complete = FALSE, !.chunk_emitted = FALSE]
    IN  IF IsSmall(c) THEN {c}
        ELSE { [c EXCEPT !.wh_state = wh, !.blocks = {}]
               : wh \in Succeeds }

\* hgap_dec_chunk_read, and chunk_complete set from what it returns.
hgap_dec_chunk_read(dec, pkt) ==
    LET Result(d, r) == [dec |-> [d EXCEPT !.chunk_complete = @ \/ r > 0], ret |-> r]
        blocks == dec.blocks \union {[id |-> pkt.id, body |-> pkt.body]}
    IN  IF dec.data # NULL THEN {Result(dec, dec.len)}
        ELSE IF IsSmall(dec)
        THEN {Result([dec EXCEPT !.data = pkt.body], dec.len)}
        ELSE IF ~dec.wh_state THEN {Result(dec, -1)}
        ELSE { Result([dec EXCEPT !.blocks = blocks], IF ready THEN dec.len ELSE 0)
               : ready \in wirehair_read(dec.len, dec.dsize, blocks) }

\* Mutant: the first data packet starts a transfer, too.
hgap_decoder_update_state_Data(dec, pkt) ==
    LET type == hgap_pkt_type(pkt)
    IN  [dec EXCEPT !.state =
            IF type = "begin" /\ @ = T_NEW THEN T_STARTED
            ELSE IF type = "data" /\ @ <= T_STARTED THEN T_DATA
            ELSE IF type = "end" /\ @ >= T_STARTED THEN T_STOPPED
            ELSE @]

\* The state after a packet of this type; only data packets are handled.
hgap_decoder_update_state(dec, pkt) ==
    LET type == hgap_pkt_type(pkt)
    IN  [dec EXCEPT !.state =
            IF type = "begin" /\ @ = T_NEW THEN T_STARTED
            ELSE IF type = "data" /\ @ = T_STARTED THEN T_DATA
            ELSE IF type = "end" /\ @ >= T_STARTED THEN T_STOPPED
            ELSE @]

\* Mutant: an incomplete chunk is given up for the next one.
ReadData_SkipsIncomplete(dec, pkt) ==
    IF pkt.num # dec.num
    THEN UNION {hgap_dec_chunk_read(d, pkt) : d \in hgap_dec_chunk_init(dec, pkt)}
    ELSE IF dec.chunk_complete
    THEN {[dec |-> dec, ret |-> IF dec.chunk_emitted THEN 0 ELSE dec.len]}
    ELSE hgap_dec_chunk_read(dec, pkt)

\* Mutant: a chunk is ready again with every packet after the one it was ready at.
ReadData_Again(dec, pkt) ==
    IF pkt.num # dec.num /\ ~dec.chunk_complete
    THEN {[dec |-> dec, ret |-> -HGAP_ERR_INCOMPLETE_CHUNK]}
    ELSE IF pkt.num # dec.num
    THEN UNION {hgap_dec_chunk_read(d, pkt) : d \in hgap_dec_chunk_init(dec, pkt)}
    ELSE hgap_dec_chunk_read(dec, pkt)

\* A data packet while the transfer is going on.
ReadData(dec, pkt) ==
    LET Stop(r) == {[dec |-> dec, ret |-> r]}
    IN  IF pkt.num # dec.num THEN
            IF ~dec.chunk_complete THEN Stop(-HGAP_ERR_INCOMPLETE_CHUNK)
            ELSE IF pkt.size > HGAP_MAX_CHUNK_SIZE THEN Stop(-HGAP_ERR_BAD_CHUNK)
            ELSE UNION {hgap_dec_chunk_read(d, pkt) : d \in hgap_dec_chunk_init(dec, pkt)}
        ELSE IF dec.chunk_complete
        THEN Stop(IF dec.chunk_emitted THEN 0 ELSE dec.len)
        ELSE hgap_dec_chunk_read(dec, pkt)

hgap_decoder_read(dec0, pkt) ==
    LET dec == hgap_decoder_update_state(dec0, pkt)
    IN  CASE dec.state < T_DATA    -> {[dec |-> dec, ret |-> 0]}
          [] dec.state = T_STOPPED -> {[dec |-> dec, ret |-> -HGAP_EOT]}
          [] dec.state = T_DATA    ->
                IF hgap_pkt_type(pkt) = "data" THEN ReadData(dec, pkt)
                ELSE {[dec |-> dec, ret |-> 0]}

\* hgap_decoder_emit into a buffer of size bytes.
hgap_decoder_emit(dec, size) ==
    LET Fail(r) == {[dec |-> dec, ret |-> r, out |-> NULL]}
        Done(bytes) == {[dec |-> [dec EXCEPT !.chunk_emitted = TRUE],
                         ret |-> HGAP_SUCCESS, out |-> bytes]}
    IN  IF ~dec.chunk_complete THEN Fail(HGAP_ERR_INCOMPLETE_CHUNK)
        ELSE IF size < dec.len THEN Fail(HGAP_ERR_BUFFER_TOO_SMALL)
        ELSE IF IsSmall(dec) THEN Done(dec.data)
        ELSE UNION { IF ok THEN Done(wirehair_reconstruct(dec.blocks))
                     ELSE Fail(HGAP_ERR_WIREHAIR_ERROR) : ok \in Succeeds }

=============================================================================
