------------------------------- MODULE Encoder -------------------------------
(***************************************************************************)
(* The sending half of src/lib/encoding.c, as operators on the values of   *)
(* struct hgap_encoder and struct hgap_enc_chunk.                          *)
(*                                                                         *)
(* A chunk that fits in one packet is sent as it is, in every packet.  A   *)
(* larger one goes through wirehair, which makes as many different blocks  *)
(* of it as one asks for.                                                  *)
(***************************************************************************)
EXTENDS Wirehair

CONSTANT
    IdModulus        \* of a packet id data_id holds the low bits (2^32 in C)

ASSUME IdModulusAssumption == IdModulus \in Nat \ {0}

\* struct hgap_encoder is its pkt_size and next_chunk_num.
hgap_encoder_new(pkt_size) == [pkt_size |-> pkt_size, next_chunk_num |-> 0]

hgap_enc_chunk_new ==
    [data |-> NULL, num |-> 0, len |-> 0, pkt_size |-> 0, next_pkt_id |-> 0,
     total_gen |-> 0, wh_state |-> FALSE]

\* hgap_enc_chunk_pkt_payload_size
PayloadSize(chunk) == chunk.pkt_size - HGAP_HEADER_LEN

hgap_enc_chunk_is_small(chunk) == chunk.len <= PayloadSize(chunk)

\* The values hgap_enc_chunk_init may leave and return for size bytes of data.
\* chunk is a new one, or one that has been used for another chunk before.
hgap_enc_chunk_init(enc, chunk, data, size) ==
    LET full == size + HGAP_HEADER_LEN
        c == [chunk EXCEPT !.data = data,
                           !.num = enc.next_chunk_num,
                           !.len = size,
                           !.pkt_size = IF enc.pkt_size < full THEN enc.pkt_size ELSE full,
                           !.next_pkt_id = 0]
        e == [enc EXCEPT !.next_chunk_num = (@ + 1) % NumModulus]
        small == hgap_enc_chunk_is_small(c)
        made == IF small THEN {c.wh_state} ELSE BOOLEAN
    IN  { [enc |-> e,
           chunk |-> [c EXCEPT !.wh_state = wh],
           ret |-> IF small \/ wh THEN HGAP_SUCCESS ELSE HGAP_ERR_WIREHAIR_ERROR]
          : wh \in made }

\* The next packet of a chunk, and the chunk after hgap_enc_chunk_emit.
EmittedPkt(chunk) ==
    LET payload_size == IF hgap_enc_chunk_is_small(chunk) THEN chunk.len
                        ELSE PayloadSize(chunk)
    IN  [num |-> chunk.num, size |-> chunk.len, id |-> chunk.next_pkt_id,
         dsize |-> payload_size, len |-> chunk.pkt_size, body |-> chunk.data]

\* id++, as far as data_id and the (int) id given to wirehair show it.
NextId(id) == (id + 1) % IdModulus

\* Mutant: the headers are counted as redundancy.
AfterEmit_CountsHeaders(chunk) ==
    [chunk EXCEPT !.next_pkt_id = NextId(@), !.total_gen = @ + EmittedPkt(chunk).len]

AfterEmit(chunk) ==
    [chunk EXCEPT !.next_pkt_id = NextId(@),
                  !.total_gen = @ + EmittedPkt(chunk).dsize]

\* wirehair_write has failed: hgap_enc_chunk_emit returns -1, and the id is used up.
AfterFailedEmit(chunk) == [chunk EXCEPT !.next_pkt_id = NextId(@)]

\* Mutant: the redundancy asked for is not enough.
BelowRedund_OrEqual(chunk, num, den) ==
    IF chunk.len = 0 THEN BOOLEAN ELSE { chunk.total_gen * den <= num * chunk.len }

\* cur_redund < redund of send_loop, where redund is the fraction num / den and
\* cur_redund the quotient total_gen / len that hgap_enc_chunk_emit returns.
\* For an empty chunk that is 0 / 0; the program is compiled with -Ofast, under
\* which a comparison with NaN may go either way.
BelowRedund(chunk, num, den) ==
    IF chunk.len = 0 THEN BOOLEAN ELSE { chunk.total_gen * den < num * chunk.len }

=============================================================================
