------------------------------- MODULE Transfer -------------------------------
(***************************************************************************)
(* A whole transfer: hgap_send, the one-way link, hgap_receive.            *)
(*                                                                         *)
(* The threads of each program are joined by channels that lose and        *)
(* reorder nothing (module Channel), so here each program is one actor:    *)
(* the sender puts the packets of send_loop on the link one at a time, the *)
(* receiver takes each of them through hgapr_net_reader, decloop and       *)
(* writer in one step.  What the threads add is in Receiver and Sender.    *)
(*                                                                         *)
(* The link may lose any packet, within a budget, and deliver within a     *)
(* window; the sender may be killed and started again on another file, or  *)
(* fail to read or to encode a chunk, after which it still sends an END.   *)
(* How a transfer is set up is chosen in the initial state.                *)
(***************************************************************************)
EXTENDS Encoder, Decoder, Sequences, SequencesExt

CONSTANTS
    Setups,          \* the transfers: records with the fields of Setup below
    HGAP_SALVE_LEN,
    rcv_pkt_size     \* pkt_size in the hgap_config of the receiver

(***************************************************************************)
(* What a transfer is done with: the input file, the configuration of the  *)
(* sender and the link.                                                    *)
(***************************************************************************)
Setup ==
    [ FileLen : Nat,                                          \* bytes to transfer
      n_pkt : Nat \ {0}, pkt_size : Nat,                      \* hgap_config
      RedundNum : Nat, RedundDen : Nat \ {0},                 \* redund, a fraction
      MayFail : BOOLEAN,      \* fread and wirehair may fail at the sender
      LinkCap : Nat \ {0},    \* bound: packets in flight
      Window : Nat \ {0},     \* delivery from the first Window of them
      LossBudget : Nat,       \* packets lost, per salve and per chunk
      Runs : Nat \ {0} ]      \* bound: times the sender is started

\* The bytes of a chunk, and the chunks of the file: the last read returns what is
\* left, possibly nothing.
ChunkBytes(s) == s.n_pkt * (s.pkt_size - HGAP_HEADER_LEN)
ChunkCount(s) == s.FileLen \div ChunkBytes(s) + 1

\* The content of the k-th chunk in the r-th run of the sender.
Chunk(r, k) == <<r, k>>

ASSUME TransferAssumption ==
    /\ Setups \subseteq Setup
    /\ \A s \in Setups :
        /\ s.pkt_size > HGAP_HEADER_LEN
        /\ ChunkCount(s) < HGAP_FIRST_RESERVED
        /\ \A r \in 1 .. s.Runs, k \in 0 .. ChunkCount(s) - 1 : Chunk(r, k) \in Contents
    /\ HGAP_SALVE_LEN \in Nat \ {0} /\ rcv_pkt_size \in Nat

\* What hgap_check_config_sender lets pass.
ASSUME RedundAssumption == \A s \in Setups : s.RedundNum >= s.RedundDen

\* The redundancy asked for takes fewer packets of a chunk than there are ids.
ASSUME IdAssumption ==
    \A s \in Setups : s.RedundNum * s.n_pkt <= (IdModulus - 1) * s.RedundDen

VARIABLES
    setup,      \* one of Setups
    phase,      \* of the sender: "begin", "read", "emit", "end" or "off"
    run,        \* the times it has been started
    salve,      \* control packets of the salve sent so far
    file,       \* chunks read from the input file
    enc, chunk, \* struct hgap_encoder and the chunk being sent
    sret,       \* what hgap_send will return
    lost,       \* packets of this salve or chunk the link has lost
    link,       \* packets in flight
    reader,     \* hgapr_net_reader: "open" or "closed"
    started,    \* its flag of the same name: the timeout is armed
    rret,       \* what it returns
    dec,        \* struct hgap_decoder
    decoding,   \* decloop is running
    dret,       \* what it returns
    out,        \* chunks written by writer
    seen        \* history: contents of which the decoder was given a packet

sender == <<setup, phase, run, salve, file, enc, chunk, sret, lost>>
receiver == <<reader, started, rret, dec, decoding, dret, out, seen>>
vars == <<setup, phase, run, salve, file, enc, chunk, sret, lost, link,
          reader, started, rret, dec, decoding, dret, out, seen>>

NumChunks == ChunkCount(setup)
SizeOf(k) == IF k < NumChunks - 1 THEN ChunkBytes(setup) ELSE setup.FileLen % ChunkBytes(setup)

-----------------------------------------------------------------------------
(* The sender.                                                             *)

Init ==
    /\ setup \in Setups
    /\ phase = "begin" /\ run = 1 /\ salve = 0 /\ file = 0
    /\ enc = hgap_encoder_new(setup.pkt_size)
    /\ chunk = hgap_enc_chunk_new /\ sret = HGAP_SUCCESS
    /\ lost = 0
    /\ link = <<>>
    /\ reader = "open" /\ started = FALSE /\ rret = HGAP_SUCCESS
    /\ dec = hgap_decoder_new
    /\ decoding = TRUE /\ dret = HGAP_SUCCESS
    /\ out = <<>>
    /\ seen = {}

\* hgap_sender_send: the packet is on the link, or lost.  After the last one of
\* a salve or of a chunk the losses are counted afresh.
Put(pkt, last) ==
    \/ /\ Len(link) < setup.LinkCap
       /\ link' = Append(link, pkt)
       /\ lost' = IF last THEN 0 ELSE lost
    \/ /\ lost < setup.LossBudget
       /\ link' = link
       /\ lost' = IF last THEN 0 ELSE lost + 1

\* Mutant: one packet too many.
Salve_OneMore(num, next) ==
    LET last == salve = HGAP_SALVE_LEN
    IN  /\ Put(ControlPkt(num), last)
        /\ salve' = IF last THEN 0 ELSE salve + 1
        /\ phase' = IF last THEN next ELSE phase
        /\ UNCHANGED <<setup, run, file, enc, chunk, sret, receiver>>

\* One packet of hgap_sender_control.
Salve(num, next) ==
    LET last == salve + 1 = HGAP_SALVE_LEN
    IN  /\ Put(ControlPkt(num), last)
        /\ salve' = IF last THEN 0 ELSE salve + 1
        /\ phase' = IF last THEN next ELSE phase
        /\ UNCHANGED <<setup, run, file, enc, chunk, sret, receiver>>

Handwave == phase = "begin" /\ Salve(HGAP_BEGIN_BEACON, "read")

Teardown == phase = "end" /\ Salve(HGAP_NO_MORE_CHUNK, "off")

\* The pill of read_loop and encode_loop, which send_loop takes for the end of the
\* file: it comes after the last chunk, and after an error.
Pill(ret) == phase' = "end" /\ sret' = ret

\* read_loop and encode_loop hand over the next chunk, if it can be encoded.
ReadChunk ==
    /\ file < NumChunks
    /\ \E r \in hgap_enc_chunk_init(enc, hgap_enc_chunk_new,
                                    Chunk(run, file), SizeOf(file)) :
        /\ r.ret # HGAP_SUCCESS => setup.MayFail
        /\ enc' = r.enc
        /\ chunk' = r.chunk
        /\ file' = file + 1
        /\ IF r.ret = HGAP_SUCCESS THEN phase' = "emit" /\ sret' = sret ELSE Pill(r.ret)

\* What read_loop and encode_loop have next for send_loop.
NextChunk ==
    /\ phase = "read"
    /\ \/ ReadChunk
       \/ setup.MayFail /\ file < NumChunks /\ Pill(HGAP_ERR_FILE_READ) /\ UNCHANGED <<enc, chunk, file>>
       \/ file = NumChunks /\ Pill(sret) /\ UNCHANGED <<enc, chunk, file>>
    /\ UNCHANGED <<setup, run, salve, lost, link, receiver>>

\* A packet of the chunk; after the last one send_loop goes on to the next chunk,
\* unless wirehair_write has failed on this one.
SendPkt ==
    /\ chunk' = AfterEmit(chunk)
    /\ \E more \in BelowRedund(chunk', setup.RedundNum, setup.RedundDen) :
        /\ phase' = IF more THEN "emit" ELSE IF sret = HGAP_SUCCESS THEN "read" ELSE "end"
        /\ Put(EmittedPkt(chunk), ~more)
    /\ UNCHANGED sret

\* hgap_enc_chunk_emit returns -1, which is below any redundancy: the loop goes on.
EmitFails ==
    /\ setup.MayFail /\ ~hgap_enc_chunk_is_small(chunk)
    /\ chunk' = AfterFailedEmit(chunk)
    /\ sret' = HGAP_ERR_WIREHAIR_ERROR
    /\ UNCHANGED <<phase, lost, link>>

\* The loop of send_loop that sends the packets of a chunk.
EmitPkt ==
    /\ phase = "emit"
    /\ SendPkt \/ EmitFails
    /\ UNCHANGED <<setup, run, salve, file, enc, receiver>>

\* The keepalive thread.  Losing one changes nothing.
Keepalive ==
    /\ phase # "off"
    /\ Len(link) < setup.LinkCap
    /\ link' = Append(link, ControlPkt(HGAP_KEEP_ALIVE))
    /\ UNCHANGED <<sender, receiver>>

\* The sender is killed and run again, on another file of the same length.
Restart ==
    /\ run < setup.Runs
    /\ run' = run + 1
    /\ phase' = "begin" /\ salve' = 0 /\ file' = 0 /\ lost' = 0
    /\ enc' = hgap_encoder_new(setup.pkt_size)
    /\ chunk' = hgap_enc_chunk_new /\ sret' = HGAP_SUCCESS
    /\ UNCHANGED <<setup, link, receiver>>

-----------------------------------------------------------------------------
(* The receiver.                                                           *)

\* decloop on one packet: hgap_decoder_read, then hgap_decoder_emit and the
\* write when a chunk is ready.  An error poisons the channel to the reader.
Outcome(d, o, ret, stop) == [dec |-> d, out |-> o, ret |-> ret, stop |-> stop]

Decode(pkt) ==
    UNION { IF r.ret = 0 THEN {Outcome(r.dec, out, HGAP_SUCCESS, FALSE)}
            ELSE IF r.ret = -HGAP_EOT THEN {Outcome(r.dec, out, HGAP_SUCCESS, TRUE)}
            ELSE IF r.ret < 0 THEN {Outcome(r.dec, out, -r.ret, TRUE)}
            ELSE { IF e.ret = HGAP_SUCCESS
                   THEN Outcome(e.dec, Append(out, e.out), HGAP_SUCCESS, FALSE)
                   ELSE Outcome(e.dec, out, e.ret, TRUE)
                   : e \in hgap_decoder_emit(r.dec, r.ret) }
            : r \in hgap_decoder_read(dec, pkt) }

\* One round of hgapr_net_reader, followed through the other two threads.  The
\* reader stops after an END packet, and when decloop has met an error.
Receive(pkt) ==
    /\ started' = (started \/ hgap_pkt_type(pkt) = "begin")
    /\ \E o \in IF decoding THEN Decode(pkt)
                ELSE {Outcome(dec, out, dret, TRUE)} :
        /\ dec' = o.dec
        /\ out' = o.out
        /\ dret' = o.ret
        /\ reader' = IF hgap_pkt_type(pkt) = "end" \/ o.ret # HGAP_SUCCESS
                     THEN "closed" ELSE "open"
        /\ decoding' = (~o.stop /\ reader' = "open")
        /\ seen' = IF decoding /\ o.dec.state = T_DATA /\ hgap_pkt_type(pkt) = "data"
                   THEN seen \union {pkt.body} ELSE seen
    /\ UNCHANGED rret

\* A packet arrives; with the socket closed nobody takes it.
Deliver ==
    \E i \in 1 .. Len(link) :
        /\ i <= setup.Window
        /\ link' = RemoveAt(link, i)
        /\ IF reader = "open" THEN Receive(Received(link[i], rcv_pkt_size))
           ELSE UNCHANGED receiver
        /\ UNCHANGED sender

\* Mutant: the timeout is not armed before the first data packet.
Timeout_OnlyInData ==
    /\ reader = "open"
    /\ dec.state = T_DATA
    /\ link = <<>>
    /\ reader' = "closed"
    /\ rret' = HGAP_ERR_TIMEOUT
    /\ decoding' = FALSE
    /\ UNCHANGED <<sender, link, started, dec, dret, out, seen>>

\* recvfrom times out; the poison pill ends decloop.
Timeout ==
    /\ reader = "open"
    /\ started
    /\ link = <<>>
    /\ reader' = "closed"
    /\ rret' = HGAP_ERR_TIMEOUT
    /\ decoding' = FALSE
    /\ UNCHANGED <<sender, link, started, dec, dret, out, seen>>

\* The return value of hgap_receive.
Result == HGAP_SELECT_ERROR(dret, rret)

-----------------------------------------------------------------------------

\* The sender has returned and the receiver too, or it still waits for a BEGIN.
Finished ==
    /\ phase = "off" /\ run = setup.Runs /\ link = <<>>
    /\ reader = "closed" \/ ~started
    /\ UNCHANGED vars

Next ==
    \/ Handwave \/ NextChunk \/ EmitPkt \/ Teardown \/ Keepalive
    \/ Restart
    \/ Deliver \/ Timeout
    \/ Finished

Spec == Init /\ [][Next]_vars

(***************************************************************************)
(* Both programs are scheduled.  The keepalive thread competes with        *)
(* send_loop for the link without starving it.  Once nothing is in flight  *)
(* and the sender is silent the socket timeout expires.                    *)
(***************************************************************************)
FairSpec ==
    /\ Spec
    /\ SF_vars(Handwave) /\ WF_vars(NextChunk) /\ SF_vars(EmitPkt) /\ SF_vars(Teardown)
    /\ WF_vars(Deliver)
    /\ WF_vars(Timeout)

-----------------------------------------------------------------------------
(* Properties.                                                             *)

\* The state of both programs keeps its type.
TypeOK ==
    /\ phase \in {"begin", "read", "emit", "end", "off"}
    /\ run \in 1 .. setup.Runs
    /\ salve \in 0 .. HGAP_SALVE_LEN - 1
    /\ file \in 0 .. NumChunks
    /\ enc.next_chunk_num = file
    /\ lost \in 0 .. setup.LossBudget
    /\ Len(link) <= setup.LinkCap
    /\ reader \in {"open", "closed"}
    /\ started \in BOOLEAN /\ decoding \in BOOLEAN
    /\ rret \in Nat /\ dret \in Nat /\ sret \in Nat
    /\ dec.state \in T_NEW .. T_STOPPED
    /\ dec.num \in 0 .. NumModulus - 1
    /\ dec.data \in Bodies
    /\ \A b \in dec.blocks : b.body \in Bodies
    /\ out \in Seq(Bodies)

\* hgap_receive has returned HGAP_SUCCESS.
Success == reader = "closed" /\ Result = HGAP_SUCCESS

\* What a receiver that got everything has written.
Everything == [k \in 1 .. NumChunks - (IF SizeOf(NumChunks - 1) = 0 THEN 1 ELSE 0)
                |-> Chunk(1, k - 1)]

CeilDiv(a, b) == (a + b - 1) \div b

\* The bytes of the k-th chunk in a packet, and the packets after which it can be
\* decoded for sure.
BlockSize(k) ==
    LET payload == setup.pkt_size - HGAP_HEADER_LEN
    IN  IF SizeOf(k) <= payload THEN SizeOf(k) ELSE payload
Needed(k) ==
    CeilDiv(SizeOf(k), BlockSize(k)) + (IF SizeOf(k) > BlockSize(k) THEN WirehairOverhead ELSE 0)

\* The link keeps the order, and loses no more than the redundancy makes up for: of
\* each chunk enough packets arrive, and one of each salve.
LinkTolerable ==
    /\ setup.Window = 1
    /\ setup.LossBudget < HGAP_SALVE_LEN
    /\ \A k \in 0 .. NumChunks - 1 : SizeOf(k) > 0 =>
        CeilDiv(setup.RedundNum * SizeOf(k), setup.RedundDen * BlockSize(k)) - setup.LossBudget
            >= Needed(k)

\* The chunks written are the first ones of the file.
Prefix == \A i \in 1 .. Len(out) : out[i] = Chunk(1, i - 1)

\* Over such a link what is written is a beginning of the file, even if the sender
\* fails to read or to encode some of it; and when neither program reports an error
\* it is the whole file, each chunk once.  (After an error of its own the sender
\* sends an END all the same, and the receiver reports a success.)
CompleteOnSuccess ==
    LinkTolerable /\ run = 1 =>
        /\ Prefix
        /\ Success /\ sret = HGAP_SUCCESS => out = Everything

\* Whatever is lost, chunks are written at most once, in the order of the file,
\* with their own content: blocks of two chunks never meet in one decoder.  Until
\* the sender is killed and started again on another file, that is.
OutputInOrder ==
    run = 1 /\ setup.Window = 1 =>
        /\ \A i \in 1 .. Len(out) : \E k \in 0 .. NumChunks - 1 : out[i] = Chunk(1, k)
        /\ \A i, j \in 1 .. Len(out) : i < j => out[i][2] < out[j][2]

\* A chunk of which hgap_decoder_read was given a packet is not skipped: nothing
\* that follows it in the file is written without it.
NoPartialChunkSkipped ==
    run = 1 /\ setup.Window = 1 =>
        \A c \in seen, i \in 1 .. Len(out) :
            out[i][2] > c[2] => \E j \in 1 .. Len(out) : out[j] = c

\* What has been written are chunks of a file that was sent.
Genuine ==
    \A i \in 1 .. Len(out) :
        \E r \in 1 .. setup.Runs, k \in 0 .. NumChunks - 1 : out[i] = Chunk(r, k)

\* Even if packets overtake each other, what is written is the content of one
\* chunk of the file: chunks never share a wirehair decoder.  (The chunks of two
\* files do, when the sender is killed and started again.)
ContentGenuine == run = 1 => Genuine

\* A receiver that has not seen a BEGIN writes nothing, whatever it sees of a
\* transfer: the rest of a chunk, an END that stops it, packets that overtook the
\* handwave.
NoOutputWithoutBegin == out # <<>> => started

\* hairgap.h on redund: a chunk leaves send_loop once enough packets of it were
\* generated, and not one more.
RedundancyMet ==
    phase = "read" /\ file > 0 /\ chunk.len > 0 =>
        /\ chunk.next_pkt_id * EmittedPkt(chunk).dsize * setup.RedundDen
               >= setup.RedundNum * chunk.len
        /\ (chunk.next_pkt_id - 1) * EmittedPkt(chunk).dsize * setup.RedundDen
               < setup.RedundNum * chunk.len

\* send_loop does not get beyond a chunk: the loop on the empty chunk at the end of a
\* file, or the one in which wirehair_write fails again and again.
StuckInChunk == phase = "emit" /\ (chunk.len = 0 \/ sret # HGAP_SUCCESS)

\* After the first BEGIN the receiver comes to an end, whatever is lost: the END
\* salve, the timeout or an error stops it.  Only a sender that loops for ever on a
\* chunk, its keepalive thread alive, keeps the receiver waiting with it.
ReceptionEnds == (started ~> reader = "closed") \/ <>[]StuckInChunk

-----------------------------------------------------------------------------
(* What the documentation says and the code does not do.                   *)

\* encoding.h says that a lost chunk is an error; hgap_receive would then not
\* return HGAP_SUCCESS after writing a file with a hole in it.
LostChunkReported == Success => Prefix

\* hgap_receive returns HGAP_SUCCESS on success, and proto.h has HGAP_ERR_BAD_PKT
\* for a packet that is incoherent: what has been written by then is made of
\* chunks of a file that was sent.
SuccessGenuine == Success => Genuine

-----------------------------------------------------------------------------
(* The inductive invariant.                                                *)

\* No packet is longer than the buffer the receiver reads it into.
NoTruncation == \A s \in Setups : s.pkt_size <= rcv_pkt_size

\* What the sender works on is the chunk it has read last, and total_gen the number
\* of bytes it has sent of it.  It goes on to another chunk only without an error.
ChunkInv ==
    /\ setup \in Setups
    /\ enc = [pkt_size |-> setup.pkt_size, next_chunk_num |-> file]
    /\ chunk \in [data : Contents \union {NULL}, num : 0 .. NumModulus - 1, len : Nat,
                  pkt_size : Nat, next_pkt_id : Nat, total_gen : Nat, wh_state : BOOLEAN]
    /\ phase = "begin" => file = 0
    /\ phase = "emit" => file > 0
    /\ phase \in {"begin", "read"} => sret = HGAP_SUCCESS
    /\ file > 0 =>
        /\ chunk.data = Chunk(run, file - 1) /\ chunk.num = file - 1
        /\ chunk.len = SizeOf(file - 1)
        /\ chunk.pkt_size <= setup.pkt_size /\ EmittedPkt(chunk).dsize = BlockSize(file - 1)
        /\ sret = HGAP_SUCCESS => chunk.total_gen = chunk.next_pkt_id * BlockSize(file - 1)

\* More packets of a chunk are sent only below the redundancy asked for.
RedundInv ==
    phase = "emit" /\ sret = HGAP_SUCCESS /\ chunk.len > 0 /\ chunk.next_pkt_id > 0 =>
        chunk.total_gen * setup.RedundDen < setup.RedundNum * chunk.len

\* Only a BEGIN starts the decoder, which emits a chunk as soon as it is complete.
StartInv ==
    /\ dec \in DecoderState
    /\ dec.chunk_emitted => dec.chunk_complete
    /\ decoding /\ dec.chunk_complete => dec.chunk_emitted
    /\ dec.state # T_NEW => started
    /\ out # <<>> => started

LinkInv ==
    /\ link \in Seq(Packet)
    /\ \A i \in 1 .. Len(link) : link[i].len <= setup.pkt_size

IsData(i) == hgap_pkt_type(link[i]) = "data"

\* The decoder has not begun with any chunk.
NoChunk(d) == d.num = HGAP_NO_MORE_CHUNK

\* A decoder holds nothing but blocks of the chunk it works on, and of a complete
\* chunk at least one.
PureDecoder(d) ==
    \/ NoChunk(d) /\ d.chunk_complete /\ d.chunk_emitted
    \/ /\ d.num \in 0 .. NumChunks - 1
       /\ IF IsSmall(d)
          THEN d.data = Chunk(1, d.num) \/ (d.data = NULL /\ ~d.chunk_complete)
          ELSE /\ d.data = NULL
               /\ \A b \in d.blocks : b.body = Chunk(1, d.num)
               /\ d.chunk_complete => d.blocks # {}

\* In the first run of the sender what is on the link, in the decoder and in the
\* file comes from chunks of one file.
ContentInv ==
    run = 1 =>
        /\ \A i \in 1 .. Len(link) : IsData(i) =>
            link[i].num \in 0 .. NumChunks - 1 /\ link[i].body = Chunk(1, link[i].num)
        /\ PureDecoder(dec)
        /\ \A i \in 1 .. Len(out) : \E k \in 0 .. NumChunks - 1 : out[i] = Chunk(1, k)

\* Over a link that keeps the order the numbers of the chunks never decrease, from
\* the file through the decoder to the packets in flight and the chunk being sent.
OrderInv ==
    run = 1 /\ setup.Window = 1 =>
        /\ \A i \in 1 .. Len(link) : IsData(i) => link[i].num < file
        /\ \A i, j \in 1 .. Len(link) : i < j /\ IsData(i) /\ IsData(j) => link[i].num <= link[j].num
        /\ ~NoChunk(dec) => \A i \in 1 .. Len(link) : IsData(i) => dec.num <= link[i].num
        /\ ~NoChunk(dec) => dec.num < file
        /\ NoChunk(dec) => out = <<>>
        /\ \A i \in 1 .. Len(out) : out[i][2] <= dec.num /\ (out[i][2] = dec.num => dec.chunk_emitted)
        /\ \A i, j \in 1 .. Len(out) : i < j => out[i][2] < out[j][2]

\* A chunk the decoder has left behind is in the file.
SeenInv ==
    run = 1 /\ setup.Window = 1 =>
        /\ NoChunk(dec) /\ decoding => seen = {}
        /\ \A c \in seen : \E k \in 0 .. NumChunks - 1 : c = Chunk(1, k)
        /\ decoding => \A c \in seen : c[2] <= dec.num
        /\ ~NoChunk(dec) => \A c \in seen :
            c[2] < dec.num => \E j \in 1 .. Len(out) : out[j] = c
        /\ ~NoChunk(dec) /\ dec.chunk_emitted =>
            \E j \in 1 .. Len(out) : out[j] = Chunk(1, dec.num)

\* What sender, link and receiver keep true together: always, and without truncation.
CoreInv == TypeOK /\ ChunkInv /\ RedundInv /\ RedundancyMet /\ StartInv /\ LinkInv
TransferInv == CoreInv /\ (NoTruncation => ContentInv /\ OrderInv /\ SeenInv)

-----------------------------------------------------------------------------
(* Why nothing is missing.  Over a link that loses no more than the        *)
(* redundancy makes up for, until the receiver stops:                      *)

\* The ids of the blocks of chunk k that were not lost: they are in the decoder or
\* in flight.
Surviving(k) ==
    {b.id : b \in IF dec.num = k /\ ~IsSmall(dec) THEN dec.blocks ELSE {}}
    \union {link[i].id : i \in {j \in 1 .. Len(link) : IsData(j) /\ link[j].num = k}}

\* A BEGIN has arrived, or comes before all data and END packets, or the handwave
\* has not got one through yet.
BeginInv ==
    \/ dec.state # T_NEW
    \/ \E i \in 1 .. Len(link) :
        /\ hgap_pkt_type(link[i]) = "begin"
        /\ \A j \in 1 .. i : hgap_pkt_type(link[j]) \notin {"data", "end"}
    \/ /\ phase = "begin" /\ salve <= lost
       /\ \A j \in 1 .. Len(link) : hgap_pkt_type(link[j]) \notin {"data", "end"}

\* An END comes after all data, of the whole file unless the sender has failed.
EndInv ==
    /\ phase \in {"end", "off"} /\ sret = HGAP_SUCCESS => file = NumChunks
    /\ \A i \in 1 .. Len(link) : hgap_pkt_type(link[i]) = "end" =>
        phase \in {"end", "off"} /\ \A j \in i .. Len(link) : ~IsData(j)

\* Each packet, and the decoder, has the sizes of its chunk; the ids that the packets
\* to come will have are new.
SizeInv ==
    /\ \A i \in 1 .. Len(link) : IsData(i) =>
        /\ link[i].size = SizeOf(link[i].num) /\ link[i].dsize = BlockSize(link[i].num)
    /\ ~NoChunk(dec) => dec.len = SizeOf(dec.num) /\ dec.dsize = BlockSize(dec.num)
    /\ file > 0 /\ SizeOf(file - 1) > 0 /\ sret = HGAP_SUCCESS =>
        \A n \in Surviving(file - 1) : n < chunk.next_pkt_id

\* An incomplete chunk lacks blocks.
BlockInv ==
    ~NoChunk(dec) /\ ~IsSmall(dec) =>
        /\ dec.wh_state
        /\ ~dec.chunk_complete => Cardinality({b.id : b \in dec.blocks}) < Needed(dec.num)

\* The file is written up to the chunk of the decoder, the empty chunk excepted.
PrefixInv ==
    /\ Prefix
    /\ Len(out) = IF NoChunk(dec) THEN 0 ELSE IF dec.chunk_emitted THEN dec.num + 1 ELSE dec.num
    /\ ~NoChunk(dec) /\ dec.chunk_emitted => dec.len > 0

\* Of a chunk not written enough blocks survive; of the one being sent all but the
\* lost ones.  Nothing is known of a chunk the sender has failed on.
LossInv ==
    \A k \in Len(out) .. file - 1 : SizeOf(k) > 0 =>
        /\ IsFiniteSet(Surviving(k))
        /\ k < file - 1 \/ (phase # "emit" /\ sret = HGAP_SUCCESS) =>
               Cardinality(Surviving(k)) >= Needed(k)
        /\ k = file - 1 /\ phase = "emit" /\ sret = HGAP_SUCCESS =>
               Cardinality(Surviving(k)) + lost >= chunk.next_pkt_id

\* Until the receiver stops nothing is missing that could not still arrive, and when it
\* has stopped with a success, and the sender has not failed, nothing is missing.
CompleteInv ==
    LinkTolerable /\ run = 1 =>
        IF reader = "open"
        THEN /\ decoding /\ dec.state # T_STOPPED
             /\ BeginInv /\ EndInv /\ SizeInv /\ BlockInv /\ PrefixInv /\ LossInv
        ELSE Prefix /\ (Result = HGAP_SUCCESS /\ sret = HGAP_SUCCESS => out = Everything)

=============================================================================
