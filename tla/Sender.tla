-------------------------------- MODULE Sender --------------------------------
(***************************************************************************)
(* src/lib/hgap_send.c and sender.c: the threads of hgap_send.             *)
(*                                                                         *)
(*   read_loop --chan_in2enc--> encode_loop --chan_enc2net--> send_loop    *)
(*                                                                         *)
(* send_loop runs in the thread that called hgap_send, which joins the     *)
(* other two at the end; keepalive_loop_thread shares its socket.  The     *)
(* channels are the bounded queues module Channel implements; no thread of *)
(* hgap_send ever poisons one.                                             *)
(*                                                                         *)
(* A chunk is its number.  What its packets are is in module Transfer.     *)
(***************************************************************************)
EXTENDS Proto, Sequences

CONSTANTS
    InputChunks,        \* chunks in the input file, the last one included
    LastChunkEmpty,     \* the last read met the end of the file at once
    InCap, NetCap,      \* capacities of the channels (16 in the code)
    PktsPerChunk,       \* packets send_loop makes of a chunk, unless it is empty
    HGAP_SALVE_LEN,
    keepalive,          \* FALSE: the keepalive period is 0
    ReadMayFail,        \* reading the input file may fail
    WirehairMayFail,    \* wirehair may fail to encode a chunk
    NetworkMayFail      \* socket and sendto may fail

ASSUME SenderAssumption ==
    /\ InputChunks \in Nat \ {0}
    /\ InCap \in Nat \ {0} /\ NetCap \in Nat \ {0}
    /\ PktsPerChunk \in Nat \ {0} /\ HGAP_SALVE_LEN \in Nat \ {0}
    /\ {LastChunkEmpty, keepalive, ReadMayFail, WirehairMayFail, NetworkMayFail} \subseteq BOOLEAN

\* A null pointer is no chunk.
ASSUME PillAssumption == NULL \notin Nat

Pill == NULL

VARIABLES
    in2enc, enc2net,           \* the channels
    rpc, file, rret,           \* read_loop
    epc, held, eret,           \* encode_loop, and the input buffers it has sent on and still holds
    spc, count, more_data, retval,   \* send_loop and hgap_send
    id,                        \* the last bit of next_pkt_id of its chunk
    kpc, cont,                 \* keepalive_loop_thread, and the flag it reads
    freed,                     \* struct hgap_sender has been freed
    wire, ended                \* history: chunks and END packets given to sendto

svars == <<spc, count, more_data, retval, id>>
kvars == <<kpc, cont, freed>>
vars == <<in2enc, enc2net, rpc, file, rret, epc, held, eret, spc, count, more_data, retval, id,
          kpc, cont, freed, wire, ended>>

Init ==
    /\ in2enc = <<>> /\ enc2net = <<>>
    /\ rpc = "read" /\ file = 0 /\ rret = HGAP_SUCCESS
    /\ epc = "peek" /\ held = 0 /\ eret = HGAP_SUCCESS
    /\ spc = "new" /\ count = 0 /\ more_data = TRUE /\ retval = HGAP_SUCCESS
    /\ id = 0
    /\ kpc = "none" /\ cont = FALSE /\ freed = FALSE
    /\ wire = <<>> /\ ended = 0

\* The chunk holds nothing, and needs no wirehair.
Empty(chunk) == LastChunkEmpty /\ chunk = InputChunks - 1

\* A failed CHK_PERROR, or a null pointer dereference, ends every thread.
Exit(l) == rpc' = l /\ epc' = l /\ spc' = l /\ kpc' = l

-----------------------------------------------------------------------------
(* read_loop.                                                              *)

\* Mutant: a chunk is sent without waiting for room.
ReadChunk_Unbounded ==
    /\ rpc = "read"
    /\ in2enc' = Append(in2enc, file)
    /\ file' = file + 1
    /\ rpc' = IF file' = InputChunks THEN "pill" ELSE "read"
    /\ UNCHANGED <<rret, enc2net, epc, held, eret, svars, kvars, wire, ended>>

\* channel_reserve, read_chunk and channel_send_reserved; the last chunk is the
\* one whose read meets the end of the file.
ReadChunk ==
    /\ rpc = "read"
    /\ Len(in2enc) < InCap
    /\ \/ /\ in2enc' = Append(in2enc, file)
          /\ file' = file + 1
          /\ rpc' = IF file' = InputChunks THEN "pill" ELSE "read"
          /\ UNCHANGED rret
       \/ /\ ReadMayFail
          /\ rret' = HGAP_ERR_FILE_READ
          /\ rpc' = "pill"
          /\ UNCHANGED <<in2enc, file>>
    /\ UNCHANGED <<enc2net, epc, held, eret, svars, kvars, wire, ended>>

\* Mutant: no pill.
ReadPill_Not ==
    /\ rpc = "pill"
    /\ rpc' = "done"
    /\ UNCHANGED <<in2enc, enc2net, file, rret, epc, held, eret, svars, kvars, wire, ended>>

ReadPill ==
    /\ rpc = "pill"
    /\ Len(in2enc) < InCap
    /\ in2enc' = Append(in2enc, Pill)
    /\ rpc' = "done"
    /\ UNCHANGED <<enc2net, file, rret, epc, held, eret, svars, kvars, wire, ended>>

-----------------------------------------------------------------------------
(* encode_loop.                                                            *)

\* channel_peek and hgap_enc_chunk_init.  The pill, like a chunk that could not
\* be encoded, is left in the channel.
EncodeChunk ==
    /\ epc = "peek"
    /\ in2enc # <<>>
    /\ \/ /\ Head(in2enc) = Pill
          /\ epc' = "pill" /\ UNCHANGED eret
       \/ /\ Head(in2enc) # Pill
          /\ epc' = "send" /\ UNCHANGED eret
       \/ /\ Head(in2enc) # Pill /\ ~Empty(Head(in2enc)) /\ WirehairMayFail
          /\ epc' = "pill" /\ eret' = HGAP_ERR_WIREHAIR_ERROR
    /\ UNCHANGED <<in2enc, enc2net, rpc, file, rret, held, svars, kvars, wire, ended>>

\* channel_send: from here on the chunk is in both channels.
SendEncoded ==
    /\ epc = "send" /\ held = 0
    /\ Len(enc2net) < NetCap
    /\ enc2net' = Append(enc2net, Head(in2enc))
    /\ held' = 1
    /\ UNCHANGED <<in2enc, rpc, file, rret, epc, eret, svars, kvars, wire, ended>>

\* Mutant: no channel_ack.
AckEncoded_Not ==
    /\ epc = "send" /\ held = 1
    /\ held' = 0
    /\ epc' = "peek"
    /\ UNCHANGED <<in2enc, enc2net, rpc, file, rret, eret, svars, kvars, wire, ended>>

\* channel_ack gives the input buffer back to read_loop.
AckEncoded ==
    /\ epc = "send" /\ held = 1
    /\ in2enc' = Tail(in2enc)
    /\ held' = 0
    /\ epc' = "peek"
    /\ UNCHANGED <<enc2net, rpc, file, rret, eret, svars, kvars, wire, ended>>

EncodePill ==
    /\ epc = "pill"
    /\ Len(enc2net) < NetCap
    /\ enc2net' = Append(enc2net, Pill)
    /\ epc' = "done"
    /\ UNCHANGED <<in2enc, rpc, file, rret, held, eret, svars, kvars, wire, ended>>

-----------------------------------------------------------------------------
(* send_loop.                                                              *)

\* goto send_loop_fail
Fail(ret) == retval' = ret /\ spc' = "free"

\* hgap_sender_new starts the keepalive thread.  When it fails, send_loop_fail
\* gives the null pointer to hgap_sender_free.
NewSender ==
    /\ spc = "new"
    /\ \/ /\ spc' = "begin"
          /\ cont' = keepalive
          /\ kpc' = IF keepalive THEN "test" ELSE "none"
          /\ UNCHANGED <<rpc, epc>>
       \/ /\ NetworkMayFail
          /\ Exit("crashed")
          /\ UNCHANGED cont
    /\ UNCHANGED <<in2enc, enc2net, file, rret, held, eret, count, more_data, retval, id, freed,
                   wire, ended>>

\* One packet of hgap_sender_control for the handwave.
Handwave ==
    /\ spc = "begin"
    /\ \/ /\ count' = (count + 1) % HGAP_SALVE_LEN
          /\ spc' = IF count' = 0 THEN "recv" ELSE "begin"
          /\ UNCHANGED retval
       \/ /\ NetworkMayFail
          /\ Fail(HGAP_ERR_NETWORK)
          /\ UNCHANGED count
    /\ UNCHANGED <<in2enc, enc2net, rpc, file, rret, epc, held, eret, more_data, id, kvars, wire, ended>>

\* The head of the loop: channel_recv, unless an error has cleared more_data.
RecvEncoded ==
    /\ spc = "recv"
    /\ \/ /\ more_data /\ enc2net # <<>> /\ Head(enc2net) # Pill
          /\ enc2net' = Tail(enc2net)
          /\ wire' = Append(wire, Head(enc2net))
          /\ spc' = "emit" /\ id' = 0
          /\ UNCHANGED more_data
       \/ /\ more_data /\ enc2net # <<>> /\ Head(enc2net) = Pill
          /\ enc2net' = Tail(enc2net)
          /\ more_data' = FALSE
          /\ spc' = "end"
          /\ UNCHANGED <<id, wire>>
       \/ /\ ~more_data
          /\ spc' = "end"
          /\ UNCHANGED <<enc2net, id, wire, more_data>>
    /\ UNCHANGED <<in2enc, rpc, file, rret, epc, held, eret, count, retval, kvars, ended>>

\* The chunk being sent is an empty one.
SendingEmpty == Empty(wire[Len(wire)])

\* hgap_enc_chunk_emit and hgap_sender_send, whose errors go unnoticed.  If no
\* block can be made the loop goes on with the next one.  Of an empty chunk the
\* redundancy is 0 / 0, of which nobody knows whether it is enough.
EmitPkt ==
    /\ spc = "emit"
    /\ id' = 1 - id
    /\ \/ /\ ~SendingEmpty
          /\ count' = (count + 1) % PktsPerChunk
          /\ spc' = IF count' = 0 THEN "recv" ELSE "emit"
          /\ UNCHANGED <<more_data, retval>>
       \/ /\ SendingEmpty
          /\ spc' \in {"emit", "recv"}
          /\ UNCHANGED <<count, more_data, retval>>
       \/ /\ ~SendingEmpty /\ WirehairMayFail
          /\ retval' = HGAP_ERR_WIREHAIR_ERROR
          /\ more_data' = FALSE
          /\ UNCHANGED <<count, spc>>
    /\ UNCHANGED <<in2enc, enc2net, rpc, file, rret, epc, held, eret, kvars, wire, ended>>

\* One END packet of the teardown; a network error ends the salve.
Teardown ==
    /\ spc = "end"
    /\ \/ /\ ended' = ended + 1
          /\ spc' = IF ended' = HGAP_SALVE_LEN THEN "free" ELSE "end"
       \/ NetworkMayFail /\ spc' = "free" /\ UNCHANGED ended
    /\ UNCHANGED <<in2enc, enc2net, rpc, file, rret, epc, held, eret, count, more_data, retval, id,
                   kvars, wire>>

\* hgap_sender_free: the flag is cleared and the keepalive thread joined.
ClearCont ==
    /\ spc = "free"
    /\ cont' = FALSE
    /\ spc' = "join_keepalive"
    /\ UNCHANGED <<in2enc, enc2net, rpc, file, rret, epc, held, eret, count, more_data, retval, id,
                   kpc, freed, wire, ended>>

\* Mutant: the thread is not joined.
FreeSender_Unjoined ==
    /\ spc = "join_keepalive"
    /\ freed' = TRUE
    /\ spc' = "join_read"
    /\ UNCHANGED <<in2enc, enc2net, rpc, file, rret, epc, held, eret, count, more_data, retval, id,
                   kpc, cont, wire, ended>>

FreeSender ==
    /\ spc = "join_keepalive"
    /\ kpc \in {"none", "done"}
    /\ freed' = TRUE
    /\ spc' = "join_read"
    /\ UNCHANGED <<in2enc, enc2net, rpc, file, rret, epc, held, eret, count, more_data, retval, id,
                   kpc, cont, wire, ended>>

\* Mutant: what read_loop returns is ignored.
JoinReader_Ignores ==
    /\ spc = "join_read" /\ rpc = "done"
    /\ spc' = "join_enc"
    /\ UNCHANGED <<in2enc, enc2net, rpc, file, rret, epc, held, eret, count, more_data, retval, id, kvars,
                   wire, ended>>

\* The two pthread_join of hgap_send.
JoinReader ==
    /\ spc = "join_read" /\ rpc = "done"
    /\ retval' = HGAP_SELECT_ERROR(rret, retval)
    /\ spc' = "join_enc"
    /\ UNCHANGED <<in2enc, enc2net, rpc, file, rret, epc, held, eret, count, more_data, id, kvars,
                   wire, ended>>

JoinEncoder ==
    /\ spc = "join_enc" /\ epc = "done"
    /\ retval' = HGAP_SELECT_ERROR(eret, retval)
    /\ spc' = "returned"
    /\ UNCHANGED <<in2enc, enc2net, rpc, file, rret, epc, held, eret, count, more_data, id, kvars,
                   wire, ended>>

-----------------------------------------------------------------------------
(* keepalive_loop_thread.                                                  *)

KeepaliveTest ==
    /\ kpc = "test"
    /\ kpc' = IF cont THEN "send" ELSE "done"
    /\ UNCHANGED <<in2enc, enc2net, rpc, file, rret, epc, held, eret, svars, cont, freed, wire, ended>>

\* After the sleep; a network error ends the process.
KeepaliveSend ==
    /\ kpc = "send"
    /\ \/ kpc' = "test" /\ UNCHANGED <<rpc, epc, spc>>
       \/ NetworkMayFail /\ Exit("exited")
    /\ UNCHANGED <<in2enc, enc2net, file, rret, held, eret, count, more_data, retval, id, cont, freed,
                   wire, ended>>

-----------------------------------------------------------------------------

Returned == spc = "returned"
Killed == spc \in {"exited", "crashed"}

Stopped == (Returned \/ Killed) /\ UNCHANGED vars

ReadStep == ReadChunk \/ ReadPill
EncodeStep == EncodeChunk \/ SendEncoded \/ AckEncoded \/ EncodePill
SendStep ==
    \/ NewSender \/ Handwave \/ RecvEncoded \/ EmitPkt \/ Teardown
    \/ ClearCont \/ FreeSender \/ JoinReader \/ JoinEncoder
KeepaliveStep == KeepaliveTest \/ KeepaliveSend

Next == ReadStep \/ EncodeStep \/ SendStep \/ KeepaliveStep \/ Stopped

Spec == Init /\ [][Next]_vars

\* Every thread is scheduled, and the calls it makes return.
FairSpec ==
    /\ Spec
    /\ WF_vars(ReadStep) /\ WF_vars(EncodeStep) /\ WF_vars(SendStep) /\ WF_vars(KeepaliveStep)

-----------------------------------------------------------------------------
(* Properties.                                                             *)

Labels == {"new", "begin", "recv", "emit", "end", "free", "join_keepalive", "join_read",
           "join_enc", "returned", "exited", "crashed"}

Chunks == 0 .. InputChunks - 1

\* The state of the four threads and of the two channels keeps its type.
TypeOK ==
    /\ in2enc \in Seq(Chunks \union {Pill}) /\ Len(in2enc) <= InCap
    /\ enc2net \in Seq(Chunks \union {Pill}) /\ Len(enc2net) <= NetCap
    /\ rpc \in {"read", "pill", "done", "exited", "crashed"}
    /\ epc \in {"peek", "send", "pill", "done", "exited", "crashed"}
    /\ spc \in Labels
    /\ kpc \in {"none", "test", "send", "done", "exited", "crashed"}
    /\ file \in 0 .. InputChunks
    /\ count \in 0 .. HGAP_SALVE_LEN + PktsPerChunk
    /\ held \in 0 .. 1 /\ id \in 0 .. 1
    /\ more_data \in BOOLEAN /\ cont \in BOOLEAN /\ freed \in BOOLEAN
    /\ rret \in Nat /\ eret \in Nat /\ retval \in Nat
    /\ wire \in Seq(Chunks)
    /\ ended \in 0 .. HGAP_SALVE_LEN

\* read_loop, encode_loop and the two channels between the file and send_loop are
\* one first-in first-out channel of their joint capacity: no chunk is lost, doubled
\* or overtaken on its way to the wire, whichever thread fails, and the memory in
\* use is bounded although the encoder sends a chunk on before it acknowledges it.
Pipeline == INSTANCE BoundedFifo WITH
    Capacity <- InCap + NetCap,
    Values   <- Chunks,
    sent     <- [i \in 1 .. file |-> i - 1],
    rcvd     <- wire,
    poisoned <- FALSE,
    inflight <- {}

PipelineSpec == Pipeline!Spec

\* The keepalive thread uses the socket and the limiter of struct hgap_sender,
\* which is freed only after the last packet of that thread.
NoUseAfterFree == freed => kpc \notin {"test", "send"}

\* hgap_send returns HGAP_SUCCESS only if every chunk of the file went through
\* send_loop: an error of read_loop or encode_loop, which reaches send_loop as
\* the same pill as the end of the file, is reported by the joins.
SuccessMeansSent ==
    Returned /\ retval = HGAP_SUCCESS => Len(wire) = InputChunks

\* hgap_send waits for a thread that waits for room in a channel nobody empties any
\* more, after an error of send_loop or encode_loop.
Jammed ==
    /\ retval # HGAP_SUCCESS \/ eret # HGAP_SUCCESS
    /\ \/ /\ spc = "join_read" /\ rpc # "done" /\ Len(in2enc) = InCap
          /\ epc = "done" \/ (held = 0 /\ Len(enc2net) = NetCap)
       \/ spc = "join_enc" /\ epc # "done" /\ held = 0 /\ Len(enc2net) = NetCap

\* The pills reach every thread through the full channels, after a read error too,
\* and the keepalive thread sees its flag: hgap_send returns, unless one of three
\* things happens.  An error has left a full channel without its consumer, or
\* wirehair fails for every block and send_loop asks for another one for ever, or
\* no number of packets is enough for the empty chunk at the end of the file.
SendEnds ==
    \/ <>(Returned \/ Killed \/ Jammed)
    \/ <>[](spc = "emit" /\ ~more_data)
    \/ <>[](spc = "emit" /\ SendingEmpty)

\* The three threads between the file and the network: each waits for another one.
\* (keepalive_loop_thread waits for nobody, and would hide this from a search for
\* states without a successor.)
AllWait ==
    /\ rpc = "done" \/ (rpc \in {"read", "pill"} /\ Len(in2enc) = InCap)
    /\ \/ epc = "done" \/ (epc = "peek" /\ in2enc = <<>>)
       \/ epc \in {"send", "pill"} /\ held = 0 /\ Len(enc2net) = NetCap
    /\ \/ spc = "recv" /\ more_data /\ enc2net = <<>>
       \/ spc = "join_read" /\ rpc # "done"
       \/ spc = "join_enc" /\ epc # "done"

\* Whatever the capacities, and whoever fails first, that happens only after an error
\* of send_loop or encode_loop: full channels, empty ones and joins make no circle.
NoDeadlock == AllWait => Jammed

\* hairgap.h: hgap_send "returns once the transfer is complete", and returns
\* HGAP_ERR_* on failure: in any case it returns, or the process ends.
SendReturns == <>(Returned \/ Killed)

-----------------------------------------------------------------------------
(* The inductive invariant.                                                *)

\* The chunks in a channel: a pill is its last element.
HasPill(q) == q # <<>> /\ q[Len(q)] = Pill
Load(q) == IF HasPill(q) THEN Len(q) - 1 ELSE Len(q)

\* The channel q holds the chunks from the n-th on, in order.
InOrder(q, n) == \A i \in 1 .. Len(q) : q[i] = IF i <= Load(q) THEN n + i - 1 ELSE Pill

\* The chunks encode_loop has done with: on the wire and in chan_enc2net, but for the
\* one whose buffer it has not given back.
Acked == Len(wire) + Load(enc2net) - held

\* The chunks read are on the wire, then in chan_enc2net, then in chan_in2enc.
PipeInv ==
    /\ \A i \in 1 .. Len(wire) : wire[i] = i - 1
    /\ InOrder(enc2net, Len(wire))
    /\ Acked >= 0
    /\ InOrder(in2enc, Acked)
    /\ file = Acked + Load(in2enc)

\* What the pill and the return value of read_loop stand for.
ReadInv ==
    /\ rpc = "read" => file < InputChunks /\ rret = HGAP_SUCCESS
    /\ rpc \in {"pill", "done"} /\ rret = HGAP_SUCCESS => file = InputChunks
    /\ rpc \in {"read", "pill"} => ~HasPill(in2enc)

\* What the pill and the return value of encode_loop stand for: without an error
\* it has seen the pill of read_loop, and left it where it was.
EncodeInv ==
    /\ epc = "send" => in2enc # <<>> /\ Head(in2enc) # Pill
    /\ epc \in {"peek", "pill", "done"} => held = 0
    /\ epc \in {"pill", "done"} /\ eret = HGAP_SUCCESS => in2enc # <<>> /\ Head(in2enc) = Pill
    /\ epc \in {"peek", "send", "pill"} => ~HasPill(enc2net)
    /\ epc \in {"peek", "send"} => eret = HGAP_SUCCESS

\* send_loop comes to its end without an error only if it has met the pill, and
\* what the joins add up to is a success only if all three were.
SendInv ==
    /\ spc \in {"new", "begin", "recv", "emit"} /\ ~more_data => retval # HGAP_SUCCESS
    /\ /\ spc \in {"end", "free", "join_keepalive", "join_read", "join_enc", "returned"}
       /\ retval = HGAP_SUCCESS
       => epc = "done" /\ enc2net = <<>>
    /\ spc \in {"join_enc", "returned"} => rpc = "done"
    /\ spc \in {"join_enc", "returned"} /\ retval = HGAP_SUCCESS => rret = HGAP_SUCCESS
    /\ spc = "returned" /\ retval = HGAP_SUCCESS => eret = HGAP_SUCCESS
    /\ spc \in {"new", "begin", "recv", "emit"} => ended = 0
    /\ spc = "end" => ended < HGAP_SALVE_LEN

\* The keepalive thread runs only between hgap_sender_new and its join, and the
\* threads end together.
KeepaliveInv ==
    /\ spc = "new" => kpc = "none"
    /\ freed => kpc \notin {"test", "send"} /\ spc # "new"
    /\ spc \in {"exited", "crashed"} <=> epc \in {"exited", "crashed"}
    /\ spc \in {"exited", "crashed"} <=> rpc \in {"exited", "crashed"}

\* A thread that is done has left its pill, until send_loop takes it or gives up.
PillInv ==
    /\ rpc = "done" => HasPill(in2enc)
    /\ epc = "done" /\ more_data => HasPill(enc2net)

\* What the four threads of hgap_send keep true together.
SenderInv == TypeOK /\ PipeInv /\ ReadInv /\ EncodeInv /\ SendInv /\ KeepaliveInv /\ PillInv

=============================================================================
