------------------------------- MODULE Receiver -------------------------------
(***************************************************************************)
(* src/lib/hgap_receive.c: the three threads of hgap_receive.              *)
(*                                                                         *)
(*   hgapr_net_reader --chan_net2dec--> decloop --chan_dec2out--> writer   *)
(*                                                                         *)
(* The reader is the thread that called hgap_receive; it joins the other   *)
(* two at the end.  The channels are the bounded queues module Channel     *)
(* implements.  Only chan_net2dec is ever poisoned, by decloop, so only    *)
(* the reader can meet a poisoned channel while it sleeps: its             *)
(* channel_reserve is modelled with the moment between the test and the    *)
(* wait, during which it holds the mutex and a signal finds nobody.        *)
(*                                                                         *)
(* The network delivers any subsequence of Stream, or nothing more.        *)
(***************************************************************************)
EXTENDS Decoder, Sequences, SequencesExt

CONSTANTS
    Stream,           \* the packets a sender puts on the link
    NetCap, OutCap,   \* capacities of chan_net2dec and chan_dec2out
    NetworkMayFail,   \* socket, bind or recvfrom may fail
    WriteMayFail      \* write may fail or be short

ASSUME ReceiverAssumption ==
    /\ NetCap \in Nat \ {0} /\ OutCap \in Nat \ {0}
    /\ NetworkMayFail \in BOOLEAN /\ WriteMayFail \in BOOLEAN

ASSUME StreamAssumption == Stream \in Seq(Packet)

Pill == [pill |-> TRUE]      \* a struct sized_buf whose data is NULL
Full(x) == [pill |-> FALSE, data |-> x]
Buffers(S) == [pill : {TRUE}] \union [pill : {FALSE}, data : S]

VARIABLES
    pos,        \* packets of Stream delivered or lost
    net2dec, poisoned,
    dec2out,
    rpc, closing, started, slot, retval,    \* hgapr_net_reader, hgap_receive
    dpc, dec, decret, buf, dret,            \* decloop
    wpc, written, flushed, wret,            \* writer
    emitted     \* history: chunks hgap_decoder_emit has produced

rvars == <<rpc, closing, started, slot, retval>>
dvars == <<dpc, dec, decret, buf, dret>>
wvars == <<wpc, written, flushed, wret>>
vars == <<pos, net2dec, poisoned, dec2out, rpc, closing, started, slot, retval,
          dpc, dec, decret, buf, dret, wpc, written, flushed, wret, emitted>>

Init ==
    /\ pos = 0
    /\ net2dec = <<>> /\ poisoned = FALSE /\ dec2out = <<>>
    /\ rpc = "open" /\ closing = FALSE /\ started = FALSE
    /\ slot = NULL /\ retval = HGAP_SUCCESS
    /\ dpc = "peek" /\ dec = hgap_decoder_new /\ decret = 0
    /\ buf = Pill /\ dret = HGAP_SUCCESS
    /\ wpc = "recv" /\ written = <<>> /\ flushed = FALSE /\ wret = HGAP_SUCCESS
    /\ emitted = <<>>

-----------------------------------------------------------------------------
(* hgapr_net_reader.                                                       *)

\* goto closing, or break out of the loop, with this return value.
Close(ret) == closing' = TRUE /\ retval' = ret /\ rpc' = "reserve"

OpenSocket ==
    /\ rpc = "open"
    /\ \/ rpc' = "reserve" /\ UNCHANGED <<closing, retval>>
       \/ NetworkMayFail /\ Close(HGAP_ERR_NETWORK)
    /\ UNCHANGED <<pos, net2dec, poisoned, dec2out, started, slot, dvars, wvars, emitted>>

\* exit() ends every thread where it is.
Exit == rpc' = "exited" /\ dpc' = "exited" /\ wpc' = "exited"

\* Mutant: one element too many is let in.
Reserve_OneMore ==
    /\ rpc = "reserve"
    /\ rpc' = IF poisoned THEN "join_dec"
              ELSE IF Len(net2dec) > NetCap THEN "window"
              ELSE IF closing THEN "pill" ELSE "recv"
    /\ UNCHANGED <<pos, net2dec, poisoned, dec2out, closing, started, slot, retval,
                   dvars, wvars, emitted>>

\* channel_reserve up to its test.  A poisoned channel ends the process in the
\* loop (CHK(pkt)), and only skips the pill after it.
Reserve ==
    /\ rpc = "reserve"
    /\ \/ poisoned /\ ~closing /\ Exit
       \/ /\ poisoned /\ closing
          /\ rpc' = "join_dec"
          /\ UNCHANGED <<dpc, wpc>>
       \/ /\ ~poisoned
          /\ rpc' = IF Len(net2dec) >= NetCap THEN "window"
                    ELSE IF closing THEN "pill" ELSE "recv"
          /\ UNCHANGED <<dpc, wpc>>
    /\ UNCHANGED <<pos, net2dec, poisoned, dec2out, closing, started, slot, retval,
                   dec, decret, buf, dret, written, flushed, wret, emitted>>

\* pthread_cond_wait: from here on a signal is needed.
FallAsleep ==
    /\ rpc = "window"
    /\ rpc' = "asleep"
    /\ UNCHANGED <<pos, net2dec, poisoned, dec2out, closing, started, slot, retval,
                   dvars, wvars, emitted>>

SpuriousWakeup ==
    /\ rpc = "asleep"
    /\ rpc' = "reserve"
    /\ UNCHANGED <<pos, net2dec, poisoned, dec2out, closing, started, slot, retval,
                   dvars, wvars, emitted>>

\* recvfrom returns a packet; those before it are lost.
RecvPacket ==
    /\ rpc = "recv"
    /\ \E i \in pos + 1 .. Len(Stream) :
        /\ pos' = i
        /\ slot' = Stream[i]
        /\ started' = (started \/ hgap_pkt_type(Stream[i]) = "begin")
    /\ rpc' = "send"
    /\ UNCHANGED <<net2dec, poisoned, dec2out, closing, retval, dvars, wvars, emitted>>

\* Mutant: the loop is left without an error code.
RecvFails_Silently ==
    /\ rpc = "recv"
    /\ started \/ NetworkMayFail
    /\ Close(retval)
    /\ UNCHANGED <<pos, net2dec, poisoned, dec2out, started, slot, dvars, wvars, emitted>>

\* recvfrom returns -1: a timeout, once a BEGIN has armed it, or an error.
RecvFails ==
    /\ rpc = "recv"
    /\ \/ started /\ Close(HGAP_ERR_TIMEOUT)
       \/ NetworkMayFail /\ Close(HGAP_ERR_NETWORK)
    /\ UNCHANGED <<pos, net2dec, poisoned, dec2out, started, slot, dvars, wvars, emitted>>

SendReserved ==
    /\ rpc = "send"
    /\ IF poisoned
       THEN Close(HGAP_ERR_IPC) /\ UNCHANGED net2dec
       ELSE /\ net2dec' = Append(net2dec, Full(slot))
            /\ closing' = (hgap_pkt_type(slot) = "end")
            /\ rpc' = "reserve"
            /\ UNCHANGED retval
    /\ UNCHANGED <<pos, poisoned, dec2out, started, slot, dvars, wvars, emitted>>

SendPill ==
    /\ rpc = "pill"
    /\ rpc' = "join_dec"
    /\ IF poisoned
       THEN retval' = HGAP_ERR_IPC /\ UNCHANGED net2dec
       ELSE net2dec' = Append(net2dec, Pill) /\ UNCHANGED retval
    /\ UNCHANGED <<pos, poisoned, dec2out, closing, started, slot, dvars, wvars, emitted>>

\* hgap_receive: the two pthread_join.
JoinDecoder ==
    /\ rpc = "join_dec" /\ dpc = "done"
    /\ rpc' = "join_wr"
    /\ retval' = HGAP_SELECT_ERROR(dret, retval)
    /\ UNCHANGED <<pos, net2dec, poisoned, dec2out, closing, started, slot,
                   dvars, wvars, emitted>>

JoinWriter ==
    /\ rpc = "join_wr" /\ wpc = "done"
    /\ rpc' = "returned"
    /\ retval' = HGAP_SELECT_ERROR(wret, retval)
    /\ UNCHANGED <<pos, net2dec, poisoned, dec2out, closing, started, slot,
                   dvars, wvars, emitted>>

-----------------------------------------------------------------------------
(* decloop.                                                                *)

\* channel_peek finds the pill, which it leaves in the channel.
PeekPill ==
    /\ dpc = "peek" /\ net2dec # <<>> /\ Head(net2dec).pill
    /\ dpc' = "finish"
    /\ UNCHANGED <<pos, net2dec, poisoned, dec2out, rvars, dec, decret, buf, dret,
                   wvars, emitted>>

\* Mutant: channel_ack does not wake the reader.
ReadPacket_Silent ==
    /\ dpc = "peek" /\ net2dec # <<>> /\ ~Head(net2dec).pill
    /\ rpc # "window"
    /\ \E r \in hgap_decoder_read(dec, Head(net2dec).data) : dec' = r.dec /\ decret' = r.ret
    /\ net2dec' = Tail(net2dec)
    /\ dpc' = "handle"
    /\ UNCHANGED <<pos, poisoned, dec2out, rvars, buf, dret, wvars, emitted>>

\* channel_peek, hgap_decoder_read and channel_ack, which wakes the reader if
\* the channel was full.
ReadPacket ==
    /\ dpc = "peek" /\ net2dec # <<>> /\ ~Head(net2dec).pill
    /\ rpc # "window"
    /\ \E r \in hgap_decoder_read(dec, Head(net2dec).data) : dec' = r.dec /\ decret' = r.ret
    /\ net2dec' = Tail(net2dec)
    /\ rpc' = IF rpc = "asleep" /\ Len(net2dec) = NetCap THEN "reserve" ELSE rpc
    /\ dpc' = "handle"
    /\ UNCHANGED <<pos, poisoned, dec2out, closing, started, slot, retval, buf, dret,
                   wvars, emitted>>

\* Sets the flag and signals whoever sleeps at this moment.
channel_poison ==
    /\ poisoned' = TRUE
    /\ rpc' = IF rpc = "asleep" THEN "reserve" ELSE rpc

DecodeError(err) ==
    /\ channel_poison
    /\ dret' = err
    /\ dpc' = "finish"

\* What decloop does with the return value of hgap_decoder_read.
HandleReturn ==
    /\ dpc = "handle"
    /\ \/ /\ decret = 0
          /\ dpc' = "peek"
          /\ UNCHANGED <<rpc, poisoned, dec, buf, dret, emitted>>
       \/ /\ decret = -HGAP_EOT
          /\ dpc' = "finish"
          /\ UNCHANGED <<rpc, poisoned, dec, buf, dret, emitted>>
       \/ /\ decret < 0 /\ decret # -HGAP_EOT
          /\ DecodeError(-decret)
          /\ UNCHANGED <<dec, buf, emitted>>
       \/ /\ decret > 0
          /\ \E e \in hgap_decoder_emit(dec, decret) :
                /\ dec' = e.dec
                /\ IF e.ret = HGAP_SUCCESS
                   THEN /\ dpc' = "send"
                        /\ buf' = Full(e.out)
                        /\ emitted' = Append(emitted, e.out)
                        /\ UNCHANGED <<rpc, poisoned, dret>>
                   ELSE DecodeError(e.ret) /\ UNCHANGED <<buf, emitted>>
    /\ UNCHANGED <<pos, net2dec, dec2out, closing, started, slot, retval, decret,
                   wvars>>

\* Mutant: a chunk is dropped when the channel is full.
SendChunk_Drops ==
    /\ dpc = "send"
    /\ dec2out' = IF Len(dec2out) < OutCap THEN Append(dec2out, buf) ELSE dec2out
    /\ dpc' = "peek"
    /\ UNCHANGED <<pos, net2dec, poisoned, rvars, dec, decret, buf, dret, wvars, emitted>>

\* Mutant: a chunk is sent without waiting for room.
SendChunk_Unbounded ==
    /\ dpc = "send"
    /\ dec2out' = Append(dec2out, buf)
    /\ dpc' = "peek"
    /\ UNCHANGED <<pos, net2dec, poisoned, rvars, dec, decret, buf, dret, wvars, emitted>>

\* channel_send on chan_dec2out, which nobody poisons.
SendChunk ==
    /\ dpc = "send" /\ Len(dec2out) < OutCap
    /\ dec2out' = Append(dec2out, buf)
    /\ dpc' = "peek"
    /\ UNCHANGED <<pos, net2dec, poisoned, rvars, dec, decret, buf, dret,
                   wvars, emitted>>

SendDecoderPill ==
    /\ dpc = "finish" /\ Len(dec2out) < OutCap
    /\ dec2out' = Append(dec2out, Pill)
    /\ dpc' = "done"
    /\ UNCHANGED <<pos, net2dec, poisoned, rvars, dec, decret, buf, dret,
                   wvars, emitted>>

-----------------------------------------------------------------------------
(* writer.                                                                 *)

\* The pill, or a write error, leads out of the loop.
RecvChunk ==
    /\ wpc = "recv" /\ dec2out # <<>>
    /\ dec2out' = Tail(dec2out)
    /\ \/ /\ Head(dec2out).pill
          /\ wpc' = "flush"
          /\ UNCHANGED <<written, wret>>
       \/ /\ ~Head(dec2out).pill
          /\ written' = Append(written, Head(dec2out).data)
          /\ UNCHANGED <<wpc, wret>>
       \/ /\ ~Head(dec2out).pill /\ WriteMayFail
          /\ wpc' = "flush" /\ wret' = HGAP_ERR_BAD_OUT_FD
          /\ UNCHANGED written
    /\ UNCHANGED <<pos, net2dec, poisoned, rvars, dvars, flushed, emitted>>

\* fsync: its result is not looked at.
Flush ==
    /\ wpc = "flush"
    /\ flushed' = TRUE
    /\ wpc' = "done"
    /\ UNCHANGED <<pos, net2dec, poisoned, dec2out, rvars, dvars, written, wret,
                   emitted>>

-----------------------------------------------------------------------------

Returned == rpc = "returned"
Exited == rpc = "exited"

ReaderStep ==
    \/ OpenSocket \/ Reserve \/ FallAsleep \/ RecvPacket \/ RecvFails
    \/ SendReserved \/ SendPill \/ JoinDecoder \/ JoinWriter

DecoderStep == PeekPill \/ ReadPacket \/ HandleReturn \/ SendChunk \/ SendDecoderPill

WriterStep == RecvChunk \/ Flush

\* The program is over, or listens for a BEGIN that does not come.
Stopped ==
    /\ Returned \/ Exited \/ (rpc = "recv" /\ ~started /\ pos = Len(Stream))
    /\ UNCHANGED vars

Next == ReaderStep \/ SpuriousWakeup \/ DecoderStep \/ WriterStep \/ Stopped

Spec == Init /\ [][Next]_vars

(***************************************************************************)
(* Each thread is scheduled.  Once a BEGIN has armed it, the timeout makes *)
(* recvfrom return, with or without packets.  decloop obtains the mutex of *)
(* chan_net2dec if it keeps becoming free; spurious wake-ups are never to  *)
(* be counted on.                                                          *)
(***************************************************************************)
FairSpec ==
    /\ Spec
    /\ WF_vars(ReaderStep)
    /\ SF_vars(DecoderStep)
    /\ WF_vars(WriterStep)

-----------------------------------------------------------------------------
(* Properties.                                                             *)

\* The state of the three threads and of the two channels keeps its type.
TypeOK ==
    /\ pos \in 0 .. Len(Stream) /\ slot \in Packet \union {NULL}
    /\ net2dec \in Seq(Buffers(Packet)) /\ Len(net2dec) <= NetCap
    /\ dec2out \in Seq(Buffers(Bodies)) /\ Len(dec2out) <= OutCap
    /\ dec \in DecoderState /\ decret \in Int /\ buf \in Buffers(Bodies)
    /\ written \in Seq(Bodies) /\ emitted \in Seq(Bodies)
    /\ rpc \in {"open", "reserve", "window", "asleep", "recv", "send", "pill",
                "join_dec", "join_wr", "returned", "exited"}
    /\ dpc \in {"peek", "handle", "send", "finish", "done", "exited"}
    /\ wpc \in {"recv", "flush", "done", "exited"}
    /\ retval \in Nat /\ dret \in Nat /\ wret \in Nat
    /\ poisoned \in BOOLEAN /\ flushed \in BOOLEAN
    /\ closing \in BOOLEAN /\ started \in BOOLEAN

\* Every chunk decoded was given to write, in order, and fsync was called after the
\* last of them, when hgap_receive returns without a write error, whichever of the
\* pill, the timeout, the END packet and a decoding error came first.
AllEmittedWritten ==
    /\ IsPrefix(written, emitted)
    /\ Returned /\ wret = HGAP_SUCCESS => written = emitted /\ flushed

\* What decloop emits and writer writes is a first-in first-out channel: no chunk is
\* lost in between, doubled or overtaken, up to a write error, after which nothing
\* is written any more; and however fast packets come, no more chunks are in memory than
\* chan_dec2out holds, one with decloop, and the one that could not be written.
Output == INSTANCE BoundedFifo WITH
    Capacity <- OutCap + 2,
    Values   <- Bodies,
    sent     <- emitted,
    rcvd     <- written,
    poisoned <- FALSE,
    inflight <- {}

OutputSpec == Output!Spec

\* hgap_receive returns HGAP_SUCCESS only after the END packet of a sender, if no
\* chunk was found incomplete, and if all chunks were written: no timeout and no
\* error of another thread gets lost on the way through the joins.
SuccessNeedsEnd ==
    Returned /\ retval = HGAP_SUCCESS =>
        /\ pos > 0 /\ hgap_pkt_type(Stream[pos]) = "end"
        /\ decret >= -HGAP_EOT
        /\ written = emitted

\* decloop has met an error, or was told -1 by hgap_dec_chunk_read, which it takes
\* for the end of the transfer.
DecodingFailed == dret # HGAP_SUCCESS \/ (decret = -1 /\ dec.state # T_STOPPED)

\* The reader sleeps on a channel whose decoder is gone, or the decoder waits for
\* room in one whose writer is, after an error of that thread.
Jammed ==
    \/ rpc = "asleep" /\ dpc \notin {"peek", "handle"} /\ DecodingFailed
    \/ dpc \in {"send", "finish"} /\ Len(dec2out) = OutCap
       /\ wpc \in {"flush", "done"} /\ wret # HGAP_SUCCESS

\* Once a BEGIN was received hgap_receive returns: pills and joins let no thread
\* wait for ever, whatever the sizes of the channels, the losses and the moment the
\* timeout strikes.  The exceptions are a reader that falls asleep as decloop ends
\* with an error, and a write error while chunk after chunk is decoded.
ReceiveReturns == started ~> (Returned \/ Exited \/ Jammed)

\* Each of the three threads waits for another one.  (A spurious wake-up, which nobody
\* may count on, would hide this from a search for states without a successor.)
AllWait ==
    /\ \/ rpc = "asleep"
       \/ rpc = "join_dec" /\ dpc # "done"
       \/ rpc = "join_wr" /\ wpc # "done"
    /\ \/ dpc = "done" \/ (dpc = "peek" /\ net2dec = <<>>)
       \/ dpc \in {"send", "finish"} /\ Len(dec2out) = OutCap
    /\ wpc = "done" \/ (wpc = "recv" /\ dec2out = <<>>)

\* Whatever the capacities, the losses and the order in which END, timeout, pills and
\* errors come, that happens only after an error of decloop or writer.
NoDeadlock == AllWait => Jammed

\* hairgap.h: hgap_receive returns "HGAP_SUCCESS on success, HGAP_ERR_* on
\* failure".  It returns, or the process ends, after a failure too.
FailureReturns == started ~> (Returned \/ Exited)

\* encoding.h: hgap_decoder_read returns "< 0 if an error occured".  An error of
\* wirehair while a chunk is read makes hgap_receive fail.
WirehairErrorReported ==
    Returned /\ retval = HGAP_SUCCESS => IsSmall(dec) \/ dec.wh_state

-----------------------------------------------------------------------------
(* The inductive invariant.                                                *)

\* The chunks in chan_dec2out: a pill is its last element.
HasPill(q) == q # <<>> /\ q[Len(q)].pill
Load(q) == IF HasPill(q) THEN Len(q) - 1 ELSE Len(q)

\* The channel q holds what comes in s after the first n elements.
Holds(q, s, n) ==
    \A i \in 1 .. Len(q) : q[i] = IF i <= Load(q) THEN Full(s[n + i]) ELSE Pill

InHand == IF dpc = "send" THEN 1 ELSE 0

\* The chunks emitted are in the file, then in chan_dec2out, then in the hand of
\* decloop, until a write error ends writer.
OutputInv ==
    /\ Len(written) <= Len(emitted)
    /\ \A i \in 1 .. Len(written) : written[i] = emitted[i]
    /\ rpc # "exited" /\ wret = HGAP_SUCCESS =>
        /\ Len(emitted) = Len(written) + Load(dec2out) + InHand
        /\ Holds(dec2out, emitted, Len(written))
    /\ dpc = "send" => buf = Full(emitted[Len(emitted)])
    /\ dpc \in {"peek", "handle", "send", "finish"} => ~HasPill(dec2out)

\* A write error costs the chunk that could not be written, and no other is missing.
LostInv ==
    rpc # "exited" /\ wret # HGAP_SUCCESS =>
        Len(emitted) = Len(written) + Load(dec2out) + InHand + 1

\* writer stops without an error only after the pill, when everything is written.
WriterInv ==
    /\ wpc = "recv" => wret = HGAP_SUCCESS
    /\ wpc \in {"flush", "done"} /\ wret = HGAP_SUCCESS => dec2out = <<>> /\ dpc = "done"
    /\ wpc = "done" => flushed

\* decloop acts on the return value of a decoder that is still in that state, and
\* finishes without an error only after the pill or an END packet.
DecoderInv ==
    /\ dec.chunk_emitted => dec.chunk_complete
    /\ dpc \in {"peek", "send"} => decret >= 0
    /\ dpc \in {"peek", "handle", "send"} => dret = HGAP_SUCCESS
    /\ dpc \in {"finish", "done"} /\ dret = HGAP_SUCCESS => decret >= -HGAP_EOT
    /\ dpc = "handle" /\ decret > 0 =>
        dec.chunk_complete /\ ~dec.chunk_emitted /\ decret = dec.len

\* The reader leaves its loop without an error only for an END packet, sends what
\* it has made room for, and the joins forget no error.
ReaderInv ==
    /\ rpc \in {"open", "recv", "send"} => ~closing
    /\ rpc \in {"pill", "join_dec", "join_wr", "returned"} => closing
    /\ ~closing => retval = HGAP_SUCCESS
    /\ closing /\ retval = HGAP_SUCCESS => pos > 0 /\ hgap_pkt_type(Stream[pos]) = "end"
    /\ rpc = "send" => pos > 0 /\ slot = Stream[pos]
    /\ rpc \in {"recv", "send", "pill"} => Len(net2dec) < NetCap
    /\ rpc \in {"join_wr", "returned"} => dpc = "done"
    /\ rpc \in {"join_wr", "returned"} /\ retval = HGAP_SUCCESS => dret = HGAP_SUCCESS
    /\ rpc = "returned" => wpc = "done"
    /\ rpc = "returned" /\ retval = HGAP_SUCCESS => wret = HGAP_SUCCESS

\* The threads end together.
ExitInv ==
    /\ rpc = "exited" <=> dpc = "exited"
    /\ rpc = "exited" <=> wpc = "exited"

\* The reader sleeps on a full channel, and threads that end leave a pill or a poison.
PillSent == \E i \in 1 .. Len(net2dec) : net2dec[i].pill

PillInv ==
    /\ rpc \in {"window", "asleep"} => Len(net2dec) = NetCap
    /\ rpc \in {"join_dec", "join_wr", "returned"} => poisoned \/ PillSent
    /\ PillSent => rpc \in {"join_dec", "join_wr", "returned", "exited"}
    /\ poisoned => dpc \notin {"peek", "handle", "send"}
    /\ dpc = "done" /\ wpc = "recv" => HasPill(dec2out)

\* Behind the END packet there is only the pill, and decloop has met one of the two
\* when it ends without an error.
EndInv ==
    /\ \A i \in 1 .. Len(net2dec) : ~net2dec[i].pill /\ hgap_pkt_type(net2dec[i].data) = "end" =>
            closing /\ \A j \in i + 1 .. Len(net2dec) : net2dec[j].pill
    /\ dec.state = T_STOPPED => closing /\ \A j \in 1 .. Len(net2dec) : net2dec[j].pill
    /\ dpc \in {"finish", "done"} /\ ~DecodingFailed => dec.state = T_STOPPED \/ PillSent

\* What the three threads of hgap_receive keep true together.
ReceiverInv ==
    /\ TypeOK /\ OutputInv /\ WriterInv /\ DecoderInv /\ ReaderInv /\ ExitInv
    /\ LostInv /\ PillInv /\ EndInv

=============================================================================
