# hairgap: specifications, model checking and proofs

hairgap transfers a file over a one-way network link.  The sender (`hairgaps`,
`hgap_send`) cuts the file into chunks, turns each chunk into more packets than
strictly needed with the wirehair erasure code and sends them over UDP.  The
receiver (`hairgapr`, `hgap_receive`) cannot answer: it decodes what arrives,
writes it, and has to find out by itself when the transfer is over and whether
anything is missing.

This directory holds TLA+ modules translated from the C code, the TLC
configurations that check them on small instances, and TLAPS proofs.
`PROJECT.json` says for each definition which lines of code it stands for, and
for each run which properties it checks.

## 1. Inventory

| Part | State | Operations | Interaction |
|---|---|---|---|
| Channel (`channel.c`) | ring of `capacity + 1` slots, `rd_idx`, `wr_idx`, `poisoned`, a mutex, two condition variables | `channel_reserve`, `_send_reserved`, `_send`, `_peek`, `_ack`, `_recv`, `_poison` | joins two threads; the buffer is used outside the mutex, the first test is made without it |
| Protocol (`proto.c`) | none | packet types, control packets, parsing | used by every part that sees a packet |
| Encoder (`encoding.c`) | `next_chunk_num`; per chunk its data, length, packet size, next packet id, `total_gen`, wirehair state | `hgap_enc_chunk_init`, `_emit`, handwave, teardown | called by `encode_loop` and `send_loop` |
| Decoder (`encoding.c`) | protocol state, current chunk, `chunk_complete`, `chunk_emitted` | `hgap_decoder_read`, `hgap_decoder_emit` | called by `decloop`, one packet at a time |
| Sending threads (`hgap_send.c`) | two channels, position in the input file, return codes | `read_loop` -> `encode_loop` -> `send_loop`, joins | poison pills through the channels; return codes through the joins |
| UDP sender (`sender.c`) | socket, limiter, flag `cont` | new, send, control salve, free; keepalive thread | the keepalive thread shares the sender with `send_loop`, without a lock |
| Receiving threads (`hgap_receive.c`) | two channels, `started`, return codes, output file | `hgapr_net_reader` -> `decloop` -> `writer`, joins | pills downstream; `decloop` poisons the channel upstream; timeout on the socket |
| wirehair (external) | blocks given to it | encode, write, decode, read, reconstruct | called by `encoding.c` |
| Limiter (`limiter.c`) | byte and packet counters, a date | `hgap_limiter_limit` | called by two threads, without a lock |
| Configuration (`config.c`), programs (`hairgaps.c`, `hairgapr.c`) | none | defaults, checks, options | called at the start; decide the sizes of channels and chunks, the rate and the two periods |
| `common.c`, `error.c` | none | allocation, messages | |

What is hard here:

* **Interleavings inside the channel**: tests without the mutex, signals only on
  the transitions out of full and empty, a poison that takes no lock.
* **Termination of a pipeline of threads**: three or four threads, bounded
  channels between them, pills one way and poison the other, any of them failing
  at any time; everybody waiting for everybody is one missing pill away.
* **A link that loses packets and never answers**: what the receiver concludes
  from the packets it did get; timeout against END; a sender that was killed and
  started again; a receiver that joined late.
* **Time**: a limiter that two threads share without a lock, keepalives that go
  through it, a receiver that knows only silence, and options in four units.
* **Boundaries**: empty last chunk, chunk of one packet, redundancy computed as a
  quotient of sizes, error codes that coincide, packets larger than the buffer.

The list, line by line, is under `hazards` in `PROJECT.json`.

## 2. Modules

| Module | Models | Kind |
|---|---|---|
| `BoundedFifo` | what `channel.h` promises | abstract specification |
| `Channel` | `channel.c`, with the clients of `channel_test.c` | specification |
| `Proto` | `proto.h`, `proto.c`, error codes of `hairgap.h`, `HGAP_SELECT_ERROR` | operators |
| `Wirehair` | the external library, from its use in `encoding.c` | operators |
| `Encoder`, `Decoder` | the two halves of `encoding.c` | operators on the values of its structs |
| `Transfer` | `hgap_send`, link, `hgap_receive`, one actor each | specification composing `Encoder` and `Decoder` |
| `Receiver` | the three threads of `hgap_receive` | specification on top of `Decoder` |
| `Sender` | the four threads of `hgap_send`, `sender.c` | specification |
| `Config` | `config.c`, the options of both programs, the sizes, times and addresses computed from them | operators |
| `Limiter` | `limiter.c`, called by several threads | state and actions, without a specification of its own |
| `Pacing` | `sender.c`, `send_loop`, the socket of `hgapr_net_reader`, in time | specification composing `Config` and `Limiter` |
| `MCChannel`, `MCTransfer`, `MCReceiver`, `MCSender`, `MCPacing` | | instances for TLC |
| `ChannelProofs`, `SenderProofs`, `DecoderProofs`, `ReceiverProofs`, `TransferProofs`, `PacingProofs` | | theorems and proofs about the module of that name |
| `CompletionProofs`, `SilenceProofs` | | theorems and proofs about `CompleteOnSuccess` of `Transfer` and `NoFalseTimeout` of `Pacing` |

A module with a specification states its properties and, after them, the inductive
invariant that its proofs rest on, so that TLC can check the invariant as well.

An operator named `X_Something` in front of a definition `X`, with a comment that
begins with "Mutant", is a plausible bug: with it in place of `X` the property it
is listed with in `PROJECT.json` fails.  No specification uses these operators.

### Channel

One step is one access to memory the other thread can see.  `channel_reserve` and
`channel_peek` have the same shape, and so have `channel_send_reserved` and
`channel_ack`; their actions take the side as a parameter:

| Action | Code |
|---|---|
| `Enter(t)` | first `POISON_CHECK` and the test without the mutex |
| `LockAndTest(t)` | mutex taken (first time, or after a wake-up) and the test of the `while` |
| `CondWait(t)` | `pthread_cond_wait` releases the mutex and starts waiting |
| `SpuriousWakeup(t)` | what POSIX allows a condition variable to do |
| `Return(t)` | second `POISON_CHECK`; the pointer is returned |
| `Fill(v)`, `Use` | the client writes or reads the buffer, without the mutex |
| `CommitCheck(t)` | `POISON_CHECK` and the check of the pointer |
| `Publish`, `Acknowledge` | the critical sections, signal included |
| `SetPoison`, `SignalPoison` | `channel_poison`: the flag, then the signals |

Between `LockAndTest` and `CondWait` the mutex is held: that is the window in
which `channel_poison`, which takes no mutex, signals nobody.  `sent` and `rcvd`
are history variables.  Memory is sequentially consistent.

### Proto, Wirehair, Encoder, Decoder

The data is abstracted to what the properties tell apart.  A packet has its four
header fields, its received length, and a `body`: the content of the chunk its
payload was computed from, or `Corrupt`.  The decoder keeps the set of blocks
given to wirehair; reconstructing from blocks of different contents yields
`Corrupt`.  Sizes are numbers of bytes and are computed as in the code; the header
has its 24 bytes, and the configurations use packets of 25 bytes, so that a block
is one byte.  Chunk numbers wrap at `NumModulus`, which is 2^64 in the program.
An operation with several outcomes is the set of results it may leave.

wirehair: fewer blocks than the chunk has never suffice; the first `n` blocks (the
message itself) or `n + WirehairOverhead` different ones always do; in between the
library may answer either way.

The test `cur_redund < redund` on an empty chunk compares NaN.  The release build
uses `-Ofast`, under which the outcome is unspecified: `BelowRedund` is then a
nondeterministic choice, made anew after every packet, so that the loop may end after
any number of packets or never.  Packet ids count modulo `IdModulus` (`data_id` has 32
bits), without which such a loop would have no end in TLC either; `IdAssumption` says
that the packets a chunk needs have different ids.

### Transfer

The three stages of each program are one actor here, because the channels between
them neither lose nor reorder (module `Channel`); a packet is followed through
`hgapr_net_reader`, `decloop` and `writer` in one step.  The link (`Put`,
`Deliver`) loses at most `LossBudget` packets of a salve or of a chunk, and
delivers any of the first `Window` packets in flight.  `Restart` is a sender that
is killed and run again on a different file (as in `test/cases/case07.sh`).  With
`MayFail` in the setup the sender may fail to read the file (`NextChunk`), to prepare a
chunk (`ReadChunk`) and to make a block (`EmitFails`); as in the code the END salve
follows all the same, and only `sret`, the value `hgap_send` returns, tells.  The
socket timeout can come whenever nothing is in flight and a BEGIN has armed it.

The file, the configuration of the sender, the link and the number of restarts are
a record, `setup`, chosen in the initial state from the constant `Setups`.  The
properties that need something of the link say so (`LinkTolerable`, `Window = 1`),
and every other one is checked on all links.

### Receiver, Sender

Here the threads are apart and the packets are simple.  The channels are bounded
queues, which is what `ChannelImplementsFifo` proves of the ring buffer.  Only
`chan_net2dec` is ever poisoned while somebody may sleep on it, so only the
reader's `channel_reserve` is split into test, `window` (mutex held) and `asleep`.
`CHK` ends the process; a null pointer handed to `hgap_sender_free` does too
(`crashed`).  `written` and `emitted` in `Receiver`, `wire` and `ended` in
`Sender`, are histories.  `flushed` says that `writer` has called `fsync` (or `fflush`)
at its end; the code ignores its result, and so does the model.  `encode_loop` sends a
chunk on (`SendEncoded`) before it gives the input buffer back (`AckEncoded`); `held` is
the buffer it has in between.  `LastChunkEmpty` says that the file ends at the end of a
chunk: for the empty chunk that follows `EmitPkt` goes on or not as it likes, because of
0/0 above.  `id`, a bit of `next_pkt_id`, makes each packet of such a loop a step.

`Jammed`, in both modules, is the state the program stops in after certain
failures; the liveness properties name it, and in `Sender` the two loops that may not
end, as the only exceptions, instead of excusing every behaviour in which something
failed.

In `Sender` the whole path from the file to the wire (`read_loop`, `chan_in2enc`,
`encode_loop`, `chan_enc2net`) is shown to implement one `BoundedFifo` of the joint
capacity (`PipelineSpec`).  That it is not more is not obvious: until `encode_loop`
acknowledges a chunk that it has sent on, the chunk is in both channels.  In `Receiver` the same is shown of the path from
`decloop` to the file (`OutputSpec`).

### Config, Limiter, Pacing

`Config` turns a command line into `struct hgap_config` as the two `main` functions
do and checks it as `config.c` does, in the same order.  Rates and redundancies are
fractions; an address is of one of four kinds, because `getaddrinfo`, `inet_addr`
and the two tests of its result disagree about them.

A step of `Limiter` is one load or store of a shared field.  `n_pkt_sent++` and
`n_bytes_sent += len` are a load and a store each; the reset is three stores, and
while one thread is in it the rate the other thread computes is arbitrary (`since`
is stored in two halves).  Otherwise the rate is the one the counters and the date
give (`RateExceeded`).  The date is replaced by its age, in ticks.  A tick may be as
short as the microsecond that `gettimeofday` counts in.  The code takes the rate for
zero when no microsecond has passed since the reset; the model assumes that a
`sendto` takes longer than that, so that then nothing has been sent either.

`Pacing` has the two threads that send, the receiver's socket, and a clock.  A
thread that can run does so before the next tick (`Urgent`); whether there is input
is open at every moment, and it may go on for ever.  A packet reaches the socket or is lost at once, at most
`MaxLost` in a row.  `sleep` and `usleep` take whole ticks, rounded up.  `Kill` ends
the sender anywhere.  `level` is a leaky bucket that the program does not have: it
holds what was sent above the rate.  `raced` records that both threads were
updating the counters at once; from then on the counters may be wrong and the
properties about the rate say nothing, while `LimiterReleases` still holds.
`ByteCapAssumption` makes the cap of the byte counter leave room for a burst,
`AgeCapAssumption` the cap of the age for the time a burst takes.

## 3. Runs

`transfer` takes about three minutes (418,695 states), `pacing` half a minute
(134,921), the others seconds.
Each passing run also checks `TypeOK` and the inductive invariant of its module
(`ChannelInv`, `TransferInv` and `CompleteInv`, `ReceiverInv`, `SenderInv`, `PacingInv` and
`SilenceInv`).

| Run | What it shows | Bounds |
|---|---|---|
| `channel` | `NoMissedWakeup`, `SlotExclusion`, refinement of `BoundedFifo`, `AllDelivered` | 3 slots, 6 elements: the indices wrap twice, the ring fills and empties, the poison comes anywhere; 2 values tell elements apart |
| `transfer` | losses within the redundancy: a beginning of the file is written, and all of it when both programs report success (`CompleteOnSuccess`); exact number of packets (`RedundancyMet`); any losses: chunks in order, once, with their own content (`OutputInOrder`), nothing begun is skipped (`NoPartialChunkSkipped`); any order: content of one chunk only (`ContentGenuine`); nothing is written before a BEGIN (`NoOutputWithoutBegin`); the receiver ends, unless the sender never gets beyond a chunk (`ReceptionEnds`) | three setups: 2 chunks of 2 blocks and one of 1, redundancy 2, one loss per chunk and salve, the sender may fail anywhere; 2 chunks of 2 blocks and the empty one, 3 losses per chunk and salve (all packets of a chunk), sender started twice; 2 chunks of 2 blocks and one of 1, the same losses and any order among 3 packets; packet ids modulo 5 |
| `receiver` | decoded means written, and `fsync` called (`AllEmittedWritten`); refinement of `BoundedFifo`, which bounds the chunks in memory (`OutputSpec`); no error is lost in the joins (`SuccessNeedsEnd`); the threads wait for each other only where `Jammed` (`NoDeadlock`); `hgap_receive` returns, or is `Jammed` (`ReceiveReturns`) | channels of 2 and 1 elements, stream of 9 packets of which any subsequence arrives, 4 chunks where 3 may be on their way to the file, every kind of failure |
| `sender` | refinement of `BoundedFifo` (`PipelineSpec`); keepalive thread never uses freed memory (`NoUseAfterFree`); success means all sent (`SuccessMeansSent`); the threads wait for each other only where `Jammed` (`NoDeadlock`); `hgap_send` returns, is `Jammed`, or is in a loop that wirehair, or an empty chunk, never lets it leave (`SendEnds`) | 5 chunks, the last one empty, channels of 2, every kind of failure |
| `pacing` | the rate is kept up to two bursts (`RateRespected`); the limiter lets `send_loop` go, and the keepalive thread unless data goes on for ever (`LimiterReleases`); no timeout before the longest silence the options allow (`NoFalseTimeout`); a killed sender is noticed (`KillNoticed`); what passes the checks fits the decoder (`AcceptedConfigFits`); no success without a destination (`NoSuccessUnreachable`) | 17 pairs of command lines: every reason to be turned down, each kind of address, `-m 0` and `-m 1`, no keepalives, a period that is not whole seconds, the largest chunks, a rate; ticks of half a second; the rate looked at after every second packet; any number of data packets, salves of 2, one packet lost in a row |

In `pacing` the numbers of the program (packet sizes, periods in ms and us, memory
in MB) are kept.  `HLIM_CHK_PERIOD` is 1 instead of 1000 and the rate 128 bytes per
second, so that a burst of the limiter takes as many ticks as packets; the caps
(`PktCap`, `ByteCap`, `AgeCap`, `TimeCap`, `LevelCap`) are where a counter no longer
changes an outcome: the packet counter above the period, the age at which every
possible count is below the rate, the clock at the longest timeout, the bucket
above the limit that `RateRespected` states.

The bounds make every channel smaller than the number of elements it carries, give
each size class of a chunk (several blocks, one packet, empty) at least once, and
let the indices of the ring wrap.  Salves have 2 packets instead of 32: the code
only distinguishes the last one.  Symmetry is not used.

Runs that are expected to fail, because the code does something else than a
comment or a header says.  The trace of each ends in the state described;
`PROJECT.json` quotes the sentence.

| Run | What happens |
|---|---|
| `channel_poison` | `channel_poison` between the producer's test and its wait: the producer sleeps for ever.  In `hgap_receive` this is a decoding error while `chan_net2dec` is full |
| `receiver_write_error` | the writer leaves, `chan_dec2out` fills, `decloop` waits on it and `hgap_receive` on `decloop` (`NetCap` leaves the reader room for every packet) |
| `receiver_wirehair` | error -1 is taken for `-HGAP_EOT` |
| `transfer_lost_chunk` | a chunk lost as a whole is not reported |
| `transfer_truncated` | packets larger than the receiver's buffers are truncated and decoded |
| `sender_network` | failed handwave: the other threads are never released |
| `pacing_ratelimit` | `send_loop` and the keepalive thread both sleep in the limiter for longer than the receiver waits (ticks of 100 ms, default timeout, nothing lost); with the real period that takes `-b 0.5` and packets of 1400 bytes |

Runs on threads (`receiver`, `sender`, `receiver_write_error`, `sender_network`)
switch TLC's deadlock check off: after these failures the system
really stops.  In the passing ones `NoDeadlock` excludes that the threads wait for each
other without such a failure, and the liveness property every other stop.  `NoDeadlock`
is stated with the conditions the threads wait for, and not left to TLC's deadlock
check, because a spurious wake-up is always possible for the sleeping reader.

Behaviour that the models exhibit and no run is devoted to: an incomplete last
chunk is dropped at END with success; a receiver that saw no BEGIN stops at END
with success; blocks of two runs of the sender can be decoded together; a read
error still ends with an END salve, the receiver reports success for a beginning of the
file, and the error is only in the sender's return value; if the comparison of 0/0 is
true again and again, neither program ends.  As long as data goes on, `send_loop` can
be the first to look at the rate each time, reset it and exceed it again, so that the
keepalive thread never leaves the limiter; the receiver gets data instead of keepalives.  `hairgapr -t 4` waits four microseconds, although its usage text says
seconds; `hairgapr -m 0` waits for ever; a host name, which `hairgap.h` allows, makes
the sender fail in its handwave, or end in its keepalive thread, and the receiver
fail to open its socket; a sender that could not be created is freed through a null
pointer.

### Fairness

* `Channel`: every step of a thread is strongly fair where it needs the mutex (a
  mutex that keeps becoming free is obtained), weakly fair otherwise.  Nobody has
  to poison, but a call of `channel_poison` runs to its end.  Spurious wake-ups
  are never fair.
* `Transfer`: the sender's packets and the deliveries are scheduled; the packets
  of `send_loop` are strongly fair because the keepalive thread competes for the
  bounded link, which in reality is no resource at all.  The timeout is weakly
  fair: once the link stays empty, the socket timeout expires.  Restarts and
  keepalives are not fair.
* `Receiver`, `Sender`: each thread is scheduled.  Before a BEGIN the reader may
  wait for ever, as in the code; after it, `recvfrom` always returns, with a packet
  or with the timeout.  `decloop` is strongly fair because `channel_ack` needs the
  mutex that the reader holds for a moment.
* `Pacing`: one weak fairness condition for the threads that can run and the clock
  together: somebody runs or time passes, which is all that an operating system
  promises here, since a tick waits until nobody can run.  Input, its end, and
  `Kill` are not fair.

## 4. Proofs

The theorems hold for every value of the constants that the assumptions allow.  In
each module one theorem says that a conjunction of named parts is an invariant of
the specification; there is one lemma per action, or per action and part, and the
properties follow from the conjunction.

### ChannelProofs

For every capacity of at least one, every number of elements and every set of
contents (`CapacityAssumption`, `SendAmountAssumption`):

| Theorem | Statement |
|---|---|
| `ChannelCorrect` | `Spec => []ChannelInv` |
| `ChannelTyped` | `Spec => []TypeOK` |
| `NoWakeupMissed` | `Spec => []NoMissedWakeup` |
| `SlotsExclusive` | `Spec => []SlotExclusion` |
| `ChannelImplementsFifo` | `Spec => FifoSpec`, the refinement of `BoundedFifo` |

None of the properties is inductive.  `ChannelInv` adds what they rest on:

* `RingInv`: the ring holds `sent` without `rcvd`, slot by slot.  Needed to know
  what `Acknowledge` hands over, and that `Publish` overwrites nothing.
* `CallInv`: a side that has seen its slot ready, without the mutex, still has it
  ready, because only that side can make it unready.  This is the claim of the
  comment in `_channel_wait_lock` ("no race condition possible").
* `WaitInv`: the mutex is held exactly in `cond_wait`; whoever sleeps, or holds the
  mutex in order to, is not ready or the channel is poisoned.  A side becomes ready
  only through `Publish` or `Acknowledge`, which need the mutex and signal on that
  very transition.
* `ClientInv`: what the clients carry from one call to the next.

`ReadyIsCount` links the comparison of indices to the number of elements in the
ring, `RingUnchanged` serves all steps that move no index.  The refinement maps
`inflight` to the sides that are past their last check when the poison comes; every
step is a `Send`, a `Receive`, a `Poison` or a stutter.

### SenderProofs

For any number of chunks, any capacities, any packets per chunk and length of a
salve, and any of the failures switched on (`SenderAssumption`; `PillAssumption`
says that the null pointer is not a chunk):

| Theorem | Statement |
|---|---|
| `SenderCorrect` | `Spec => []SenderInv` |
| `SenderTyped` | `Spec => []TypeOK` |
| `KeepaliveSafe` | `Spec => []NoUseAfterFree` |
| `SuccessIsComplete` | `Spec => []SuccessMeansSent` |
| `PipelineImplementsFifo` | `Spec => PipelineSpec` |
| `SenderDeadlockFree` | `Spec => []NoDeadlock` |

A pill and a return value are both promises about what a thread did earlier.
`PipeInv` says that wire, `chan_enc2net` and `chan_in2enc`, in this order, are the
chunks read so far, the one `encode_loop` holds being in two of them (`Acked`); `ReadInv` and `EncodeInv` say what a pill and a success of
`read_loop` and `encode_loop` stand for (the first has read everything, the second
has met the pill of the first); `SendInv` follows the pill to `send_loop` and the
return values through the joins; `KeepaliveInv` ties the life of the keepalive
thread to that of the `struct hgap_sender`; `PillInv` that a thread which is done has left
its pill for the next one.  With it `NoDeadlock` follows: a thread waits on an empty
channel only if the one before it is not done, a full channel is not empty, so that the
chain of waiting threads ends at one that has given up.  The refinement needs `PipeInv` only:
it maps the queue to what is in the two channels.

### DecoderProofs, ReceiverProofs

`ReadyChunkIsEmitted` is about the operators of `Decoder`, for every decoder state
in which an emitted chunk is complete, and every packet: once `hgap_decoder_read`
has announced a chunk, `hgap_decoder_emit` into a buffer of the announced size
succeeds, or wirehair has failed.  `decloop` relies on it: it allocates the buffer
between the two calls.  The lemmas of this module (`ChunkRead`, `DataRead`,
`DecoderRead`, `DecoderEmit`) serve `ReceiverProofs` and `TransferProofs`.

For any stream of packets, any capacities and failures (`ReceiverAssumption`,
`StreamAssumption`, `WirehairAssumption`, `MaxChunkAssumption`, and
`NumModulusAssumption` and `ContentsAssumption` of `Proto`):

| Theorem | Statement |
|---|---|
| `ReceiverCorrect` | `Spec => []ReceiverInv` |
| `ReceiverTyped` | `Spec => []TypeOK` |
| `EmittedIsWritten` | `Spec => []AllEmittedWritten` |
| `SuccessOnlyAfterEnd` | `Spec => []SuccessNeedsEnd` |
| `ReceiverDeadlockFree` | `Spec => []NoDeadlock` |
| `OutputImplementsFifo` | `Spec => OutputSpec`, a refinement of `BoundedFifo` |

`OutputInv` says that file, `chan_dec2out` and the buffer in the hand of `decloop`
are what was emitted, until a write error; `WriterInv` what the pill means to
`writer`; `DecoderInv` that the return value `decloop` acts on still describes the
decoder, and what its own success stands for; `ReaderInv` the same for the reader
and the joins; `ExitInv` that `CHK` ends all threads together.  `PillInv` says that the
reader sleeps only on a full channel (no signal is missed but that of `channel_poison`)
and that a thread that ends leaves a pill or a poison; `EndInv` that behind an END packet
there is only the pill, and that `decloop`, if it ends without an error, has met one of
the two.  `NoDeadlock` needs both: a reader asleep has not sent its pill, and has a
packet at the head of the channel, so that a `decloop` which is gone has failed.  For
the same reason the -1 of `hgap_dec_chunk_read`, which `decloop` takes for the end, is
among the failures that `Jammed` names (`DecodingFailed`).

The refinement maps the queue to the chunks that are emitted and not written.  Its
capacity is that of `chan_dec2out` and two: one chunk is in the hand of `decloop`, and
one may be that which `writer` could not write.  `LostInv` says that it is only one.

### TransferProofs

For any set of setups (files, packet sizes, redundancies of at least 1, losses,
reordering, restarts, failures of the sender) in which the chunks are fewer than the
reserved numbers, a packet has room for data, and a chunk needs fewer packets than there
are ids (`TransferAssumption`, `RedundAssumption`, `IdAssumption`,
`IdModulusAssumption`), and any behaviour of wirehair that `WirehairAssumption` allows:

| Theorem | Statement |
|---|---|
| `CoreCorrect` | `Spec => []CoreInv` |
| `TransferCorrect` | `Spec => []TransferInv` |
| `TransferTyped` | `Spec => []TypeOK` |
| `RedundancyIsMet` | `Spec => []RedundancyMet` |
| `NothingBeforeBegin` | `Spec => []NoOutputWithoutBegin` |
| `ContentIsGenuine` | `Spec => []ContentGenuine`, if `NoTruncation` |
| `WrittenInOrder` | `Spec => []OutputInOrder`, if `NoTruncation` |
| `NoChunkIsSkipped` | `Spec => []NoPartialChunkSkipped`, if `NoTruncation` |

`NoTruncation` says that the receiver's buffers hold the packets of every setup.  It
is a hypothesis of three theorems and not an assumption of the module, because
`hgap_check_config_receiver` does not and cannot check it; the run
`transfer_truncated` shows what happens without it.

`CoreInv` holds on every link: `ChunkInv` (what the encoder works on is the chunk
read last, and, as long as no block has failed, `total_gen` is the number of packets
times the size of a block, which makes the quotient of sizes in `send_loop` a comparison of counts), `RedundInv`
(another packet is generated only below the redundancy), `StartInv` (a decoder out
of `T_NEW`, and any output, need a BEGIN), `LinkInv` (packets are no longer than the
sender makes them).  Without truncation three parts are added, about the time
before the first restart of the sender.  `ContentInv`: each packet carries the
content of the chunk of its number and the decoder holds blocks of one chunk; this
holds in any order of delivery.  `OrderInv`, for a link that keeps the order: chunk
numbers never decrease from the output over the decoder and the link to the encoder.
`SeenInv`: a chunk the decoder has left behind is in the output, since it goes on to
the next chunk only after it has emitted the one before.

### CompletionProofs

Under the assumptions of `TransferProofs`, if `NoTruncation` and `~WirehairMayFail`:

| Theorem | Statement |
|---|---|
| `CompletionCorrect` | `Spec => []CompleteInv` |
| `SuccessMeansComplete` | `Spec => []CompleteOnSuccess` |

This is what a user of hairgap relies on: over a link that keeps the order and loses no
more than the redundancy makes up for (`LinkTolerable`), in any setup, the receiver
writes a beginning of the file, and all of it if both programs report success.  The
success of the receiver is not enough: a sender that fails to read the file, or to
encode a chunk, ends the transfer with an END salve as if it were complete, and the
receiver cannot tell; this is why the property speaks of `sret`, and `Prefix` is what
remains true without it.  `WirehairMayFail` is about the receiver; the failures of the
sender are those of `MayFail`, which a setup may have.  The two hypotheses are needed.  Without the first
the run `transfer_truncated` writes something else, without the second the run
`receiver_wirehair` reports a success that is none; neither can be seen by the
receiver's own checks.

`RedundancyMet` gives the number of packets of a chunk, and the budget the number of
those that can be lost; the rest is counting different blocks.  `LossInv`: the ids of the
blocks of a chunk that are in the decoder or in flight (`Surviving`) are, together with
the lost ones, as many as were sent, and enough once the sender has gone on to the next
chunk; nothing is said of a chunk it has failed on, after which there is only END.
`BlockInv`: a chunk that is incomplete lacks blocks, hence some are still in flight, in front of those of the next chunk (`OrderInv`) and of END (`EndInv`).  So the
decoder finishes each chunk before the next begins, which is `PrefixInv`.  `BeginInv` does
the same for the salve that starts the decoder; `SizeInv` says that packets and decoder
agree on the sizes, and that ids are used once.  The invariant says nothing of the
second run of a sender.

### PacingProofs

For any set of command lines with values of the right types, any
`HLIM_CHK_PERIOD`, packet size, rate, and length of a tick down to a microsecond
(`ConfigAssumption`, `LimiterAssumption`, `PacingAssumption`, `ByteCapAssumption`,
`AgeCapAssumption`):

| Theorem | Statement |
|---|---|
| `PacingCorrect` | `Spec => []PacingInv` |
| `PacingTyped` | `Spec => []TypeOK` |
| `RateIsRespected` | `Spec => []RateRespected` |
| `AcceptedFits` | `Spec => []AcceptedConfigFits` |
| `SuccessIsReachable` | `Spec => []NoSuccessUnreachable` |

So the real period of 1000 packets is covered, which TLC cannot reach.  The argument
for the rate: as long as the threads do not update at once (`RegisterInv`), the
counters are what was sent since the reset.  Before the rate is looked at a thread
can send no more than the period and one packet (`BytesInv`), which is a burst in
all.  The counters are reset only when what was sent since the last reset is within
the rate; then at most the burst before that reset is left above it, and the time
since has been taken off (`LevelInv`).  Thus at any moment at most two bursts are above the
rate.  `CallInv` adds that no time passes in the middle of a reset, `ConfInv` that
the sender runs only with a configuration it has checked and gets past its handwave
only to an address it can send to.

### SilenceProofs

Under the assumptions of `PacingProofs`:

| Theorem | Statement |
|---|---|
| `SilenceCorrect` | `Spec => []SilenceInv` |
| `NoFalseTimeouts` | `Spec => NoFalseTimeout` |

The receiver's timer and the sender's keepalive thread share nothing but the packets.
`Quiet` is the time on the receiver's timer after what `misses` lost packets account
for.  `SilenceInv` bounds it by where the keepalive thread is: in `sleep`, by what is left
of the sleep; about to store a packet in the counters, by zero, as the packet was just
sent; otherwise by `Held`.  `HeldInv` bounds the time the limiter can hold the thread
back: either the last packet came after the last reset, and the age of the reset, which
`BytesInv` bounds by the time a burst takes, is longer than the silence; or the other
thread has reset the counters meanwhile, or is about to.  This last case had been
overlooked in an earlier form of `Held`, which was one tick shorter: the keepalive
thread can look at the rate while `send_loop` is in the middle of the reset, see any
value, and sleep once more.  `KeepaliveInv` says that there is a keepalive thread as long
as the sender runs and where it is then.

### Only model-checked

* All liveness properties (`AllDelivered`, `ReceptionEnds`, `ReceiveReturns`,
  `SendEnds`, `LimiterReleases`, `KillNoticed`): liveness under fairness is out of the
  prover's reach.
* That wirehair behaves as `Wirehair` says, and that a channel in `Sender` and
  `Receiver` may be replaced by the queue `ChannelImplementsFifo` speaks of: the
  composition of the modules is an argument in this file, not a theorem.

## 5. Not modelled

* `common.c`, `error.c`, dumps, usage texts and log messages: formatting.
  Allocation failure ends the process (`xmalloc`), which no property is about.
* The conversion of option strings (`atoi`, `atof`) and negative option values.
* Real time outside `Pacing`: in `Transfer`, `Receiver` and `Sender` a keepalive, and
  an armed timeout on an empty link, may come at any moment.  In `Pacing`, time
  within a tick, and a scheduler that withholds a thread for a whole tick.
* Memory weaker than sequential consistency, and the arithmetic of wirehair.
* The intermediate `fsync` of `writer`, which changes nothing that is modelled.
* The reuse of a `struct hgap_enc_chunk`: `hgap_enc_chunk_init` is modelled so that
  it can be reused, but `hgap_send` never does.  (A chunk used again would keep its
  `total_gen`, `encoding.c:112`, and get too few packets.)

## 6. Plan

Done: all modules of section 2 and the proofs of section 4.

Left, in this order:

1. Refinement: `Receiver` implements the receiving half of `Transfer`, from the packets
   on the link to the file.
2. A variant of `Channel` in which the unlocked reads may be stale.
