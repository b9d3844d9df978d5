-------------------------------- MODULE Pacing --------------------------------
(***************************************************************************)
(* Time: the rate limiter, the keepalive thread and the timeout of the     *)
(* receiver, under the options the two programs were started with.         *)
(*                                                                         *)
(* The sender is send_loop and keepalive_loop_thread, which both call      *)
(* hgap_sender_send and so the limiter (sender.c, and send_loop of         *)
(* hgap_send.c; its other threads are in module Sender).  The receiver is  *)
(* the socket of hgapr_net_reader.  A packet is its type.                  *)
(*                                                                         *)
(* Time passes in ticks.  A thread that can run runs before the next tick; *)
(* send_loop may stay without input for any time.                          *)
(***************************************************************************)
EXTENDS Config, Limiter

CONSTANTS
    Commands,                         \* command lines of the sender and the receiver
    HGAP_SALVE_LEN,
    MaxLost,                          \* bound: packets lost in a row
    TimeCap, LevelCap                 \* bounds: clocks and the bucket stop here

ASSUME PacingAssumption ==
    /\ Threads = {"send", "keepalive"}
    /\ HGAP_SALVE_LEN \in Nat \ {0} /\ {MaxLost, TimeCap, LevelCap} \subseteq Nat
    /\ Commands \subseteq SenderOptions \X ReceiverOptions

\* The bytes that go by before the limiter looks at the rate: a period of packets
\* and the one that ends it, and what the other thread sends meanwhile.
BurstOf(c) == (HLIM_CHK_PERIOD + 1) * c.pkt_size + HGAP_HEADER_LEN

\* The count of bytes has room for a burst, if there is a rate.
ASSUME ByteCapAssumption ==
    \A c \in Commands :
        SenderConfig(c[1]).byterate > 0 => BurstOf(SenderConfig(c[1])) <= ByteCap

\* The age of the reset has room for the time a burst takes.
ASSUME AgeCapAssumption ==
    \A c \in Commands : LET byterate == SenderConfig(c[1]).byterate IN
        byterate > 0 => (BurstOf(SenderConfig(c[1])) * TicksPerSec) \div byterate < AgeCap

VARIABLES
    conf, rconf,               \* struct hgap_config of the sender and of the receiver
    spc, count, sret,          \* send_loop, and the packets of the salve it has sent
    kpc, nap, cont,            \* keepalive_loop_thread, what is left of its sleep, the flag
    rpc, timer,                \* hgapr_net_reader, and the time in its recvfrom
    misses,                    \* packets the link has lost in a row
    level                      \* history: bytes sent above the rate, times TicksPerSec,
                               \* until the first race or the end of the sender

svars == <<spc, count, sret>>
kvars == <<kpc, nap, cont>>
rvars == <<rpc, timer, misses>>
linkvars == <<rvars, level>>
vars == <<lvars, conf, rconf, svars, kvars, linkvars>>

Init ==
    /\ LimiterInit
    /\ \E c \in Commands : conf = SenderConfig(c[1]) /\ rconf = ReceiverConfig(c[2])
    /\ spc = "start" /\ count = 0 /\ sret = HGAP_SUCCESS
    /\ kpc = "none" /\ nap = 0 /\ cont = FALSE
    /\ rpc = "start" /\ timer = 0 /\ misses = 0
    /\ level = 0

TickUs == 1000000 \div TicksPerSec

\* The ticks a sleep of us microseconds takes.
Ticks(us) == (us + TickUs - 1) \div TickUs

-----------------------------------------------------------------------------
(* hgap_sender_send.                                                       *)

\* Mutant: only data postpones the timeout.
Heard_DataOnly(type) ==
    /\ rpc' = CASE type = "begin" /\ rpc = "wait"           -> "listen"
                [] type = "end" /\ rpc \in {"wait", "listen"} -> "ended"
                [] OTHER                                    -> rpc
    /\ timer' = IF type = "data" THEN 0 ELSE timer

\* hgapr_net_reader on a packet: the first BEGIN arms the timeout, END stops the
\* reader, and every packet starts another recvfrom.
Heard(type) ==
    /\ rpc' = CASE type = "begin" /\ rpc = "wait"           -> "listen"
                [] type = "end" /\ rpc \in {"wait", "listen"} -> "ended"
                [] OTHER                                    -> rpc
    /\ timer' = 0

\* sendto.
Transmit(type, size) ==
    /\ level' = IF conf.byterate = 0 \/ raced THEN 0 ELSE Upto(level + size * TicksPerSec, LevelCap)
    /\ \/ Heard(type) /\ misses' = 0
       \/ misses < MaxLost /\ misses' = misses + 1 /\ UNCHANGED <<rpc, timer>>

\* Thread t sends a packet, and enters hgap_limiter_limit.
Send(t, type, size) == Transmit(type, size) /\ LoadPkt(t, size)

\* Nothing can be sent to the broadcast address.
Unreachable == Destination(conf.addr) # "receiver"

\* The process ends.
Die(how) ==
    /\ spc' = how /\ kpc' = "done" /\ nap' = 0
    /\ hgap_limiter_free /\ level' = 0

-----------------------------------------------------------------------------
(* hgap_receive and hgap_send up to their first packet.  The receiver is   *)
(* started first.                                                          *)

\* Without room for one packet channel_reserve never returns.
StartReceiver ==
    /\ rpc = "start"
    /\ \E good_out \in BOOLEAN :
        rpc' = IF hgap_check_config_receiver(rconf, good_out) # HGAP_SUCCESS THEN "failed"
               ELSE IF pkt_chan_size(rconf) = 0 THEN "stuck"
               ELSE IF SocketOpens(rconf.addr) THEN "wait" ELSE "failed"
    /\ UNCHANGED <<lvars, conf, rconf, svars, kvars, timer, misses, level>>

\* hgap_check_config_sender and hgap_sender_new, whose failure ends in the
\* dereference of a null pointer.
StartSender ==
    /\ spc = "start" /\ rpc # "start"
    /\ \E good_in \in BOOLEAN :
        LET ret == hgap_check_config_sender(conf, good_in) IN
        \/ ret # HGAP_SUCCESS /\ spc' = "returned" /\ sret' = ret /\ UNCHANGED kvars
        \/ /\ ret = HGAP_SUCCESS /\ Destination(conf.addr) = NULL
           /\ spc' = "crashed" /\ UNCHANGED <<sret, kvars>>
        \/ /\ ret = HGAP_SUCCESS /\ Destination(conf.addr) # NULL
           /\ spc' = "begin"
           /\ cont' = (conf.keepalive > 0)
           /\ kpc' = IF cont' THEN "test" ELSE "none"
           /\ UNCHANGED <<sret, nap>>
    /\ UNCHANGED <<lvars, conf, rconf, count, linkvars>>

-----------------------------------------------------------------------------
(* send_loop.                                                              *)

\* A packet of hgap_sender_control; after the last one send_loop goes on to next.
Salve(type, next) ==
    /\ Send("send", type, HGAP_HEADER_LEN)
    /\ count' = (count + 1) % HGAP_SALVE_LEN
    /\ spc' = IF count' = 0 THEN next ELSE spc

\* Mutant: the salve is one packet longer.
Handwave_OneMore ==
    /\ spc = "begin" /\ lpc["send"] = "out"
    /\ \/ /\ ~Unreachable
          /\ Send("send", "begin", HGAP_HEADER_LEN)
          /\ count' = (count + 1) % (HGAP_SALVE_LEN + 1)
          /\ spc' = IF count' = 0 THEN "data" ELSE spc
          /\ UNCHANGED sret
       \/ /\ Unreachable
          /\ spc' = "free" /\ sret' = HGAP_ERR_NETWORK
          /\ UNCHANGED <<lvars, count, linkvars>>
    /\ UNCHANGED <<conf, rconf, kvars>>

\* Mutant: the result of hgap_sender_control is not looked at.
Handwave_Unchecked ==
    /\ spc = "begin" /\ lpc["send"] = "out"
    /\ \/ ~Unreachable /\ Salve("begin", "data") /\ UNCHANGED sret
       \/ Unreachable /\ spc' = "data" /\ UNCHANGED <<lvars, count, sret, linkvars>>
    /\ UNCHANGED <<conf, rconf, kvars>>

Handwave ==
    /\ spc = "begin" /\ lpc["send"] = "out"
    /\ \/ ~Unreachable /\ Salve("begin", "data") /\ UNCHANGED sret
       \/ /\ Unreachable
          /\ spc' = "free" /\ sret' = HGAP_ERR_NETWORK
          /\ UNCHANGED <<lvars, count, linkvars>>
    /\ UNCHANGED <<conf, rconf, kvars>>

\* A packet of a chunk, when there is input.
SendData ==
    /\ spc = "data" /\ lpc["send"] = "out" /\ ~Unreachable
    /\ Send("send", "data", conf.pkt_size)
    /\ UNCHANGED <<conf, rconf, spc, count, sret, kvars>>

\* The pill arrives.
InputEnds ==
    /\ spc = "data" /\ lpc["send"] = "out"
    /\ spc' = "end"
    /\ UNCHANGED <<lvars, conf, rconf, count, sret, kvars, linkvars>>

\* The result of this salve is ignored.
Teardown ==
    /\ spc = "end" /\ lpc["send"] = "out"
    /\ \/ ~Unreachable /\ Salve("end", "free")
       \/ Unreachable /\ spc' = "free" /\ UNCHANGED <<lvars, count, linkvars>>
    /\ UNCHANGED <<conf, rconf, sret, kvars>>

\* hgap_sender_free.
ClearCont ==
    /\ spc = "free" /\ lpc["send"] = "out"
    /\ cont' = FALSE
    /\ spc' = "join"
    /\ UNCHANGED <<lvars, conf, rconf, count, sret, kpc, nap, linkvars>>

JoinKeepalive ==
    /\ spc = "join" /\ kpc \in {"none", "done"}
    /\ spc' = "returned"
    /\ hgap_limiter_free /\ level' = 0
    /\ UNCHANGED <<conf, rconf, count, sret, kvars, rvars>>

-----------------------------------------------------------------------------
(* keepalive_loop_thread.                                                  *)

KeepaliveTest ==
    /\ kpc = "test" /\ lpc["keepalive"] = "out"
    /\ IF cont THEN kpc' = "sleep" /\ nap' = Ticks(keepalive_us(conf))
       ELSE kpc' = "done" /\ UNCHANGED nap
    /\ UNCHANGED <<lvars, conf, rconf, svars, cont, linkvars>>

\* CHK_PERROR ends the process when sendto fails.
KeepaliveSend ==
    /\ kpc = "sleep" /\ nap = 0
    /\ \/ /\ ~Unreachable
          /\ Send("keepalive", "keepalive", HGAP_HEADER_LEN)
          /\ kpc' = "test"
          /\ UNCHANGED <<spc, nap>>
       \/ Unreachable /\ Die("exited") /\ UNCHANGED rvars
    /\ UNCHANGED <<conf, rconf, count, sret, cont>>

-----------------------------------------------------------------------------
(* Time, and the end of it.                                                *)

\* SO_RCVTIMEO; zero disables it.
TimedOut == rpc = "listen" /\ rconf.timeout > 0 /\ timer * TickUs >= rconf.timeout

\* recvfrom returns EAGAIN, unless a packet is there first.
Timeout ==
    /\ TimedOut
    /\ rpc' = "timeout"
    /\ UNCHANGED <<lvars, conf, rconf, svars, kvars, timer, misses, level>>

Running == spc \in {"begin", "data", "end", "free", "join"}

\* The sender is killed.
Kill ==
    /\ Running
    /\ Die("killed")
    /\ UNCHANGED <<conf, rconf, count, sret, cont, rvars>>

\* A thread can run: it does so before the next tick.
Urgent ==
    \/ "start" \in {rpc, spc}
    \/ \E t \in Threads : lpc[t] \notin {"out", "usleep"}
    \/ spc \in {"begin", "end", "free"} /\ lpc["send"] = "out"
    \/ spc = "join" /\ kpc \in {"none", "done"}
    \/ kpc = "test" /\ lpc["keepalive"] = "out"
    \/ kpc = "sleep" /\ nap = 0
    \/ TimedOut

Tick ==
    /\ ~Urgent
    /\ LimiterTick
    /\ nap' = IF kpc = "sleep" THEN nap - 1 ELSE nap
    /\ timer' = IF rpc = "listen" THEN Upto(timer + 1, TimeCap) ELSE timer
    /\ level' = IF level > conf.byterate THEN level - conf.byterate ELSE 0
    /\ UNCHANGED <<conf, rconf, svars, kpc, cont, rpc, misses>>

-----------------------------------------------------------------------------

Limit(t) == LimitStep(t, conf.byterate) /\ UNCHANGED <<conf, rconf, svars, kvars, linkvars>>

SendStep ==
    \/ StartSender \/ Handwave \/ Teardown \/ ClearCont \/ JoinKeepalive \/ Limit("send")
KeepaliveStep == KeepaliveTest \/ KeepaliveSend \/ Limit("keepalive")
ReceiveStep == StartReceiver \/ Timeout

Next == SendStep \/ SendData \/ InputEnds \/ KeepaliveStep \/ ReceiveStep \/ Kill \/ Tick

Spec == Init /\ [][Next]_vars

\* A thread that can run does, and then time passes: a tick waits for all of them.
\* Nobody promises input, or its end.
FairSpec == Spec /\ WF_vars(SendStep \/ KeepaliveStep \/ ReceiveStep \/ Tick)

-----------------------------------------------------------------------------
(* Properties.                                                             *)

\* The state of the two programs and of the limiter keeps its type.
TypeOK ==
    /\ n_pkt_sent \in 0 .. PktCap /\ n_bytes_sent \in 0 .. ByteCap
    /\ age \in 0 .. AgeCap
    /\ lpc \in [Threads -> {"out", "rate", "usleep"} \union Updating]
    /\ spc \in {"start", "begin", "data", "end", "free", "join", "returned", "crashed",
                "exited", "killed"}
    /\ count \in 0 .. HGAP_SALVE_LEN - 1
    /\ kpc \in {"none", "test", "sleep", "done"}
    /\ nap \in Nat /\ cont \in BOOLEAN
    /\ rpc \in {"start", "failed", "stuck", "wait", "listen", "ended", "timeout"}
    /\ timer \in 0 .. TimeCap
    /\ misses \in 0 .. MaxLost
    /\ level \in 0 .. LevelCap

Burst == BurstOf(conf)

\* What the limiter can hold back a thread for, and the longest silence of a
\* sender with keepalives: both of its threads may be held back.  One that looks at
\* the rate while the other resets it may sleep once more.
Held == IF conf.byterate = 0 THEN 0 ELSE ((Burst * TicksPerSec) \div conf.byterate) + 2
MaxSilence == Ticks(keepalive_us(conf)) + Held

\* A receiver whose timeout, in microseconds, is longer than that (and longer by
\* what is lost) does not give up a sender that is alive, as long as its two
\* threads do not lose each other's updates of the counters.
NoFalseTimeout ==
    [][ /\ rpc' = "timeout" /\ rpc # "timeout"
        /\ Running /\ conf.keepalive > 0 /\ ~raced
        => rconf.timeout <= (MaxLost + 1) * MaxSilence * TickUs ]_vars

\* hairgap.h: byterate is "the max amount for bytes/second to send".  What is sent
\* stays within the rate and two bursts, also after the input was idle.
RateRespected ==
    conf.byterate > 0 /\ ~raced => level <= 2 * Burst * TicksPerSec

\* The limiter lets send_loop go, even if the counters it looks at were mixed up by
\* the other thread.  It lets the keepalive thread go as well, unless data goes on for
\* ever: send_loop may look first each time, reset the rate and exceed it again.
LimiterReleases ==
    /\ lpc["send"] = "usleep" ~> lpc["send"] = "out"
    /\ \/ lpc["keepalive"] = "usleep" ~> lpc["keepalive"] = "out"
       \/ []<><<SendData>>_vars

\* A receiver that has the memory for a packet, and a timeout, notices that the
\* sender was killed after the handwave went through.
KillNoticed ==
    /\ rconf.timeout > 0 /\ rconf.mem_limit > 0 /\ rpc \notin {"failed", "wait"} /\ spc = "killed"
    ~> rpc \in {"timeout", "ended"}

\* What hgap_check_config_sender accepts fits into the decoder: no chunk it makes
\* is larger than HGAP_MAX_CHUNK_SIZE, and each packet carries data.
AcceptedConfigFits ==
    Running => buf_size(conf) \in 1 .. MaxChunkSize

\* hgap_send does not report success to a destination it cannot reach, although
\* check_addr let the name pass and inet_addr did not report it.
NoSuccessUnreachable ==
    spc = "returned" /\ sret = HGAP_SUCCESS => ~Unreachable

-----------------------------------------------------------------------------
(* What the documentation says and the code does not do.                   *)

\* hairgap.h on keepalive: "Send a keepalive every keepalive ms."  A receiver with
\* a timeout that allows for the losses then does not time out.
KeepaliveKeepsAlive ==
    [][ /\ rpc' = "timeout" /\ rpc # "timeout"
        /\ Running /\ conf.keepalive > 0 /\ ~raced
        => rconf.timeout <= (MaxLost + 1) * Ticks(keepalive_us(conf)) * TickUs ]_vars

-----------------------------------------------------------------------------
(* The inductive invariant.                                                *)

\* The sender runs only with a configuration it has accepted, and reaches the data
\* only if there is somebody to reach.
ConfInv ==
    /\ conf \in hgap_config /\ rconf \in hgap_config
    /\ conf.byterate > 0 => Burst <= ByteCap
    /\ Running => hgap_check_config_sender(conf, TRUE) = HGAP_SUCCESS
    /\ kpc \in {"test", "sleep"} => Running
    /\ spc \in {"data", "end", "free", "join", "returned"} /\ sret = HGAP_SUCCESS => ~Unreachable

\* Only a thread that is in the middle of counting a packet holds its size, and no
\* time passes in the middle of a reset.
CallInv ==
    /\ arg \in [Threads -> Nat] /\ reg \in [Threads -> Nat] /\ pkts \in [Threads -> Nat]
    /\ raced \in BOOLEAN
    /\ \A t \in Threads : lpc[t] \notin Storing => arg[t] = 0
    /\ \A t \in Threads : lpc[t] \in {"clear_pkt", "clear_bytes"} => age = 0

\* As long as no two threads update at once, registers are up to date.
RegisterInv ==
    ~raced =>
        /\ \A t, u \in Threads : lpc[t] \in Updating /\ lpc[u] \in Updating => t = u
        /\ \A t \in Threads :
            /\ lpc[t] = "store_pkt" => reg[t] = n_pkt_sent
            /\ lpc[t] \in {"load_bytes", "store_bytes"} => pkts[t] = n_pkt_sent
            /\ lpc[t] = "store_bytes" => reg[t] = n_bytes_sent

\* The bytes and packets sent since the last reset, those being counted included.
Sent == n_bytes_sent + arg["send"] + arg["keepalive"]
Counted == n_pkt_sent + (IF \E t \in Threads : lpc[t] = "store_pkt" THEN 1 ELSE 0)

\* What a thread has sent beyond the period, and is made to wait for.
Over(t, size) ==
    IF \/ lpc[t] \in {"rate", "usleep"}
       \/ lpc[t] \in Storing /\ Counted > HLIM_CHK_PERIOD
    THEN size ELSE 0

\* The counters mean something: there is a rate, no race, and no reset going on.
Counting == conf.byterate > 0 /\ ~raced /\ \A t \in Threads : lpc[t] \notin Resetting

\* No thread sends more than one packet beyond the period.
BytesInv ==
    Counting =>
        Sent <= Upto(Counted, HLIM_CHK_PERIOD) * conf.pkt_size
                + Over("send", conf.pkt_size) + Over("keepalive", HGAP_HEADER_LEN)

\* What is above the rate is what was sent since the reset, or a burst before it as
\* well, of which the time since is taken off.
LevelInv ==
    conf.byterate > 0 /\ ~raced =>
        IF \E t \in Threads : lpc[t] \in Resetting THEN level <= Burst * TicksPerSec
        ELSE \/ level <= Sent * TicksPerSec
             \/ level + conf.byterate * age <= (Burst + Sent) * TicksPerSec

\* What the threads, the limiter and the options keep true together.
PacingInv == TypeOK /\ ConfInv /\ CallInv /\ RegisterInv /\ BytesInv /\ LevelInv

-----------------------------------------------------------------------------
(* Why the receiver does not give up a sender that is alive.               *)

\* A bound on the time since the last packet was sent: each lost one accounts for
\* the longest silence.
Quiet == timer - misses * MaxSilence

\* A keepalive thread exists as long as the sender runs, and is not in two places.
KeepaliveInv ==
    /\ Held - 1 <= AgeCap /\ nap <= Ticks(keepalive_us(conf))
    /\ kpc = "sleep" => lpc["keepalive"] = "out"
    /\ conf.byterate = 0 => lpc["keepalive"] \notin {"rate", "usleep"}
    /\ spc = "start" => rpc # "listen" /\ kpc = "none"
    /\ Running /\ conf.keepalive > 0 =>
        /\ kpc # "none"
        /\ kpc = "done" => spc = "join" /\ lpc["keepalive"] = "out"
        /\ spc # "join" => cont

\* While the limiter holds the keepalive thread back the last packet was sent after
\* the reset; or the other thread has reset the rate, or is about to.
HeldInv ==
    LET held(awake, asleep) == Quiet <= IF lpc["keepalive"] = "rate" THEN awake ELSE asleep IN
    lpc["keepalive"] \in {"rate", "usleep"} =>
        \/ Quiet <= age /\ held(Held - 1, Held - 2)
        \/ lpc["send"] = "out" /\ n_bytes_sent = 0 /\ held(Held, Held - 1)
        \/ lpc["send"] \in Resetting /\ held(Held - 1, Held - 1)

\* Nothing is silent for longer than its next keepalive takes.
SilenceInv ==
    /\ KeepaliveInv
    /\ rpc = "listen" /\ Running /\ conf.keepalive > 0 /\ ~raced =>
        /\ Quiet <= IF kpc = "sleep" THEN MaxSilence - nap ELSE Held
        /\ lpc["keepalive"] \in Storing => Quiet <= 0
        /\ HeldInv

=============================================================================
