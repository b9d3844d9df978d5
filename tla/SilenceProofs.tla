---------------------------- MODULE SilenceProofs -----------------------------
(***************************************************************************)
(* Proof that a receiver does not give up a sender that is alive, for any  *)
(* rate, keepalive period, timeout and number of losses: SilenceInv, which *)
(* bounds the time since the last packet by where the keepalive thread is, *)
(* is an invariant, and NoFalseTimeout follows from it.                    *)
(***************************************************************************)
EXTENDS PacingProofs

-----------------------------------------------------------------------------
(* Times.                                                                  *)

\* a is below a quotient of which it is a multiple.
LEMMA BelowQuotient ==
    ASSUME NEW a \in Nat, NEW b \in Nat \ {0}, NEW n \in Nat, b * n <= a
    PROVE  n <= a \div b
  <1>. DEFINE q == a \div b
              r == a % b
  <1>1. q \in Nat /\ r \in 0 .. b - 1 /\ a = b * q + r
    OBVIOUS
  <1>. HIDE DEF q, r
  <1>. SUFFICES ASSUME q + 1 <= n PROVE FALSE
    BY <1>1 DEF q
  <1>2. b * (q + 1) <= b * n
    BY <1>1, ProductMonotone
  <1>3. b * (q + 1) = b * q + b /\ b * q \in Nat /\ b * n \in Nat
    BY <1>1
  <1>. QED BY <1>1, <1>2, <1>3

LEMMA Spans ==
    ASSUME PacingInv
    PROVE  /\ conf.byterate \in Nat /\ conf.keepalive \in Nat /\ Burst \in Nat
           /\ Ticks(keepalive_us(conf)) \in Nat /\ Held \in Nat /\ MaxSilence \in Nat
           /\ MaxSilence = Ticks(keepalive_us(conf)) + Held
           /\ conf.byterate > 0 => Held - 2 = (Burst * TicksPerSec) \div conf.byterate /\ Held >= 2
           /\ timer \in Nat /\ misses \in Nat /\ misses <= MaxLost /\ Quiet \in Int
           /\ timer = Quiet + misses * MaxSilence
           /\ age \in Nat /\ n_bytes_sent \in Nat /\ nap \in Nat /\ AgeCap \in Nat
  <1>1. /\ conf \in hgap_config /\ timer \in Nat /\ misses \in Nat /\ misses <= MaxLost
        /\ age \in Nat /\ n_bytes_sent \in Nat /\ nap \in Nat
    BY Constants DEF PacingInv, TypeOK, ConfInv
  <1>2. conf.byterate \in Nat /\ conf.keepalive \in Nat /\ conf.pkt_size \in Nat
    BY <1>1 DEF hgap_config
  <1>3. Burst \in Nat
    BY <1>2, Constants DEF Burst, BurstOf, HGAP_HEADER_LEN
  <1>4. Ticks(keepalive_us(conf)) \in Nat
    BY <1>1, KeepaliveTyped, TicksTyped
  <1>5. /\ Held \in Nat
        /\ conf.byterate > 0 => Held - 2 = (Burst * TicksPerSec) \div conf.byterate /\ Held >= 2
    <2>1. Burst * TicksPerSec \in Nat
      BY <1>3, Constants
    <2>2. conf.byterate > 0 => (Burst * TicksPerSec) \div conf.byterate \in Nat
      BY <1>2, <2>1, DivisionTyped
    <2>. QED BY <1>2, <2>2 DEF Held
  <1>6. MaxSilence \in Nat /\ MaxSilence = Ticks(keepalive_us(conf)) + Held
    BY <1>4, <1>5 DEF MaxSilence
  <1>7. misses * MaxSilence \in Nat
    BY <1>1, <1>6
  <1>8. Quiet \in Int /\ timer = Quiet + misses * MaxSilence
    BY <1>1, <1>7 DEF Quiet
  <1>. QED BY <1>1, <1>2, <1>3, <1>4, <1>5, <1>6, <1>8, Constants

\* They depend on the configuration only.
LEMMA SpansKept ==
    conf' = conf => /\ Held' = Held /\ MaxSilence' = MaxSilence
                    /\ Ticks(keepalive_us(conf))' = Ticks(keepalive_us(conf))
  BY DEF Held, MaxSilence, Ticks, keepalive_us, Burst, BurstOf

-----------------------------------------------------------------------------
(* The invariant in two parts.                                             *)

\* The receiver waits for a sender that is alive.
Watched == rpc = "listen" /\ Running /\ conf.keepalive > 0 /\ ~raced

QuietInv ==
    /\ Quiet <= IF kpc = "sleep" THEN MaxSilence - nap ELSE Held
    /\ lpc["keepalive"] \in Storing => Quiet <= 0
    /\ HeldInv

LEMMA SilenceParts == SilenceInv <=> KeepaliveInv /\ (Watched => QuietInv)
  BY DEF SilenceInv, Watched, QuietInv

LEMMA SilencePartsNext == SilenceInv' <=> KeepaliveInv' /\ (Watched' => QuietInv')
  BY SilenceParts, PTL

\* The silence is never longer than MaxSilence.
LEMMA QuietBound ==
    ASSUME PacingInv, QuietInv
    PROVE  Quiet <= MaxSilence
  BY Spans DEF QuietInv

\* A packet that is sent ends it, and a lost one accounts for it.
LEMMA TransmitQuiet ==
    ASSUME PacingInv, PacingInv', SilenceInv, Watched', Watched \/ rpc # "listen", conf' = conf,
           NEW type, NEW size, Transmit(type, size)
    PROVE  Quiet' <= 0
  <1>1. MaxSilence \in Nat /\ MaxSilence' = MaxSilence /\ misses \in Nat /\ timer \in Nat
    BY Spans, SpansKept
  <1>2. CASE Heard(type) /\ misses' = 0
    <2>1. timer' = 0
      BY <1>2 DEF Heard
    <2>. QED BY <1>1, <1>2, <2>1 DEF Quiet
  <1>3. CASE misses' = misses + 1 /\ UNCHANGED <<rpc, timer>>
    <2>1. Watched
      BY <1>3 DEF Watched
    <2>2. Quiet <= MaxSilence
      BY <2>1, QuietBound, SilenceParts
    <2>3. (misses + 1) * MaxSilence = misses * MaxSilence + MaxSilence /\ misses * MaxSilence \in Nat
      BY <1>1
    <2>. QED BY <1>1, <1>3, <2>2, <2>3 DEF Quiet
  <1>. QED BY <1>2, <1>3 DEF Transmit

\* Nothing that matters changes.
LEMMA QuietKept ==
    ASSUME PacingInv, UNCHANGED <<conf, timer, misses, lpc, age, n_bytes_sent>>,
           kpc' = kpc, nap' = nap, QuietInv
    PROVE  QuietInv'
  <1>1. Held' = Held /\ MaxSilence' = MaxSilence
    BY SpansKept
  <1>2. Quiet' = Quiet
    BY <1>1 DEF Quiet
  <1>. QED BY <1>1, <1>2 DEF QuietInv, HeldInv

-----------------------------------------------------------------------------
(* The threads of the sender send.                                         *)

\* Just after a packet there is nothing to show.
LEMMA QuietNow == PacingInv /\ KeepaliveInv /\ Quiet <= 0 => QuietInv
  <1>. SUFFICES ASSUME PacingInv, KeepaliveInv, Quiet <= 0 PROVE QuietInv
    OBVIOUS
  <1>1. /\ Held \in Nat /\ MaxSilence = Ticks(keepalive_us(conf)) + Held /\ Quiet \in Int
        /\ nap \in Nat /\ Ticks(keepalive_us(conf)) \in Nat /\ age \in Nat /\ conf.byterate \in Nat
        /\ conf.byterate > 0 => Held >= 2
    BY Spans
  <1>2. nap <= Ticks(keepalive_us(conf))
    BY DEF KeepaliveInv
  <1>3. Quiet <= IF kpc = "sleep" THEN MaxSilence - nap ELSE Held
    BY <1>1, <1>2
  <1>4. HeldInv
    <2>. SUFFICES ASSUME lpc["keepalive"] \in {"rate", "usleep"}
                  PROVE  Quiet <= age /\ Quiet <= Held - 1 /\ Quiet <= Held - 2
      BY DEF HeldInv
    <2>1. conf.byterate > 0
      BY <1>1 DEF KeepaliveInv
    <2>. QED BY <1>1, <2>1
  <1>. QED BY <1>3, <1>4 DEF QuietInv

LEMMA QuietNowNext == PacingInv' /\ KeepaliveInv' /\ (Quiet <= 0)' => QuietInv'
  BY QuietNow, PTL

\* The keepalive thread does not move, and the sender goes on.
LEMMA KeepaliveStays ==
    ASSUME KeepaliveInv, UNCHANGED <<conf, nap, kpc, cont>>,
           lpc'["keepalive"] = lpc["keepalive"],
           \/ spc' = spc /\ (rpc' = rpc \/ rpc' # "listen")
           \/ Running /\ Running' /\ spc # "join" /\ spc' # "join"
    PROVE  KeepaliveInv'
  <1>1. Held' = Held /\ Ticks(keepalive_us(conf))' = Ticks(keepalive_us(conf))
    BY SpansKept
  <1>2. (Held - 1 <= AgeCap)' /\ (nap <= Ticks(keepalive_us(conf)))'
    BY <1>1 DEF KeepaliveInv
  <1>3. CASE spc' = spc /\ (rpc' = rpc \/ rpc' # "listen")
    BY <1>2, <1>3, Zenon DEF KeepaliveInv, Running
  <1>4. CASE Running /\ Running' /\ spc # "join" /\ spc' # "join"
    <2>1. spc' # "start"
      BY <1>4 DEF Running
    <2>. QED BY <1>2, <1>4, <2>1, Zenon DEF KeepaliveInv
  <1>. QED BY <1>3, <1>4

\* A packet of send_loop.
LEMMA SendSilence ==
    ASSUME PacingInv, PacingInv', SilenceInv, Running, spc # "join", spc' # "join",
           UNCHANGED <<conf, nap, kpc, cont>>, Running',
           NEW type, NEW size, Send("send", type, size)
    PROVE  SilenceInv'
  <1>1. Transmit(type, size) /\ LoadPkt("send", size)
    BY DEF Send
  <1>2. "send" \in Threads /\ "keepalive" \in Threads \ {"send"}
    BY Constants
  <1>3. lpc \in [Threads -> {"out", "rate", "usleep"} \union Updating] /\ raced \in BOOLEAN
    BY LimiterParts, Zenon DEF LimiterInv, LimiterTyped, CallInv
  <1>4. Goto("send", "store_pkt") /\ "store_pkt" \in {"out", "rate", "usleep"} \union Updating
    BY <1>1, Labels DEF LoadPkt
  <1>5. lpc'["keepalive"] = lpc["keepalive"] /\ (~raced' => ~raced)
    BY <1>2, <1>3, <1>4, GotoMoves, Zenon
  <1>6. KeepaliveInv'
    BY <1>5, KeepaliveStays, SilenceParts
  <1>7. ASSUME Watched' PROVE QuietInv'
    <2>1. Watched \/ rpc # "listen"
      BY <1>5, <1>7, Zenon DEF Watched
    <2>2. Quiet' <= 0
      BY <1>1, <1>7, <2>1, TransmitQuiet
    <2>. QED BY <1>6, <2>2, QuietNowNext
  <1>. QED BY <1>6, <1>7, SilencePartsNext

\* send_loop goes on without a packet.
LEMMA SendIdle ==
    ASSUME PacingInv, PacingInv', SilenceInv, Running, spc # "join", spc' # "join", Running',
           UNCHANGED <<conf, nap, kpc, cont, timer, misses, lpc, age, n_bytes_sent, rpc, raced>>
    PROVE  SilenceInv'
  <1>1. KeepaliveInv'
    BY KeepaliveStays, SilenceParts
  <1>2. Watched' => Watched
    BY Zenon DEF Watched
  <1>3. Watched' => QuietInv'
    BY <1>2, SilenceParts, QuietKept
  <1>. QED BY <1>1, <1>3, SilencePartsNext

\* The process ends, and with it the promise.
LEMMA DieSilence ==
    ASSUME PacingInv, PacingInv', SilenceInv, NEW how \in {"exited", "killed"}, Die(how),
           conf' = conf
    PROVE  SilenceInv'
  <1>1. /\ spc' = how /\ kpc' = "done" /\ nap' = 0 /\ ~Running'
        /\ lpc' = [t \in Threads |-> "out"]
    BY DEF Die, Running, hgap_limiter_free
  <1>2. /\ Held' = Held /\ Ticks(keepalive_us(conf))' = Ticks(keepalive_us(conf))
        /\ KeepaliveInv /\ Ticks(keepalive_us(conf)) \in Nat
    BY SpansKept, Spans, SilenceParts
  <1>3. lpc'["keepalive"] = "out"
    BY <1>1, Constants
  <1>4. KeepaliveInv'
    BY <1>1, <1>2, <1>3 DEF KeepaliveInv
  <1>5. ~Watched'
    BY <1>1 DEF Watched
  <1>. QED BY <1>4, <1>5, SilencePartsNext

LEMMA HandwaveSilence ==
    ASSUME PacingInv, PacingInv', SilenceInv, Handwave
    PROVE  SilenceInv'
  <1>1. /\ spc = "begin" /\ conf' = conf /\ nap' = nap /\ kpc' = kpc /\ cont' = cont
        /\ Running
    BY DEF Handwave, kvars, Running
  <1>2. CASE Salve("begin", "data")
    <2>1. Send("send", "begin", HGAP_HEADER_LEN) /\ spc' \in {"begin", "data"}
      BY <1>1, <1>2, Zenon DEF Salve
    <2>2. Running' /\ spc' # "join"
      BY <2>1 DEF Running
    <2>. QED BY <1>1, <2>1, <2>2, SendSilence
  <1>3. CASE spc' = "free" /\ UNCHANGED <<lvars, linkvars>>
    BY <1>1, <1>3, SendIdle DEF Running, lvars, linkvars, rvars
  <1>. QED BY <1>2, <1>3 DEF Handwave

LEMMA SendDataSilence ==
    ASSUME PacingInv, PacingInv', SilenceInv, SendData
    PROVE  SilenceInv'
  <1>1. /\ spc = "data" /\ spc' = "data" /\ conf' = conf /\ nap' = nap /\ kpc' = kpc
        /\ cont' = cont /\ Running /\ Running' /\ Send("send", "data", conf.pkt_size)
    BY DEF SendData, kvars, Running
  <1>. QED BY <1>1, SendSilence

LEMMA InputEndsSilence ==
    ASSUME PacingInv, PacingInv', SilenceInv, InputEnds
    PROVE  SilenceInv'
  BY SendIdle DEF InputEnds, Running, lvars, kvars, linkvars, rvars

LEMMA TeardownSilence ==
    ASSUME PacingInv, PacingInv', SilenceInv, Teardown
    PROVE  SilenceInv'
  <1>1. /\ spc = "end" /\ conf' = conf /\ nap' = nap /\ kpc' = kpc /\ cont' = cont
        /\ Running
    BY DEF Teardown, kvars, Running
  <1>2. CASE Salve("end", "free")
    <2>1. Send("send", "end", HGAP_HEADER_LEN) /\ spc' \in {"end", "free"}
      BY <1>1, <1>2, Zenon DEF Salve
    <2>2. Running' /\ spc' # "join"
      BY <2>1 DEF Running
    <2>. QED BY <1>1, <2>1, <2>2, SendSilence
  <1>3. CASE spc' = "free" /\ UNCHANGED <<lvars, linkvars>>
    BY <1>1, <1>3, SendIdle DEF Running, lvars, linkvars, rvars
  <1>. QED BY <1>2, <1>3 DEF Teardown

\* hgap_sender_free clears the flag, and the keepalive thread may now end.
LEMMA ClearContSilence ==
    ASSUME PacingInv, PacingInv', SilenceInv, ClearCont
    PROVE  SilenceInv'
  <1>1. /\ spc = "free" /\ spc' = "join" /\ Running /\ Running'
        /\ UNCHANGED <<conf, timer, misses, lpc, age, n_bytes_sent, rpc, raced>>
        /\ kpc' = kpc /\ nap' = nap
    BY DEF ClearCont, Running, lvars, linkvars, rvars
  <1>2. Held' = Held /\ Ticks(keepalive_us(conf))' = Ticks(keepalive_us(conf)) /\ KeepaliveInv
    BY <1>1, SpansKept, SilenceParts
  <1>3. KeepaliveInv'
    BY <1>1, <1>2 DEF KeepaliveInv
  <1>4. Watched' => QuietInv'
    <2>1. Watched' => Watched
      BY <1>1, Zenon DEF Watched
    <2>. QED BY <1>1, <2>1, SilenceParts, QuietKept
  <1>. QED BY <1>3, <1>4, SilencePartsNext

\* A packet of keepalive_loop_thread.
LEMMA KeepaliveSendSilence ==
    ASSUME PacingInv, PacingInv', SilenceInv, KeepaliveSend
    PROVE  SilenceInv'
  <1>1. kpc = "sleep" /\ conf' = conf /\ cont' = cont /\ Running /\ KeepaliveInv
    BY SilenceParts DEF KeepaliveSend, PacingInv, ConfInv
  <1>2. Held' = Held /\ Ticks(keepalive_us(conf))' = Ticks(keepalive_us(conf))
    BY <1>1, SpansKept
  <1>3. CASE /\ Send("keepalive", "keepalive", HGAP_HEADER_LEN)
             /\ kpc' = "test" /\ UNCHANGED <<spc, nap>>
    <2>1. Transmit("keepalive", HGAP_HEADER_LEN) /\ LoadPkt("keepalive", HGAP_HEADER_LEN)
      BY <1>3 DEF Send
    <2>2. lpc \in [Threads -> {"out", "rate", "usleep"} \union Updating] /\ raced \in BOOLEAN
      BY LimiterParts, Zenon DEF LimiterInv, LimiterTyped, CallInv
    <2>3. /\ Goto("keepalive", "store_pkt")
          /\ "store_pkt" \in {"out", "rate", "usleep"} \union Updating /\ "keepalive" \in Threads
      BY <2>1, Labels, Constants DEF LoadPkt
    <2>4. lpc'["keepalive"] = "store_pkt" /\ (~raced' => ~raced)
      BY <2>2, <2>3, GotoMoves, Zenon
    <2>5. Running' /\ spc' # "start"
      BY <1>1, <1>3 DEF Running
    <2>6. KeepaliveInv'
      BY <1>1, <1>2, <1>3, <2>4, <2>5 DEF KeepaliveInv
    <2>7. ASSUME Watched' PROVE QuietInv'
      <3>1. Watched \/ rpc # "listen"
        BY <1>1, <2>4, <2>7, Zenon DEF Watched
      <3>2. Quiet' <= 0
        BY <1>1, <2>1, <2>7, <3>1, TransmitQuiet
      <3>. QED BY <2>6, <3>2, QuietNowNext
    <2>. QED BY <2>6, <2>7, SilencePartsNext
  <1>4. CASE Die("exited")
    BY <1>1, <1>4, DieSilence
  <1>. QED BY <1>3, <1>4 DEF KeepaliveSend

LEMMA KillSilence ==
    ASSUME PacingInv, PacingInv', SilenceInv, Kill
    PROVE  SilenceInv'
  BY DieSilence DEF Kill

-----------------------------------------------------------------------------
(* The beginning and the end.                                              *)

LEMMA StartReceiverSilence ==
    ASSUME PacingInv, PacingInv', SilenceInv, StartReceiver
    PROVE  SilenceInv'
  <1>1. /\ rpc' # "listen" /\ UNCHANGED <<conf, nap, kpc, cont, lpc, spc>>
    BY Zenon DEF StartReceiver, svars, kvars, lvars
  <1>2. KeepaliveInv'
    BY <1>1, KeepaliveStays, SilenceParts
  <1>3. ~Watched'
    BY <1>1 DEF Watched
  <1>. QED BY <1>2, <1>3, SilencePartsNext

LEMMA TimeoutSilence ==
    ASSUME PacingInv, PacingInv', SilenceInv, Timeout
    PROVE  SilenceInv'
  <1>1. rpc' # "listen" /\ UNCHANGED <<conf, nap, kpc, cont, lpc, spc>>
    BY DEF Timeout, svars, kvars, lvars
  <1>2. KeepaliveInv'
    BY <1>1, KeepaliveStays, SilenceParts
  <1>3. ~Watched'
    BY <1>1 DEF Watched
  <1>. QED BY <1>2, <1>3, SilencePartsNext

\* The receiver cannot have heard of a sender that starts.
LEMMA StartSenderSilence ==
    ASSUME PacingInv, PacingInv', SilenceInv, StartSender
    PROVE  SilenceInv'
  <1>1. spc = "start" /\ UNCHANGED <<conf, nap, lpc, rpc>>
    BY Zenon DEF StartSender, lvars, kvars, linkvars, rvars
  <1>2. Held' = Held /\ Ticks(keepalive_us(conf))' = Ticks(keepalive_us(conf)) /\ KeepaliveInv
    BY <1>1, SpansKept, SilenceParts
  <1>3. rpc' # "listen" /\ kpc = "none"
    BY <1>1, <1>2 DEF KeepaliveInv
  <1>4. \/ spc' \in {"returned", "crashed"} /\ kpc' = kpc
        \/ spc' = "begin" /\ cont' = (conf.keepalive > 0) /\ kpc' = IF cont' THEN "test" ELSE "none"
    BY Zenon DEF StartSender, kvars
  <1>5. KeepaliveInv'
    <2>1. CASE spc' \in {"returned", "crashed"} /\ kpc' = kpc
      BY <1>1, <1>2, <1>3, <2>1 DEF KeepaliveInv, Running
    <2>2. CASE spc' = "begin" /\ cont' = (conf.keepalive > 0) /\ kpc' = IF cont' THEN "test" ELSE "none"
      <3>1. (kpc' = "test" \/ kpc' = "none") /\ (conf.keepalive > 0 => cont' /\ kpc' = "test")
        BY <2>2, Zenon
      <3>2. kpc' # "sleep" /\ kpc' # "done" /\ (kpc' = "test" => kpc' # "none") /\ spc' # "start"
        BY <2>2, <3>1
      <3>3. (Held - 1 <= AgeCap)' /\ (nap <= Ticks(keepalive_us(conf)))'
        BY <1>1, <1>2 DEF KeepaliveInv
      <3>. QED BY <1>1, <1>2, <3>1, <3>2, <3>3, Zenon DEF KeepaliveInv
    <2>. QED BY <1>4, <2>1, <2>2
  <1>6. ~Watched'
    BY <1>3 DEF Watched
  <1>. QED BY <1>5, <1>6, SilencePartsNext

LEMMA JoinKeepaliveSilence ==
    ASSUME PacingInv, PacingInv', SilenceInv, JoinKeepalive
    PROVE  SilenceInv'
  <1>1. /\ spc' = "returned" /\ ~Running' /\ conf' = conf /\ nap' = nap
        /\ lpc' = [t \in Threads |-> "out"]
    BY DEF JoinKeepalive, Running, hgap_limiter_free, kvars
  <1>2. Held' = Held /\ Ticks(keepalive_us(conf))' = Ticks(keepalive_us(conf)) /\ KeepaliveInv
    BY <1>1, SpansKept, SilenceParts
  <1>3. lpc'["keepalive"] = "out"
    BY <1>1, Constants
  <1>4. KeepaliveInv'
    BY <1>1, <1>2, <1>3 DEF KeepaliveInv
  <1>5. ~Watched'
    BY <1>1 DEF Watched
  <1>. QED BY <1>4, <1>5, SilencePartsNext

\* keepalive_loop_thread goes to sleep for its period, or ends because the flag is
\* cleared.
LEMMA KeepaliveTestSilence ==
    ASSUME PacingInv, PacingInv', SilenceInv, KeepaliveTest
    PROVE  SilenceInv'
  <1>1. /\ kpc = "test" /\ lpc["keepalive"] = "out"
        /\ UNCHANGED <<conf, timer, misses, lpc, age, n_bytes_sent, rpc, raced, spc, cont>>
    BY DEF KeepaliveTest, lvars, svars, linkvars, rvars
  <1>2. \/ cont /\ kpc' = "sleep" /\ nap' = Ticks(keepalive_us(conf))
        \/ ~cont /\ kpc' = "done" /\ nap' = nap
    BY Zenon DEF KeepaliveTest
  <1>3. /\ Held' = Held /\ MaxSilence' = MaxSilence /\ KeepaliveInv
        /\ Ticks(keepalive_us(conf))' = Ticks(keepalive_us(conf))
        /\ Ticks(keepalive_us(conf)) \in Nat /\ Held \in Nat
        /\ MaxSilence = Ticks(keepalive_us(conf)) + Held
    BY <1>1, SpansKept, Spans, SilenceParts
  <1>4. Running /\ Running' /\ spc # "start"
    BY <1>1 DEF PacingInv, ConfInv, Running
  <1>5. kpc' = "done" => spc = "join" \/ ~(conf.keepalive > 0)
    <2>1. kpc' = "done" => ~cont
      BY <1>2, Zenon
    <2>. QED BY <1>3, <1>4, <2>1, Zenon DEF KeepaliveInv
  <1>6. KeepaliveInv'
    <2>1. kpc' = "sleep" \/ kpc' = "done"
      BY <1>2, Zenon
    <2>2. kpc' # "none" /\ (nap <= Ticks(keepalive_us(conf)))' /\ (Held - 1 <= AgeCap)'
      BY <1>2, <1>3, <2>1 DEF KeepaliveInv
    <2>3. lpc'["keepalive"] = "out" /\ spc' # "start"
      BY <1>1, <1>4
    <2>4. conf'.byterate = 0 => lpc'["keepalive"] \notin {"rate", "usleep"}
      BY <2>3
    <2>5. conf'.keepalive > 0 /\ spc' # "join" => cont'
      BY <1>1, <1>3, <1>4, Zenon DEF KeepaliveInv
    <2>. QED BY <1>1, <1>5, <2>2, <2>3, <2>4, <2>5, Zenon DEF KeepaliveInv
  <1>7. ASSUME Watched' PROVE QuietInv'
    <2>1. Watched
      BY <1>1, <1>4, <1>7, Zenon DEF Watched
    <2>2. Quiet <= Held /\ Quiet' = Quiet
      BY <1>1, <1>3, <2>1, SilenceParts DEF QuietInv, Quiet
    <2>3. lpc'["keepalive"] \notin Storing /\ lpc'["keepalive"] \notin {"rate", "usleep"}
      BY <1>1, Labels
    <2>4. Quiet' <= IF kpc' = "sleep" THEN MaxSilence' - nap' ELSE Held'
      <3>1. CASE kpc' = "sleep" /\ nap' = Ticks(keepalive_us(conf))
        BY <1>3, <2>2, <3>1
      <3>2. CASE kpc' = "done"
        BY <1>3, <2>2, <3>2
      <3>. QED BY <1>2, <3>1, <3>2, Zenon
    <2>. QED BY <2>3, <2>4 DEF QuietInv, HeldInv
  <1>. QED BY <1>6, <1>7, SilencePartsNext

LEMMA StutterSilence ==
    ASSUME PacingInv, PacingInv', SilenceInv, UNCHANGED vars
    PROVE  SilenceInv'
  <1>1. UNCHANGED <<conf, nap, kpc, cont, timer, misses, lpc, age, n_bytes_sent, rpc, raced, spc>>
    BY DEF vars, lvars, svars, kvars, linkvars, rvars
  <1>2. KeepaliveInv'
    BY <1>1, KeepaliveStays, SilenceParts
  <1>3. Watched' => Watched
    BY <1>1, Zenon DEF Watched, Running
  <1>4. Watched' => QuietInv'
    BY <1>1, <1>3, SilenceParts, QuietKept
  <1>. QED BY <1>2, <1>4, SilencePartsNext

-----------------------------------------------------------------------------
(* Time passes.                                                            *)

LEMMA TickSilence ==
    ASSUME PacingInv, PacingInv', SilenceInv, Tick
    PROVE  SilenceInv'
  <1>1. /\ UNCHANGED <<conf, spc, kpc, cont, rpc, misses, raced, n_bytes_sent>>
        /\ age' = Upto(age + 1, AgeCap)
        /\ lpc' = [t \in Threads |-> IF lpc[t] = "usleep" THEN "rate" ELSE lpc[t]]
        /\ nap' = IF kpc = "sleep" THEN nap - 1 ELSE nap
        /\ timer' = IF rpc = "listen" THEN Upto(timer + 1, TimeCap) ELSE timer
    BY Zenon DEF Tick, LimiterTick, svars
  <1>2. /\ \A t \in Threads : lpc[t] \in {"out", "usleep"}
        /\ kpc = "sleep" => nap # 0
        /\ ~(spc = "join" /\ kpc \in {"none", "done"})
        /\ ~(kpc = "test" /\ lpc["keepalive"] = "out")
    BY Zenon DEF Tick, Urgent
  <1>3. "send" \in Threads /\ "keepalive" \in Threads
    BY Constants
  <1>4. /\ lpc'["keepalive"] = IF lpc["keepalive"] = "usleep" THEN "rate" ELSE lpc["keepalive"]
        /\ lpc'["send"] = IF lpc["send"] = "usleep" THEN "rate" ELSE lpc["send"]
    BY <1>1, <1>3
  <1>5. lpc["keepalive"] \in {"out", "usleep"} /\ lpc["send"] \in {"out", "usleep"}
    BY <1>2, <1>3
  <1>6. /\ Held' = Held /\ MaxSilence' = MaxSilence /\ KeepaliveInv
        /\ Ticks(keepalive_us(conf))' = Ticks(keepalive_us(conf))
        /\ Ticks(keepalive_us(conf)) \in Nat /\ Held \in Nat /\ Quiet \in Int /\ timer \in Nat
        /\ MaxSilence = Ticks(keepalive_us(conf)) + Held /\ nap \in Nat /\ age \in Nat
        /\ misses * MaxSilence \in Nat
    BY <1>1, SpansKept, Spans, SilenceParts
  <1>7. KeepaliveInv'
    <2>1. (nap <= Ticks(keepalive_us(conf)))' /\ (Held - 1 <= AgeCap)'
      BY <1>1, <1>6 DEF KeepaliveInv
    <2>2. lpc["keepalive"] = "out" => lpc'["keepalive"] = "out"
      BY <1>4
    <2>3. conf.byterate = 0 => lpc'["keepalive"] \notin {"rate", "usleep"}
      BY <1>4, <1>5, <1>6 DEF KeepaliveInv
    <2>4. Running' <=> Running
      BY <1>1 DEF Running
    <2>. QED BY <1>1, <1>6, <2>1, <2>2, <2>3, <2>4, Zenon DEF KeepaliveInv
  <1>8. ASSUME Watched' PROVE QuietInv'
    <2>1. Watched /\ QuietInv
      <3>1. Watched
        BY <1>1, <1>8, Zenon DEF Watched, Running
      <3>. QED BY <3>1, SilenceParts
    <2>2. Quiet' \in Int /\ Quiet' <= Quiet + 1
      <3>1. timer' <= timer + 1 /\ timer' \in Nat
        BY <1>1, <1>6, Constants DEF Upto
      <3>. QED BY <1>1, <1>6, <3>1 DEF Quiet
    <2>3. kpc = "sleep" \/ kpc = "test"
      <3>1. kpc \in {"none", "test", "sleep", "done"}
        BY DEF PacingInv, TypeOK
      <3>. QED BY <1>2, <1>6, <2>1, <3>1 DEF Watched, KeepaliveInv
    <2>4. CASE kpc = "sleep"
      <3>1. lpc'["keepalive"] = "out"
        BY <1>4, <1>6, <2>4 DEF KeepaliveInv
      <3>2. lpc'["keepalive"] \notin Storing /\ lpc'["keepalive"] \notin {"rate", "usleep"}
        BY <3>1, Labels
      <3>3. Quiet <= MaxSilence - nap
        BY <2>1, <2>4 DEF QuietInv
      <3>4. Quiet' <= MaxSilence' - nap'
        BY <1>1, <1>2, <1>6, <2>2, <2>4, <3>3
      <3>. QED BY <1>1, <2>4, <3>2, <3>4 DEF QuietInv, HeldInv
    <2>5. CASE kpc = "test"
      <3>1. lpc["keepalive"] = "usleep" /\ lpc'["keepalive"] = "rate"
        BY <1>2, <1>4, <1>5, <2>5
      <3>2. \/ Quiet <= age /\ Quiet <= Held - 2
            \/ lpc["send"] = "out" /\ n_bytes_sent = 0 /\ Quiet <= Held - 1
        <4>1. lpc["send"] \notin Resetting
          BY <1>5, Labels
        <4>. QED BY <2>1, <3>1, <4>1 DEF QuietInv, HeldInv
      <3>3. Quiet' <= Held'
        BY <1>6, <2>2, <3>2
      <3>4. lpc'["keepalive"] \notin Storing
        BY <3>1, Labels
      <3>5. CASE Quiet <= age /\ Quiet <= Held - 2
        <4>1. Quiet' <= Held' - 1
          BY <1>6, <2>2, <3>5
        <4>2. Quiet' <= age'
          BY <1>1, <1>6, <2>2, <3>5, Constants DEF KeepaliveInv, Upto
        <4>. QED BY <1>1, <2>5, <3>1, <3>3, <3>4, <4>1, <4>2 DEF QuietInv, HeldInv
      <3>6. CASE lpc["send"] = "out" /\ n_bytes_sent = 0 /\ Quiet <= Held - 1
        <4>1. lpc'["send"] = "out" /\ n_bytes_sent' = 0
          BY <1>1, <1>4, <3>6
        <4>. QED BY <1>1, <2>5, <3>1, <3>3, <3>4, <4>1 DEF QuietInv, HeldInv
      <3>. QED BY <3>2, <3>5, <3>6
    <2>. QED BY <2>3, <2>4, <2>5
  <1>. QED BY <1>7, <1>8, SilencePartsNext

-----------------------------------------------------------------------------
(* The steps of the limiter.                                               *)

\* A rate that is exceeded has not been measured for long.
LEMMA ExceededSoon ==
    ASSUME PacingInv, Counting, n_bytes_sent * TicksPerSec > conf.byterate * age
    PROVE  age <= Held - 2
  <1>1. /\ LimiterInv /\ age \in Nat /\ n_bytes_sent \in Nat /\ conf.byterate \in Nat \ {0}
        /\ Held - 2 = (Burst * TicksPerSec) \div conf.byterate
    BY LimiterParts, Spans DEF Counting
  <1>2. Sent \in Nat /\ Burst \in Nat /\ Sent <= Burst
    BY <1>1, SentIsBurst
  <1>3. n_bytes_sent <= Sent
    <2>1. arg["send"] \in Nat /\ arg["keepalive"] \in Nat
      BY Constants DEF PacingInv, CallInv
    <2>. QED BY <1>1, <2>1 DEF Sent
  <1>4. n_bytes_sent * TicksPerSec <= Burst * TicksPerSec
    BY <1>1, <1>2, <1>3, Constants, ProductMonotone
  <1>5. /\ conf.byterate * age \in Nat /\ Burst * TicksPerSec \in Nat
        /\ n_bytes_sent * TicksPerSec \in Nat
    BY <1>1, <1>2, Constants
  <1>6. conf.byterate * age <= Burst * TicksPerSec
    BY <1>4, <1>5
  <1>. QED BY <1>1, <1>5, <1>6, BelowQuotient

LEMMA LimitUnchanged ==
    ASSUME NEW t, Limit(t)
    PROVE  /\ LimitStep(t, conf.byterate)
           /\ UNCHANGED <<conf, nap, kpc, cont, timer, misses, rpc, spc>>
           /\ Running' = Running
           /\ Held' = Held /\ MaxSilence' = MaxSilence
           /\ Ticks(keepalive_us(conf))' = Ticks(keepalive_us(conf)) /\ Quiet' = Quiet
  <1>1. LimitStep(t, conf.byterate) /\ UNCHANGED <<conf, nap, kpc, cont, timer, misses, rpc, spc>>
    BY Zenon DEF Limit, svars, kvars, linkvars, rvars
  <1>2. /\ Held' = Held /\ MaxSilence' = MaxSilence
        /\ Ticks(keepalive_us(conf))' = Ticks(keepalive_us(conf))
    BY <1>1, SpansKept
  <1>. QED BY <1>1, <1>2 DEF Quiet, Running

\* send_loop does not look at the rate for the keepalive thread, but resets it.
LEMMA LimitSendSilence ==
    ASSUME PacingInv, PacingInv', SilenceInv, Limit("send")
    PROVE  SilenceInv'
  <1>1. /\ LimitStep("send", conf.byterate)
        /\ UNCHANGED <<conf, nap, kpc, cont, timer, misses, rpc, spc>>
        /\ Running' = Running /\ Held' = Held /\ MaxSilence' = MaxSilence /\ Quiet' = Quiet
    BY LimitUnchanged
  <1>2. "send" \in Threads /\ "keepalive" \in Threads \ {"send"}
    BY Constants
  <1>3. lpc'["keepalive"] = lpc["keepalive"] /\ (~raced' => ~raced)
    BY <1>1, <1>2, LimiterParts, LimitStepFrame, Zenon
  <1>4. KeepaliveInv'
    BY <1>1, <1>3, KeepaliveStays, SilenceParts
  <1>5. /\ lpc["send"] # "out"
        /\ \/ age' = age /\ lpc["send"] \notin Resetting
           \/ lpc'["send"] \in Resetting
           \/ lpc'["send"] = "out" /\ n_bytes_sent' = 0
    <2>1. lpc \in [Threads -> {"out", "rate", "usleep"} \union Updating]
      BY LimiterParts DEF LimiterInv, LimiterTyped
    <2>2. CASE StorePkt("send") \/ LoadBytes("send")
      BY <2>2, Labels DEF StorePkt, LoadBytes
    <2>3. CASE StoreBytes("send", conf.byterate)
      BY <2>3, Labels DEF StoreBytes
    <2>4. CASE TestRate("send", conf.byterate)
      <3>1. lpc["send"] = "rate" /\ age' = age
        BY <2>4, Zenon DEF TestRate
      <3>. QED BY <3>1, Labels
    <2>5. CASE ResetSince("send")
      BY <1>2, <2>1, <2>5, Labels DEF ResetSince, Goto
    <2>6. CASE ClearPkt("send")
      BY <1>2, <2>1, <2>6, Labels DEF ClearPkt, Goto
    <2>7. CASE ClearBytes("send")
      BY <1>2, <2>1, <2>7, Labels DEF ClearBytes, Goto
    <2>. QED BY <1>1, <2>2, <2>3, <2>4, <2>5, <2>6, <2>7 DEF LimitStep
  <1>6. ASSUME Watched' PROVE QuietInv'
    <2>1. QuietInv
      <3>1. Watched
        BY <1>1, <1>3, <1>6, Zenon DEF Watched
      <3>. QED BY <3>1, SilenceParts
    <2>2. HeldInv'
      <3>. SUFFICES ASSUME lpc["keepalive"] \in {"rate", "usleep"} PROVE HeldInv'
        BY <1>3 DEF HeldInv
      <3>1. \/ Quiet <= age /\ Quiet <= IF lpc["keepalive"] = "rate" THEN Held - 1 ELSE Held - 2
            \/ lpc["send"] \in Resetting /\ Quiet <= Held - 1
        BY <1>5, <2>1 DEF QuietInv, HeldInv
      <3>2. Quiet \in Int /\ Held \in Nat
        BY Spans
      <3>3. Quiet <= Held - 1
        BY <3>1, <3>2
      <3>4. CASE age' = age /\ lpc["send"] \notin Resetting
        BY <1>1, <1>3, <3>1, <3>4 DEF HeldInv
      <3>5. CASE lpc'["send"] \in Resetting
        BY <1>1, <3>3, <3>5 DEF HeldInv
      <3>6. CASE lpc'["send"] = "out" /\ n_bytes_sent' = 0
        BY <1>1, <3>2, <3>3, <3>6 DEF HeldInv
      <3>. QED BY <1>5, <3>4, <3>5, <3>6
    <2>. QED BY <1>1, <1>3, <2>1, <2>2 DEF QuietInv
  <1>. QED BY <1>4, <1>6, SilencePartsNext

\* Where the keepalive thread is led to: into usleep only if the rate is exceeded, or
\* send_loop is in the middle of a reset.
LEMMA KeepaliveMoves ==
    ASSUME PacingInv, LimitStep("keepalive", conf.byterate)
    PROVE  /\ lpc["keepalive"] # "out"
           /\ \/ /\ lpc["keepalive"] \in Storing
                 /\ lpc'["keepalive"] = "rate" => conf.byterate # 0
                 /\ lpc'["keepalive"] # "usleep"
              \/ /\ lpc["keepalive"] = "rate" /\ lpc'["keepalive"] = "usleep"
                 /\ UNCHANGED <<n_bytes_sent, age>>
                 /\ \/ lpc["send"] \in Resetting
                    \/ n_bytes_sent * TicksPerSec > conf.byterate * age
              \/ lpc'["keepalive"] \in Resetting
              \/ lpc["keepalive"] \in Resetting /\ lpc'["keepalive"] = "out"
  <1>1. lpc \in [Threads -> {"out", "rate", "usleep"} \union Updating] /\ "keepalive" \in Threads
    BY LimiterParts, Constants DEF LimiterInv, LimiterTyped
  <1>2. CASE StorePkt("keepalive")
    BY <1>1, <1>2, Labels DEF StorePkt, Goto
  <1>3. CASE LoadBytes("keepalive")
    BY <1>1, <1>3, Labels DEF LoadBytes, Goto
  <1>4. CASE StoreBytes("keepalive", conf.byterate)
    <2>1. PICK l \in {"rate", "out"} : Goto("keepalive", l) /\ (l = "rate" => conf.byterate # 0)
      BY <1>4, Zenon DEF StoreBytes
    <2>2. lpc["keepalive"] = "store_bytes" /\ lpc'["keepalive"] = l
      BY <1>1, <1>4, <2>1 DEF StoreBytes, Goto
    <2>. QED BY <2>1, <2>2, Labels
  <1>5. CASE TestRate("keepalive", conf.byterate)
    <2>1. PICK exceeded \in RateExceeded("keepalive", conf.byterate) :
              Goto("keepalive", IF exceeded THEN "usleep" ELSE "reset")
      BY <1>5, Zenon DEF TestRate
    <2>2. lpc["keepalive"] = "rate" /\ UNCHANGED <<n_bytes_sent, age>>
      BY <1>5, Zenon DEF TestRate
    <2>3. CASE ~exceeded
      <3>1. Goto("keepalive", "reset")
        BY <2>1, <2>3, Zenon
      <3>2. lpc'["keepalive"] = "reset"
        BY <1>1, <3>1 DEF Goto
      <3>. QED BY <2>2, <3>2, Labels
    <2>4. CASE exceeded
      <3>1. Goto("keepalive", "usleep")
        BY <2>1, <2>4, Zenon
      <3>2. lpc'["keepalive"] = "usleep"
        BY <1>1, <3>1 DEF Goto
      <3>3. \/ \E u \in Threads \ {"keepalive"} : lpc[u] \in Resetting
            \/ n_bytes_sent * TicksPerSec > conf.byterate * age
        BY <2>1, <2>4, Zenon DEF RateExceeded
      <3>. QED BY <2>2, <3>2, <3>3, Constants
    <2>. QED BY <2>3, <2>4, Zenon
  <1>6. CASE ResetSince("keepalive")
    BY <1>1, <1>6, Labels DEF ResetSince, Goto
  <1>7. CASE ClearPkt("keepalive")
    BY <1>1, <1>7, Labels DEF ClearPkt, Goto
  <1>8. CASE ClearBytes("keepalive")
    BY <1>1, <1>8, Labels DEF ClearBytes, Goto
  <1>. QED BY <1>2, <1>3, <1>4, <1>5, <1>6, <1>7, <1>8 DEF LimitStep

LEMMA LimitKeepaliveSilence ==
    ASSUME PacingInv, PacingInv', SilenceInv, Limit("keepalive")
    PROVE  SilenceInv'
  <1>1. /\ LimitStep("keepalive", conf.byterate)
        /\ UNCHANGED <<conf, nap, kpc, cont, timer, misses, rpc, spc>>
        /\ Running' = Running /\ Held' = Held /\ MaxSilence' = MaxSilence /\ Quiet' = Quiet
        /\ Ticks(keepalive_us(conf))' = Ticks(keepalive_us(conf))
    BY LimitUnchanged
  <1>2. "keepalive" \in Threads /\ "send" \in Threads \ {"keepalive"}
    BY Constants
  <1>3. lpc'["send"] = lpc["send"] /\ (~raced' => ~raced)
    BY <1>1, <1>2, LimiterParts, LimitStepFrame, Zenon
  <1>4. KeepaliveInv /\ lpc["keepalive"] # "out"
    BY <1>1, SilenceParts, KeepaliveMoves
  <1>5. KeepaliveInv'
    <2>1. (nap <= Ticks(keepalive_us(conf)))' /\ (Held - 1 <= AgeCap)'
      BY <1>1, <1>4 DEF KeepaliveInv
    <2>2. conf.byterate = 0 => lpc'["keepalive"] \notin {"rate", "usleep"}
      BY <1>1, <1>4, KeepaliveMoves, Labels DEF KeepaliveInv
    <2>. QED BY <1>1, <1>4, <2>1, <2>2, Zenon DEF KeepaliveInv
  <1>6. ASSUME Watched' PROVE QuietInv'
    <2>1. Watched /\ QuietInv
      <3>1. Watched
        BY <1>1, <1>3, <1>6, Zenon DEF Watched
      <3>. QED BY <3>1, SilenceParts
    <2>2. CASE lpc["keepalive"] \in Storing
      <3>1. (Quiet <= 0)'
        BY <1>1, <2>1, <2>2 DEF QuietInv
      <3>. QED BY <1>5, <3>1, QuietNowNext
    <2>3. CASE lpc'["keepalive"] \in Resetting \/ lpc'["keepalive"] = "out"
      <3>1. lpc'["keepalive"] \notin Storing /\ lpc'["keepalive"] \notin {"rate", "usleep"}
        BY <2>3, Labels
      <3>. QED BY <1>1, <2>1, <3>1 DEF QuietInv, HeldInv
    <2>4. CASE /\ lpc["keepalive"] = "rate" /\ lpc'["keepalive"] = "usleep"
               /\ UNCHANGED <<n_bytes_sent, age>>
               /\ \/ lpc["send"] \in Resetting
                  \/ n_bytes_sent * TicksPerSec > conf.byterate * age
      <3>1. /\ Quiet \in Int /\ Held \in Nat /\ conf.byterate \in Nat /\ age \in Nat
            /\ conf.byterate > 0
        BY <1>4, <2>4, Spans DEF KeepaliveInv
      <3>2. \/ Quiet <= age /\ Quiet <= Held - 1
            \/ lpc["send"] = "out" /\ n_bytes_sent = 0 /\ Quiet <= Held
            \/ lpc["send"] \in Resetting /\ Quiet <= Held - 1
        BY <2>1, <2>4 DEF QuietInv, HeldInv
      <3>3. CASE lpc["send"] \in Resetting
        <4>1. Quiet <= Held - 1
          BY <3>2, <3>3, Labels
        <4>2. HeldInv'
          BY <1>1, <1>3, <2>4, <3>3, <4>1 DEF HeldInv
        <4>. QED BY <1>1, <2>1, <2>4, <4>2, Labels DEF QuietInv
      <3>4. CASE lpc["send"] \notin Resetting
        <4>1. ~(n_bytes_sent = 0)
          BY <2>4, <3>1, <3>4, Constants
        <4>2. Counting
          <5>1. \A t \in Threads : lpc[t] \notin Resetting
            BY <2>4, <3>4, Constants, Labels
          <5>. QED BY <2>1, <3>1, <5>1, Zenon DEF Counting, Watched
        <4>3. age <= Held - 2
          BY <2>4, <3>4, <4>2, ExceededSoon
        <4>4. Quiet <= age /\ Quiet <= Held - 2
          BY <3>1, <3>2, <3>4, <4>1, <4>3
        <4>5. HeldInv'
          BY <1>1, <1>3, <2>4, <4>4 DEF HeldInv
        <4>. QED BY <1>1, <2>1, <2>4, <4>5, Labels DEF QuietInv
      <3>. QED BY <3>3, <3>4
    <2>. QED BY <1>1, <2>2, <2>3, <2>4, KeepaliveMoves
  <1>. QED BY <1>5, <1>6, SilencePartsNext

-----------------------------------------------------------------------------
(* The invariant, and what it says of the timeout.                         *)

LEMMA SilenceInit == Init => SilenceInv
  <1>. SUFFICES ASSUME Init PROVE SilenceInv
    OBVIOUS
  <1>1. PICK c \in Commands : conf = SenderConfig(c[1])
    BY Zenon DEF Init
  <1>2. PacingInv
    BY InitSafe
  <1>3. spc = "start" /\ kpc = "none" /\ rpc = "start" /\ nap = 0 /\ ~Running
    BY DEF Init, Running
  <1>4. lpc["keepalive"] = "out"
    BY Constants DEF Init, LimiterInit
  <1>5. conf.byterate > 0 => (Burst * TicksPerSec) \div conf.byterate < AgeCap
    BY <1>1, AgeCapAssumption DEF Burst
  <1>6. Held - 1 <= AgeCap
    <2>1. /\ conf.byterate \in Nat /\ Held \in Nat /\ AgeCap \in Nat
          /\ conf.byterate > 0 => Held - 2 = (Burst * TicksPerSec) \div conf.byterate
      BY <1>2, Spans
    <2>2. CASE conf.byterate = 0
      BY <2>1, <2>2 DEF Held
    <2>3. CASE conf.byterate > 0
      <3>1. Held - 2 < AgeCap
        BY <1>5, <2>1, <2>3
      <3>. QED BY <2>1, <3>1
    <2>. QED BY <2>1, <2>2, <2>3
  <1>7. KeepaliveInv
    BY <1>2, <1>3, <1>4, <1>6, Spans DEF KeepaliveInv
  <1>. QED BY <1>3, <1>7, SilenceParts DEF Watched

LEMMA SilenceNext == PacingInv /\ PacingInv' /\ SilenceInv /\ [Next]_vars => SilenceInv'
  <1>. SUFFICES ASSUME PacingInv, PacingInv', SilenceInv, [Next]_vars PROVE SilenceInv'
    OBVIOUS
  <1>1. CASE StartSender  BY <1>1, StartSenderSilence
  <1>2. CASE Handwave  BY <1>2, HandwaveSilence
  <1>3. CASE SendData  BY <1>3, SendDataSilence
  <1>4. CASE InputEnds  BY <1>4, InputEndsSilence
  <1>5. CASE Teardown  BY <1>5, TeardownSilence
  <1>6. CASE ClearCont  BY <1>6, ClearContSilence
  <1>7. CASE JoinKeepalive  BY <1>7, JoinKeepaliveSilence
  <1>8. CASE KeepaliveTest  BY <1>8, KeepaliveTestSilence
  <1>9. CASE KeepaliveSend  BY <1>9, KeepaliveSendSilence
  <1>10. CASE Limit("send")  BY <1>10, LimitSendSilence
  <1>11. CASE Limit("keepalive")  BY <1>11, LimitKeepaliveSilence
  <1>12. CASE StartReceiver  BY <1>12, StartReceiverSilence
  <1>13. CASE Timeout  BY <1>13, TimeoutSilence
  <1>14. CASE Kill  BY <1>14, KillSilence
  <1>15. CASE Tick  BY <1>15, TickSilence
  <1>16. CASE UNCHANGED vars  BY <1>16, StutterSilence
  <1>. QED
    BY <1>1, <1>2, <1>3, <1>4, <1>5, <1>6, <1>7, <1>8, <1>9, <1>10, <1>11, <1>12, <1>13, <1>14,
       <1>15, <1>16, Zenon
    DEF Next, SendStep, KeepaliveStep, ReceiveStep

\* As long as the counters of the limiter are not mixed up, the time since the last
\* packet of a sender with keepalives is bounded by where keepalive_loop_thread is:
\* asleep for its period, about to send, or held back by hgap_limiter_limit.
THEOREM SilenceCorrect == Spec => []SilenceInv
  BY SilenceInit, SilenceNext, PacingCorrect, PTL DEF Spec

\* The clock of a receiver that waits for a sender that is alive.
LEMMA TimerBound ==
    ASSUME PacingInv, SilenceInv, Watched
    PROVE  timer <= (MaxLost + 1) * MaxSilence
  <1>1. /\ Quiet \in Int /\ timer = Quiet + misses * MaxSilence /\ MaxSilence \in Nat
        /\ misses \in Nat /\ misses <= MaxLost /\ MaxLost \in Nat
    BY Spans, Constants
  <1>2. Quiet <= MaxSilence
    BY SilenceParts, QuietBound
  <1>3. misses * MaxSilence <= MaxLost * MaxSilence
    BY <1>1, ProductMonotone
  <1>4. /\ (MaxLost + 1) * MaxSilence = MaxLost * MaxSilence + MaxSilence
        /\ MaxLost * MaxSilence \in Nat /\ misses * MaxSilence \in Nat
    BY <1>1
  <1>. QED BY <1>1, <1>2, <1>3, <1>4

\* SO_RCVTIMEO of hgapr_net_reader fires on a sender that runs and sends keepalives
\* only if the timeout is no longer than the longest silence of the sender, times
\* one more than the packets lost in a row: for any rate, packet size, keepalive
\* period, timeout and losses, unless the two threads have raced in the limiter.
THEOREM NoFalseTimeouts == Spec => NoFalseTimeout
  <1>1. ASSUME PacingInv, SilenceInv, [Next]_vars, rpc' = "timeout", rpc # "timeout",
               Running, conf.keepalive > 0, ~raced
        PROVE  rconf.timeout <= (MaxLost + 1) * MaxSilence * TickUs
    <2>1. TimedOut
      <3>1. ASSUME NEW type, NEW size, Transmit(type, size) PROVE FALSE
        <4>1. CASE Heard(type)
          BY <1>1, <4>1, Zenon DEF Heard
        <4>2. CASE UNCHANGED <<rpc, timer>>
          BY <1>1, <4>2
        <4>. QED BY <3>1, <4>1, <4>2 DEF Transmit
      <3>2. rpc' # rpc
        BY <1>1
      <3>3. CASE Handwave \/ Teardown
        BY <3>1, <3>2, <3>3, Zenon DEF Handwave, Teardown, Salve, Send, linkvars, rvars
      <3>4. CASE SendData \/ KeepaliveSend
        BY <3>1, <3>2, <3>4, Zenon DEF SendData, KeepaliveSend, Send, rvars
      <3>5. CASE StartSender \/ ClearCont \/ JoinKeepalive \/ InputEnds \/ KeepaliveTest \/ Kill \/ Tick
        BY <3>2, <3>5 DEF StartSender, ClearCont, JoinKeepalive, InputEnds, KeepaliveTest, Kill, Tick,
                          linkvars, rvars
      <3>6. CASE Limit("send") \/ Limit("keepalive")
        BY <3>2, <3>6, LimitUnchanged
      <3>7. CASE StartReceiver
        BY <1>1, <3>7, Zenon DEF StartReceiver
      <3>8. CASE Timeout
        BY <3>8 DEF Timeout
      <3>9. CASE UNCHANGED vars
        BY <3>2, <3>9 DEF vars, linkvars, rvars
      <3>. QED
        BY <1>1, <3>3, <3>4, <3>5, <3>6, <3>7, <3>8, <3>9, Zenon
        DEF Next, SendStep, KeepaliveStep, ReceiveStep
    <2>2. Watched
      BY <1>1, <2>1, Zenon DEF Watched, TimedOut
    <2>3. timer <= (MaxLost + 1) * MaxSilence
      BY <1>1, <2>2, TimerBound
    <2>4. timer * TickUs >= rconf.timeout
      BY <2>1 DEF TimedOut
    <2>5. timer \in Nat /\ (MaxLost + 1) * MaxSilence \in Nat /\ TickUs \in Nat
      BY <1>1, Spans, Constants, TickTyped
    <2>6. timer * TickUs <= (MaxLost + 1) * MaxSilence * TickUs
      BY <2>3, <2>5, ProductMonotone
    <2>7. /\ timer * TickUs \in Nat /\ (MaxLost + 1) * MaxSilence * TickUs \in Nat
          /\ rconf.timeout \in Nat
      BY <1>1, <2>5 DEF PacingInv, ConfInv, hgap_config
    <2>. QED BY <2>4, <2>6, <2>7
  <1>2. PacingInv /\ SilenceInv /\ [Next]_vars =>
            [ /\ rpc' = "timeout" /\ rpc # "timeout"
              /\ Running /\ conf.keepalive > 0 /\ ~raced
              => rconf.timeout <= (MaxLost + 1) * MaxSilence * TickUs ]_vars
    BY <1>1, Zenon
  <1>. QED BY <1>2, PacingCorrect, SilenceCorrect, PTL DEF Spec, NoFalseTimeout

=============================================================================
