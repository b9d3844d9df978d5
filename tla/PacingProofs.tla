----------------------------- MODULE PacingProofs -----------------------------
(***************************************************************************)
(* Proofs about module Pacing: PacingInv is an inductive invariant of the  *)
(* two programs and their limiter, for any command lines, period and       *)
(* bounds, and the properties of Pacing that are invariants follow from    *)
(* it.                                                                     *)
(***************************************************************************)
EXTENDS Pacing, TLAPS

-----------------------------------------------------------------------------
(* Arithmetic.                                                             *)

LEMMA DivisionTyped ==
    ASSUME NEW a \in Nat, NEW b \in Nat \ {0}
    PROVE  a \div b \in Nat /\ a % b \in 0 .. b - 1
  OBVIOUS

LEMMA DivisionExact ==
    ASSUME NEW a \in Nat, NEW b \in Nat \ {0}, a >= b
    PROVE  a \div b \in Nat \ {0}
  <1>1. a \div b \in Nat /\ a % b \in 0 .. b - 1  BY DivisionTyped
  <1>2. a = b * (a \div b) + (a % b)  OBVIOUS
  <1> QED  BY <1>1, <1>2

LEMMA ProductMonotone ==
    ASSUME NEW a \in Nat, NEW b \in Nat, NEW c \in Nat, NEW d \in Nat, a <= c, b <= d
    PROVE  a * b <= c * d
  <1>1. a * b <= c * b  OBVIOUS
  <1>2. c * b <= c * d  OBVIOUS
  <1> QED  BY <1>1, <1>2

\* A tick is at least a microsecond long.
LEMMA TickTyped ==
    TickUs \in Nat \ {0}
  <1>1. \A a \in Nat, b \in Nat \ {0} : a >= b => a \div b \in Nat \ {0}
    BY DivisionExact
  <1> DEFINE us == 1000000
  <1>2. us \in Nat /\ TicksPerSec \in Nat \ {0} /\ us >= TicksPerSec  BY LimiterAssumption, SMT
  <1>3. TickUs = us \div TicksPerSec  BY SMT DEF TickUs
  <1> HIDE DEF us
  <1> QED  BY <1>1, <1>2, <1>3

LEMMA TicksTyped ==
    ASSUME NEW us \in Nat
    PROVE  Ticks(us) \in Nat
  <1>1. us + TickUs - 1 \in Nat  BY TickTyped
  <1> QED  BY <1>1, TickTyped, DivisionTyped DEF Ticks

LEMMA UptoTyped ==
    ASSUME NEW n \in Nat, NEW bound \in Nat
    PROVE  /\ Upto(n, bound) \in 0 .. bound
           /\ Upto(n, bound) <= n
           /\ n <= bound => Upto(n, bound) = n
           /\ n >= bound => Upto(n, bound) = bound
  BY DEF Upto

-----------------------------------------------------------------------------
(* The options.                                                            *)

LEMMA DefaultsTyped ==
    /\ hgap_defaults \in hgap_config
    /\ hgap_defaults.mem_limit = 100 * Mega
  BY ConfigAssumption, SMT
  DEF hgap_defaults, hgap_config, Fraction, Address, HGAP_DEF_N_PKT, HGAP_DEF_PKT_SIZE,
      HGAP_DEF_REDUND, HGAP_DEF_ADDR, HGAP_DEF_BYTERATE, HGAP_DEF_KEEPALIVE, HGAP_DEF_TIMEOUT,
      HGAP_DEF_MEM_LIMIT

\* main of hairgaps.c makes a configuration out of the options, and so does main
\* of hairgapr.c.
LEMMA OptionsMakeConfig ==
    ASSUME NEW c \in Commands
    PROVE  SenderConfig(c[1]) \in hgap_config /\ ReceiverConfig(c[2]) \in hgap_config
  <1>1. c[1] \in SenderOptions /\ c[2] \in ReceiverOptions  BY PacingAssumption
  <1>2. Mega \in Nat  BY ConfigAssumption
  <1>3. ASSUME NEW n \in Number, NEW d \in Nat  PROVE Given(n, d) \in Nat
    BY <1>3 DEF Number, Given
  <1> DEFINE d == hgap_defaults
  <1>4. d \in hgap_config  BY DefaultsTyped
  <1> HIDE DEF d
  <1>5. /\ d.n_pkt \in Nat /\ d.pkt_size \in Nat /\ d.redund \in Fraction /\ d.byterate \in Nat
        /\ d.keepalive \in Nat /\ d.timeout \in Nat /\ d.mem_limit \in Nat
    BY <1>4 DEF hgap_config
  <1>6. ASSUME NEW o \in SenderOptions  PROVE SenderConfig(o) \in hgap_config
    <2> DEFINE b == IF o.b = NULL THEN d.byterate ELSE (o.b[1] * Mega) \div o.b[2]
               r == Given(o.r, d.redund)
               N == Given(o.N, d.n_pkt)
               M == Given(o.M, d.pkt_size)
               k == Given(o.k, d.keepalive)
    <2>1. r \in Fraction
      BY <1>5 DEF SenderOptions, Given
    <2>2. b \in Nat
      <3>1. CASE o.b = NULL  BY <3>1, <1>5
      <3>2. CASE o.b # NULL
        <4>1. o.b \in Fraction  BY <3>2 DEF SenderOptions
        <4>2. o.b[1] \in Nat /\ o.b[2] \in Nat \ {0}  BY <4>1 DEF Fraction
        <4>3. o.b[1] * Mega \in Nat  BY <4>2, <1>2
        <4>4. (o.b[1] * Mega) \div o.b[2] \in Nat  BY <4>2, <4>3, DivisionTyped
        <4> QED  BY <3>2, <4>4
      <3> QED  BY <3>1, <3>2
    <2>3. o.N \in Number /\ o.M \in Number /\ o.k \in Number /\ o.addr \in Address
      BY DEF SenderOptions
    <2>4. N \in Nat /\ M \in Nat /\ k \in Nat
      BY <1>3, <1>5, <2>3
    <2>5. SenderConfig(o) =
            [d EXCEPT !.byterate = b, !.redund = r, !.n_pkt = N, !.pkt_size = M,
                      !.keepalive = k, !.addr = o.addr]
      BY DEF SenderConfig, d
    <2> HIDE DEF b, r, N, M, k
    <2>6. [d EXCEPT !.byterate = b, !.redund = r, !.n_pkt = N, !.pkt_size = M,
                    !.keepalive = k, !.addr = o.addr] \in hgap_config
      BY <1>4, <2>1, <2>2, <2>3, <2>4 DEF hgap_config
    <2> QED  BY <2>5, <2>6
  <1>7. ASSUME NEW o \in ReceiverOptions  PROVE ReceiverConfig(o) \in hgap_config
    <2> DEFINE m == IF o.m = NULL THEN d.mem_limit ELSE o.m * Mega
               t == Given(o.t, d.timeout)
    <2>1. m \in Nat
      BY <1>2, <1>5 DEF ReceiverOptions, Number
    <2>2. t \in Nat /\ o.addr \in Address
      BY <1>3, <1>5 DEF ReceiverOptions
    <2>3. ReceiverConfig(o) = [d EXCEPT !.timeout = t, !.mem_limit = m, !.addr = o.addr]
      BY DEF ReceiverConfig, d
    <2> HIDE DEF m, t
    <2>4. [d EXCEPT !.timeout = t, !.mem_limit = m, !.addr = o.addr] \in hgap_config
      BY <1>4, <2>1, <2>2 DEF hgap_config
    <2> QED  BY <2>3, <2>4
  <1> QED  BY <1>1, <1>6, <1>7

\* What hgap_check_config_sender accepts.
LEMMA AcceptedConfig ==
    ASSUME NEW c \in hgap_config, hgap_check_config_sender(c, TRUE) = HGAP_SUCCESS
    PROVE  /\ c.pkt_size > HGAP_HEADER_LEN /\ c.pkt_size <= HGAP_MAX_PKT_SIZE
           /\ c.n_pkt >= 1 /\ c.n_pkt <= HGAP_MAX_N_PKT
  BY ConfigAssumption
  DEF hgap_config, hgap_check_config_sender, check_addr, HGAP_SUCCESS, HGAP_HEADER_LEN,
      HGAP_ERR_MTU_TOO_SMALL, HGAP_ERR_MTU_TOO_BIG, HGAP_ERR_INVALID_ADDR, HGAP_ERR_BAD_N_PKT

-----------------------------------------------------------------------------
(* The limiter.                                                            *)

\* What the proofs about the limiter use of the types.
LimiterTyped ==
    /\ n_pkt_sent \in Nat /\ n_bytes_sent \in Nat /\ age \in Nat /\ level \in Nat
    /\ n_pkt_sent <= PktCap /\ n_bytes_sent <= ByteCap
    /\ lpc \in [Threads -> {"out", "rate", "usleep"} \union Updating]
    /\ conf \in hgap_config
    /\ conf.byterate > 0 => Burst <= ByteCap

LimiterInv == LimiterTyped /\ CallInv /\ RegisterInv /\ BytesInv /\ LevelInv

\* The largest packet a thread sends.
Quota(t) == IF t = "send" THEN conf.pkt_size ELSE HGAP_HEADER_LEN

LEMMA Constants ==
    /\ HLIM_CHK_PERIOD \in Nat /\ TicksPerSec \in Nat \ {0}
    /\ PktCap \in Nat /\ PktCap > HLIM_CHK_PERIOD /\ ByteCap \in Nat /\ AgeCap \in Nat
    /\ Threads = {"send", "keepalive"}
    /\ HGAP_SALVE_LEN \in Nat \ {0}
    /\ MaxLost \in Nat /\ TimeCap \in Nat /\ LevelCap \in Nat
  BY LimiterAssumption, PacingAssumption, SMT

\* The labels of the limiter are different.
LEMMA Labels ==
    /\ Storing \intersect Resetting = {}
    /\ \A l \in {"out", "rate", "usleep"} : l \notin Updating /\ l \notin Storing /\ l \notin Resetting
    /\ {"store_pkt", "load_bytes", "store_bytes"} \subseteq Storing
    /\ {"reset", "clear_pkt", "clear_bytes"} \subseteq Resetting
    /\ \A l : l \in Updating <=> l \in Storing \/ l \in Resetting
  BY DEF Storing, Resetting, Updating

\* Goto moves one thread, and is not a race only if the other is not updating.
LEMMA GotoMoves ==
    ASSUME lpc \in [Threads -> {"out", "rate", "usleep"} \union Updating], raced \in BOOLEAN,
           NEW t \in Threads, NEW l \in {"out", "rate", "usleep"} \union Updating, Goto(t, l)
    PROVE  /\ lpc' \in [Threads -> {"out", "rate", "usleep"} \union Updating]
           /\ raced' \in BOOLEAN
           /\ lpc'[t] = l
           /\ \A u \in Threads \ {t} : lpc'[u] = lpc[u]
           /\ ~raced' => ~raced
           /\ ~raced' /\ l \in Updating => \A u \in Threads \ {t} : lpc[u] \notin Updating
  <1>1. /\ lpc' \in [Threads -> {"out", "rate", "usleep"} \union Updating]
        /\ lpc'[t] = l
        /\ \A u \in Threads \ {t} : lpc'[u] = lpc[u]
    BY DEF Goto
  <1>2. raced' \in BOOLEAN
    BY Zenon DEF Goto
  <1>3. ~raced' => ~raced
    BY Zenon DEF Goto
  <1>4. ~raced' /\ l \in Updating => \A u \in Threads \ {t} : lpc[u] \notin Updating
    BY Zenon DEF Goto
  <1> QED  BY <1>1, <1>2, <1>3, <1>4, Zenon

\* The other thread.
LEMMA TwoThreads ==
    ASSUME NEW t \in Threads
    PROVE  \E u \in Threads : u # t /\ Threads = {t, u}
  BY Constants, Zenon

\* What is sent and counted, seen from a thread.
LEMMA Sums ==
    ASSUME NEW t \in Threads, NEW u \in Threads, t # u, LimiterTyped, CallInv
    PROVE  /\ Sent = n_bytes_sent + arg[t] + arg[u] /\ Sent \in Nat
           /\ Quota(t) \in Nat /\ Quota(u) \in Nat /\ conf.pkt_size \in Nat
           /\ Counted \in Nat
           /\ Over("send", conf.pkt_size) + Over("keepalive", HGAP_HEADER_LEN)
              = Over(t, Quota(t)) + Over(u, Quota(u))
           /\ Over(t, Quota(t)) \in {0, Quota(t)} /\ Over(u, Quota(u)) \in {0, Quota(u)}
           /\ Over("send", conf.pkt_size) \in Nat /\ Over("keepalive", HGAP_HEADER_LEN) \in Nat
  <1>1. conf.pkt_size \in Nat  BY DEF LimiterTyped, hgap_config
  <1>2. arg[t] \in Nat /\ arg[u] \in Nat /\ n_bytes_sent \in Nat /\ n_pkt_sent \in Nat
    BY DEF LimiterTyped, CallInv
  <1>3. Quota(t) \in Nat /\ Quota(u) \in Nat  BY <1>1 DEF Quota, HGAP_HEADER_LEN
  <1>4. (t = "send" /\ u = "keepalive") \/ (t = "keepalive" /\ u = "send")
    BY Constants
  <1>5. Sent = n_bytes_sent + arg[t] + arg[u]
    BY <1>2, <1>4 DEF Sent
  <1>6. Over(t, Quota(t)) \in {0, Quota(t)} /\ Over(u, Quota(u)) \in {0, Quota(u)}
    BY DEF Over
  <1>7. Over("send", conf.pkt_size) + Over("keepalive", HGAP_HEADER_LEN)
              = Over(t, Quota(t)) + Over(u, Quota(u))
    <2>1. CASE t = "send" /\ u = "keepalive"
      BY <2>1 DEF Quota
    <2>2. CASE t = "keepalive" /\ u = "send"
      <3>1. Quota(t) = HGAP_HEADER_LEN /\ Quota(u) = conf.pkt_size  BY <2>2 DEF Quota
      <3>2. Over("send", conf.pkt_size) = Over(u, Quota(u))  BY <3>1, <2>2
      <3>3. Over("keepalive", HGAP_HEADER_LEN) = Over(t, Quota(t))  BY <3>1, <2>2
      <3>4. Over(t, Quota(t)) \in Nat /\ Over(u, Quota(u)) \in Nat  BY <1>3, <1>6
      <3> QED  BY <3>2, <3>3, <3>4
    <2> QED  BY <1>4, <2>1, <2>2
  <1>8. Counted \in Nat  BY <1>2 DEF Counted
  <1>9. Over("send", conf.pkt_size) \in Nat /\ Over("keepalive", HGAP_HEADER_LEN) \in Nat
    BY <1>1 DEF Over, HGAP_HEADER_LEN
  <1> QED  BY <1>1, <1>2, <1>3, <1>5, <1>6, <1>7, <1>8, <1>9

SumsHold ==
    \A t, u \in Threads :
        t # u =>
            /\ Sent = n_bytes_sent + arg[t] + arg[u] /\ Sent \in Nat
            /\ Over("send", conf.pkt_size) + Over("keepalive", HGAP_HEADER_LEN)
               = Over(t, Quota(t)) + Over(u, Quota(u))
            /\ Over("send", conf.pkt_size) \in Nat /\ Over("keepalive", HGAP_HEADER_LEN) \in Nat
            /\ Counted \in Nat

LEMMA SumsAll == LimiterTyped /\ CallInv => SumsHold
  BY Sums DEF SumsHold

LEMMA SumsNext == LimiterTyped' /\ CallInv' => SumsHold'
  BY SumsAll, PTL

\* What was sent since the reset is at most a burst.
LEMMA SentIsBurst ==
    ASSUME LimiterInv, Counting
    PROVE  Sent \in Nat /\ Burst \in Nat /\ Sent <= Burst /\ Burst <= ByteCap
  <1> DEFINE q == Upto(Counted, HLIM_CHK_PERIOD)
             p == conf.pkt_size
  <1>1. "send" \in Threads /\ "keepalive" \in Threads /\ "send" # "keepalive"  BY Constants
  <1>2. /\ Sent \in Nat /\ p \in Nat /\ Counted \in Nat
        /\ Over("send", p) \in {0, p}
        /\ Over("keepalive", HGAP_HEADER_LEN) \in {0, HGAP_HEADER_LEN}
    BY <1>1, Sums DEF LimiterInv, Quota
  <1>3. q \in Nat /\ q <= HLIM_CHK_PERIOD  BY <1>2, Constants, UptoTyped
  <1>4. q * p \in Nat /\ HLIM_CHK_PERIOD * p \in Nat /\ q * p <= HLIM_CHK_PERIOD * p
    BY <1>2, <1>3, Constants, ProductMonotone
  <1>5. Sent <= q * p + Over("send", p) + Over("keepalive", HGAP_HEADER_LEN)
    BY DEF LimiterInv, BytesInv
  <1>6. Burst = HLIM_CHK_PERIOD * p + p + HGAP_HEADER_LEN
    BY <1>2, Constants DEF Burst, BurstOf, HGAP_HEADER_LEN
  <1>7. Burst <= ByteCap  BY DEF LimiterInv, LimiterTyped, Counting
  <1> HIDE DEF q, p
  <1> QED  BY <1>2, <1>4, <1>5, <1>6, <1>7 DEF HGAP_HEADER_LEN

-----------------------------------------------------------------------------
(* A thread sends a packet.                                                *)

LEMMA LoadPktSafe ==
    ASSUME LimiterInv, NEW t \in Threads, NEW size \in Nat, LoadPkt(t, size), conf' = conf,
           size <= Quota(t), size <= conf.pkt_size, level' \in Nat,
           conf.byterate > 0 /\ ~raced => level' <= level + size * TicksPerSec
    PROVE  CallInv' /\ RegisterInv' /\ BytesInv' /\ LevelInv'
  <1> USE DEF LimiterInv
  <1>0. PICK u \in Threads : u # t /\ Threads = {t, u}  BY TwoThreads, Zenon
  <1>1. /\ n_pkt_sent \in Nat /\ n_bytes_sent \in Nat /\ age \in Nat /\ level \in Nat
        /\ lpc \in [Threads -> {"out", "rate", "usleep"} \union Updating] /\ raced \in BOOLEAN
        /\ arg \in [Threads -> Nat] /\ reg \in [Threads -> Nat] /\ pkts \in [Threads -> Nat]
    BY Zenon DEF LimiterTyped, CallInv
  <1>2. /\ lpc[t] = "out"
        /\ arg' = [arg EXCEPT ![t] = size] /\ reg' = [reg EXCEPT ![t] = n_pkt_sent]
        /\ Goto(t, "store_pkt")
        /\ n_pkt_sent' = n_pkt_sent /\ n_bytes_sent' = n_bytes_sent /\ age' = age /\ pkts' = pkts
    BY Zenon DEF LoadPkt
  <1>3. "store_pkt" \in Updating /\ "store_pkt" \in Storing /\ "store_pkt" \notin Resetting
    BY DEF Updating, Storing, Resetting
  <1>4. /\ lpc' \in [Threads -> {"out", "rate", "usleep"} \union Updating]
        /\ raced' \in BOOLEAN
        /\ lpc'[t] = "store_pkt" /\ lpc'[u] = lpc[u]
        /\ ~raced' => ~raced /\ lpc[u] \notin Updating
    BY <1>0, <1>1, <1>2, <1>3, GotoMoves, Zenon
  <1>5. /\ arg' \in [Threads -> Nat] /\ reg' \in [Threads -> Nat] /\ pkts' \in [Threads -> Nat]
        /\ arg'[t] = size /\ arg'[u] = arg[u] /\ reg'[t] = n_pkt_sent /\ reg'[u] = reg[u]
        /\ arg[t] = 0
    BY <1>0, <1>1, <1>2, Labels DEF CallInv
  <1>6. CallInv'
    <2>1. \A v \in Threads : lpc'[v] \notin Storing => arg'[v] = 0
      BY <1>0, <1>3, <1>4, <1>5 DEF CallInv
    <2>2. \A v \in Threads : lpc'[v] \in {"clear_pkt", "clear_bytes"} => age' = 0
      BY <1>0, <1>2, <1>4 DEF CallInv
    <2> QED  BY <1>4, <1>5, <2>1, <2>2, Zenon DEF CallInv
  <1>7. ~raced' => lpc'[u] \notin Storing /\ lpc'[u] \notin Resetting /\ lpc'[u] \notin Updating
    BY <1>4, Labels
  <1>8. RegisterInv'
    <2> SUFFICES ASSUME ~raced'
                 PROVE  /\ \A v, w \in Threads : lpc'[v] \in Updating /\ lpc'[w] \in Updating => v = w
                        /\ \A v \in Threads :
                            /\ lpc'[v] = "store_pkt" => reg'[v] = n_pkt_sent'
                            /\ lpc'[v] \in {"load_bytes", "store_bytes"} => pkts'[v] = n_pkt_sent'
                            /\ lpc'[v] = "store_bytes" => reg'[v] = n_bytes_sent'
      BY Zenon DEF RegisterInv
    <2> QED  BY <1>0, <1>2, <1>4, <1>5, <1>7 DEF Storing
  <1>9. ~raced' => (BytesInv' /\ LevelInv')
    <2> SUFFICES ASSUME ~raced', conf.byterate > 0  PROVE BytesInv' /\ LevelInv'
      BY DEF BytesInv, LevelInv, Counting
    <2>1. ~raced  BY <1>4
    <2>2. lpc[u] \notin Updating /\ lpc[u] \notin Resetting /\ lpc[u] \notin Storing
          /\ lpc[t] \notin Resetting
      BY <1>2, <1>4, Labels
    <2>3. /\ Counting
          /\ ~ \E v \in Threads : lpc[v] \in Resetting
          /\ ~ \E v \in Threads : lpc'[v] \in Resetting
      BY <1>0, <1>3, <1>4, <2>1, <2>2 DEF Counting
    <2>4. /\ Sent = n_bytes_sent + arg[t] + arg[u] /\ Sent \in Nat
          /\ conf.pkt_size \in Nat /\ Quota(t) \in Nat /\ Quota(u) \in Nat
          /\ Over("send", conf.pkt_size) + Over("keepalive", HGAP_HEADER_LEN)
             = Over(t, Quota(t)) + Over(u, Quota(u))
          /\ Over(u, Quota(u)) \in {0, Quota(u)}
          /\ Over("send", conf.pkt_size) \in Nat /\ Over("keepalive", HGAP_HEADER_LEN) \in Nat
      BY <1>0, Sums
    <2>5. LimiterTyped'
      BY <1>1, <1>2, <1>4 DEF LimiterTyped, Burst, BurstOf
    <2>6. /\ Sent' = n_bytes_sent + size + arg[u]
          /\ Over("send", conf.pkt_size)' + Over("keepalive", HGAP_HEADER_LEN)'
             = Over(t, Quota(t))' + Over(u, Quota(u))'
          /\ Over("send", conf.pkt_size)' \in Nat /\ Over("keepalive", HGAP_HEADER_LEN)' \in Nat
      BY <1>0, <1>2, <1>5, <1>6, <2>5, SumsNext DEF SumsHold
    <2>7. Sent' = Sent + size  BY <1>1, <1>5, <2>4, <2>6
    <2>8. Quota(t)' = Quota(t) /\ Quota(u)' = Quota(u)  BY DEF Quota
    <2>9. Counted = n_pkt_sent /\ Counted' = n_pkt_sent + 1
      <3>1. ~ \E v \in Threads : lpc[v] = "store_pkt"
        BY <1>0, <1>2, <1>3, <2>2
      <3>2. \E v \in Threads : lpc'[v] = "store_pkt"  BY <1>4
      <3> QED  BY <1>1, <1>2, <3>1, <3>2 DEF Counted
    <2>10. Over(u, Quota(u))' = Over(u, Quota(u)) /\ Over(t, Quota(t)) = 0
      BY <1>2, <1>4, <2>2, <2>8, Labels DEF Over
    <2>11. Over(t, Quota(t))' = IF n_pkt_sent + 1 > HLIM_CHK_PERIOD THEN Quota(t) ELSE 0
      BY <1>3, <1>4, <2>8, <2>9 DEF Over
    <2>12. BytesInv'
      <3> DEFINE q == Upto(Counted, HLIM_CHK_PERIOD)
                 r == Upto(Counted, HLIM_CHK_PERIOD)'
      <3>0. Sent <= q * conf.pkt_size + Over("send", conf.pkt_size) + Over("keepalive", HGAP_HEADER_LEN)
        BY <2>3 DEF BytesInv
      <3>2. q \in Nat /\ r = IF n_pkt_sent + 1 > HLIM_CHK_PERIOD THEN q ELSE q + 1
        BY <1>1, <2>9, Constants DEF Upto
      <3>4. BytesInv' <=> (Counting' => Sent' <= r * conf.pkt_size + Over("send", conf.pkt_size)'
                                                   + Over("keepalive", HGAP_HEADER_LEN)')
        BY Zenon DEF BytesInv
      <3> HIDE DEF q, r
      <3>1. Sent <= q * conf.pkt_size + Over(u, Quota(u))
        BY <3>0, <3>2, <2>4, <2>10
      <3>3. Sent + size <= r * conf.pkt_size + (Over(t, Quota(t))' + Over(u, Quota(u))')
        <4>1. CASE n_pkt_sent + 1 > HLIM_CHK_PERIOD
          BY <4>1, <3>1, <3>2, <2>4, <2>10, <2>11
        <4>2. CASE ~(n_pkt_sent + 1 > HLIM_CHK_PERIOD)
          <5>1. r * conf.pkt_size = q * conf.pkt_size + conf.pkt_size
            <6>1. r = q + 1  BY <4>2, <3>2
            <6>2. \A a, b \in Nat : (a + 1) * b = a * b + b  OBVIOUS
            <6> QED  BY <6>1, <6>2, <3>2, <2>4
          <5> QED  BY <4>2, <5>1, <3>1, <3>2, <2>4, <2>10, <2>11
        <4> QED  BY <4>1, <4>2
      <3>5. Sent' <= r * conf.pkt_size + Over("send", conf.pkt_size)'
                       + Over("keepalive", HGAP_HEADER_LEN)'
        BY <3>2, <3>3, <2>4, <2>6, <2>7
      <3> QED  BY <3>4, <3>5, Zenon
    <2>13. LevelInv'
      <3>1. level' <= level + size * TicksPerSec  BY <2>1
      <3>2. (Sent + size) * TicksPerSec = Sent * TicksPerSec + size * TicksPerSec
        BY <2>4, Constants
      <3>3. (Burst + Sent + size) * TicksPerSec = (Burst + Sent) * TicksPerSec + size * TicksPerSec
        BY <2>4, <2>3, SentIsBurst, Constants
      <3>4. Burst \in Nat /\ conf.byterate \in Nat  BY <2>3, SentIsBurst DEF LimiterTyped, hgap_config
      <3>5. \/ level <= Sent * TicksPerSec
            \/ level + conf.byterate * age <= (Burst + Sent) * TicksPerSec
        BY <2>1, <2>3 DEF LevelInv
      <3>6. \/ level' <= Sent' * TicksPerSec
            \/ level' + conf.byterate * age' <= (Burst + Sent') * TicksPerSec
        <4>1. conf.byterate * age \in Nat /\ size * TicksPerSec \in Nat  BY <3>4, <1>1, Constants
        <4>2. Burst + Sent' = Burst + Sent + size  BY <2>7, <2>4, <3>4
        <4> DEFINE z == size * TicksPerSec
                   a == Sent * TicksPerSec
                   b == (Burst + Sent) * TicksPerSec
                   g == conf.byterate * age
        <4>3. a \in Nat /\ b \in Nat  BY <2>4, <3>4, Constants
        <4>4. level <= a \/ level + g <= b  BY <3>5
        <4>5. level' <= level + z  BY <3>1
        <4>6. g' = g  BY <1>2
        <4>7. Sent' * TicksPerSec = a + z /\ (Burst + Sent') * TicksPerSec = b + z
          BY <3>2, <3>3, <2>7, <4>2
        <4> HIDE DEF z, a, b
        <4>8. level' <= a + z \/ level' + g <= b + z
          BY <4>1, <4>3, <4>4, <4>5, <1>1 DEF z
        <4> QED  BY <4>6, <4>7, <4>8
      <3>7. Burst' = Burst  BY DEF Burst, BurstOf
      <3> QED  BY <3>6, <3>7, <2>3 DEF LevelInv
    <2> QED  BY <2>12, <2>13
  <1>10. raced' => BytesInv' /\ LevelInv'
    BY DEF BytesInv, LevelInv, Counting
  <1> QED  BY <1>6, <1>8, <1>9, <1>10

-----------------------------------------------------------------------------
(* The steps of hgap_limiter_limit.                                        *)

\* Where a step takes its thread, and what it leaves to the other one.
LEMMA LimitStepMoves ==
    ASSUME LimiterInv, NEW t \in Threads, LimitStep(t, conf.byterate)
    PROVE  \E l \in {"out", "rate", "usleep"} \union Updating :
              /\ Goto(t, l)
              /\ \A u \in Threads \ {t} : arg'[u] = arg[u] /\ reg'[u] = reg[u] /\ pkts'[u] = pkts[u]
  <1>1. arg \in [Threads -> Nat] /\ reg \in [Threads -> Nat] /\ pkts \in [Threads -> Nat]
    BY DEF LimiterInv, CallInv
  <1> USE <1>1
  <1>2. CASE StorePkt(t)  BY <1>2 DEF StorePkt, Updating, Storing
  <1>3. CASE LoadBytes(t)  BY <1>3 DEF LoadBytes, Updating, Storing
  <1>4. CASE StoreBytes(t, conf.byterate)
    <2> DEFINE l == IF conf.byterate # 0 /\ pkts[t] > HLIM_CHK_PERIOD THEN "rate" ELSE "out"
    <2>1. l \in {"out", "rate", "usleep"} \union Updating  OBVIOUS
    <2>2. Goto(t, l)  BY <1>4 DEF StoreBytes
    <2> HIDE DEF l
    <2>3. \A u \in Threads \ {t} : arg'[u] = arg[u] /\ reg'[u] = reg[u] /\ pkts'[u] = pkts[u]
      BY <1>4 DEF StoreBytes
    <2> QED  BY <2>1, <2>2, <2>3
  <1>5. CASE TestRate(t, conf.byterate)
    <2>1. arg' = arg /\ reg' = reg /\ pkts' = pkts  BY <1>5 DEF TestRate
    <2>2. Goto(t, "usleep") \/ Goto(t, "reset")
      BY <1>5, Zenon DEF TestRate
    <2>3. "reset" \in Updating  BY DEF Updating, Resetting
    <2> QED  BY <2>1, <2>2, <2>3
  <1>6. CASE ResetSince(t)  BY <1>6 DEF ResetSince, Updating, Resetting
  <1>7. CASE ClearPkt(t)  BY <1>7 DEF ClearPkt, Updating, Resetting
  <1>8. CASE ClearBytes(t)  BY <1>8 DEF ClearBytes
  <1> QED  BY <1>2, <1>3, <1>4, <1>5, <1>6, <1>7, <1>8 DEF LimitStep

LEMMA LimitStepFrame ==
    ASSUME LimiterInv, NEW t \in Threads, LimitStep(t, conf.byterate)
    PROVE  /\ lpc' \in [Threads -> {"out", "rate", "usleep"} \union Updating]
           /\ raced' \in BOOLEAN
           /\ ~raced' => ~raced
           /\ ~raced' /\ lpc'[t] \in Updating => \A u \in Threads \ {t} : lpc[u] \notin Updating
           /\ \A u \in Threads \ {t} :
               /\ lpc'[u] = lpc[u]
               /\ arg'[u] = arg[u] /\ reg'[u] = reg[u] /\ pkts'[u] = pkts[u]
  <1>1. PICK l \in {"out", "rate", "usleep"} \union Updating :
              /\ Goto(t, l)
              /\ \A u \in Threads \ {t} : arg'[u] = arg[u] /\ reg'[u] = reg[u] /\ pkts'[u] = pkts[u]
    BY LimitStepMoves, Zenon
  <1>2. lpc \in [Threads -> {"out", "rate", "usleep"} \union Updating] /\ raced \in BOOLEAN
    BY Zenon DEF LimiterInv, LimiterTyped, CallInv
  <1> QED  BY <1>1, <1>2, GotoMoves, Zenon

\* A step leaves the registers of its thread as CallInv and RegisterInv say.
LEMMA LimitStepRegisters ==
    ASSUME LimiterInv, NEW t \in Threads, LimitStep(t, conf.byterate)
    PROVE  /\ arg' \in [Threads -> Nat] /\ reg' \in [Threads -> Nat] /\ pkts' \in [Threads -> Nat]
           /\ n_pkt_sent' \in 0 .. PktCap /\ n_bytes_sent' \in 0 .. ByteCap
           /\ age' \in {0, age}
           /\ lpc'[t] \notin Storing => arg'[t] = 0
           /\ lpc'[t] \in {"clear_pkt", "clear_bytes"} => age' = 0
           /\ lpc'[t] # "store_pkt"
           /\ ~raced => (lpc'[t] \in {"load_bytes", "store_bytes"} => pkts'[t] = n_pkt_sent')
           /\ ~raced => (lpc'[t] = "store_bytes" => reg'[t] = n_bytes_sent')
  <1>1. /\ arg \in [Threads -> Nat] /\ reg \in [Threads -> Nat] /\ pkts \in [Threads -> Nat]
        /\ n_pkt_sent \in 0 .. PktCap /\ n_bytes_sent \in 0 .. ByteCap
        /\ lpc[t] \notin Storing => arg[t] = 0
        /\ lpc[t] \in {"clear_pkt", "clear_bytes"} => age = 0
    BY Constants DEF LimiterInv, LimiterTyped, CallInv
  <1>2. /\ ~raced => (lpc[t] \in {"load_bytes", "store_bytes"} => pkts[t] = n_pkt_sent)
        /\ ~raced => (lpc[t] = "store_bytes" => reg[t] = n_bytes_sent)
    BY DEF LimiterInv, RegisterInv
  <1>3. ASSUME NEW l, Goto(t, l)  PROVE lpc'[t] = l
    BY <1>3 DEF Goto, LimiterInv, LimiterTyped
  <1>4. CASE StorePkt(t)
    <2>1. lpc'[t] = "load_bytes"  BY <1>3, <1>4 DEF StorePkt
    <2>2. n_pkt_sent' \in 0 .. PktCap
      BY <1>1, <1>4, Constants DEF StorePkt, Upto
    <2> QED  BY <1>1, <1>4, <2>1, <2>2 DEF StorePkt, Storing
  <1>5. CASE LoadBytes(t)
    <2>1. lpc'[t] = "store_bytes"  BY <1>3, <1>5 DEF LoadBytes
    <2> QED  BY <1>1, <1>2, <1>5, <2>1 DEF LoadBytes, Storing
  <1>6. CASE StoreBytes(t, conf.byterate)
    <2> DEFINE l == IF conf.byterate # 0 /\ pkts[t] > HLIM_CHK_PERIOD THEN "rate" ELSE "out"
    <2>1. lpc'[t] = l  BY <1>3, <1>6 DEF StoreBytes
    <2>2. lpc'[t] \in {"out", "rate"}  BY <2>1
    <2> HIDE DEF l
    <2>3. n_bytes_sent' \in 0 .. ByteCap
      BY <1>1, <1>6, Constants DEF StoreBytes, Upto
    <2> QED  BY <1>1, <1>6, <2>2, <2>3 DEF StoreBytes, Storing
  <1>7. CASE TestRate(t, conf.byterate)
    <2>1. lpc'[t] \in {"usleep", "reset"}
      <3>1. Goto(t, "usleep") \/ Goto(t, "reset")  BY <1>7, Zenon DEF TestRate
      <3> QED  BY <1>3, <3>1
    <2> QED  BY <1>1, <1>7, <2>1 DEF TestRate, Storing
  <1>8. CASE ResetSince(t)
    <2>1. lpc'[t] = "clear_pkt"  BY <1>3, <1>8 DEF ResetSince
    <2> QED  BY <1>1, <1>8, <2>1 DEF ResetSince, Storing
  <1>9. CASE ClearPkt(t)
    <2>1. lpc'[t] = "clear_bytes"  BY <1>3, <1>9 DEF ClearPkt
    <2> QED  BY <1>1, <1>9, <2>1, Constants DEF ClearPkt, Storing
  <1>10. CASE ClearBytes(t)
    <2>1. lpc'[t] = "out"  BY <1>3, <1>10 DEF ClearBytes
    <2> QED  BY <1>1, <1>10, <2>1, Constants DEF ClearBytes, Storing
  <1> QED  BY <1>4, <1>5, <1>6, <1>7, <1>8, <1>9, <1>10 DEF LimitStep

\* Without a race the registers of the other thread are not in use.
LEMMA LimitStepCalls ==
    ASSUME LimiterInv, NEW t \in Threads, LimitStep(t, conf.byterate)
    PROVE  CallInv' /\ RegisterInv'
  <1>0. PICK u \in Threads : u # t /\ Threads = {t, u}  BY TwoThreads, Zenon
  <1>1. /\ raced' \in BOOLEAN
        /\ ~raced' => ~raced
        /\ ~raced' /\ lpc'[t] \in Updating => lpc[u] \notin Updating
        /\ lpc'[u] = lpc[u] /\ arg'[u] = arg[u] /\ reg'[u] = reg[u] /\ pkts'[u] = pkts[u]
    BY <1>0, LimitStepFrame, Zenon
  <1>2. CallInv'
    <2>1. lpc[u] \notin Storing => arg[u] = 0  BY DEF LimiterInv, CallInv
    <2>2. lpc[u] \in {"clear_pkt", "clear_bytes"} => age = 0  BY DEF LimiterInv, CallInv
    <2>3. \A v \in Threads : lpc'[v] \notin Storing => arg'[v] = 0
      BY <1>0, <1>1, <2>1, LimitStepRegisters
    <2>4. \A v \in Threads : lpc'[v] \in {"clear_pkt", "clear_bytes"} => age' = 0
      BY <1>0, <1>1, <2>2, LimitStepRegisters
    <2>5. arg' \in [Threads -> Nat] /\ reg' \in [Threads -> Nat] /\ pkts' \in [Threads -> Nat]
      BY LimitStepRegisters
    <2> QED  BY <1>1, <2>3, <2>4, <2>5, Zenon DEF CallInv
  <1>3. ASSUME ~raced'
        PROVE  \A v, w \in Threads : lpc'[v] \in Updating /\ lpc'[w] \in Updating => v = w
    BY <1>0, <1>1, <1>3
  <1>4. ASSUME ~raced'
        PROVE  \A v \in Threads :
                    /\ lpc'[v] = "store_pkt" => reg'[v] = n_pkt_sent'
                    /\ lpc'[v] \in {"load_bytes", "store_bytes"} => pkts'[v] = n_pkt_sent'
                    /\ lpc'[v] = "store_bytes" => reg'[v] = n_bytes_sent'
    <2>1. ~raced  BY <1>1, <1>4
    <2>2. lpc[u] \in Storing => n_pkt_sent' = n_pkt_sent /\ n_bytes_sent' = n_bytes_sent
      <3> SUFFICES ASSUME lpc[u] \in Storing
                   PROVE  n_pkt_sent' = n_pkt_sent /\ n_bytes_sent' = n_bytes_sent
        OBVIOUS
      <3>1. lpc[t] \notin Updating
        BY <1>0, <2>1, Labels DEF LimiterInv, RegisterInv
      <3>2. TestRate(t, conf.byterate)
        BY <3>1, Zenon
        DEF LimitStep, StorePkt, LoadBytes, StoreBytes, ResetSince, ClearPkt, ClearBytes,
            Updating, Storing, Resetting
      <3> QED  BY <3>2 DEF TestRate
    <2>3. /\ lpc[u] = "store_pkt" => reg[u] = n_pkt_sent
          /\ lpc[u] \in {"load_bytes", "store_bytes"} => pkts[u] = n_pkt_sent
          /\ lpc[u] = "store_bytes" => reg[u] = n_bytes_sent
      BY <2>1 DEF LimiterInv, RegisterInv
    <2>4. /\ lpc'[u] = "store_pkt" => reg'[u] = n_pkt_sent'
          /\ lpc'[u] \in {"load_bytes", "store_bytes"} => pkts'[u] = n_pkt_sent'
          /\ lpc'[u] = "store_bytes" => reg'[u] = n_bytes_sent'
      BY <1>1, <2>2, <2>3, Labels
    <2>5. /\ lpc'[t] # "store_pkt"
          /\ lpc'[t] \in {"load_bytes", "store_bytes"} => pkts'[t] = n_pkt_sent'
          /\ lpc'[t] = "store_bytes" => reg'[t] = n_bytes_sent'
      BY <2>1, LimitStepRegisters
    <2> QED  BY <1>0, <2>4, <2>5
  <1> QED  BY <1>2, <1>3, <1>4, Zenon DEF RegisterInv

\* The bound on the bytes survives a step that neither sends nor resets, and so does
\* the one on the level if no time passes.
LEMMA BytesKept ==
    ASSUME LimiterInv, conf' = conf, Counting' => Counting,
           Counting' => /\ Sent' = Sent
                        /\ Upto(Counted, HLIM_CHK_PERIOD)' = Upto(Counted, HLIM_CHK_PERIOD)
                        /\ \A v \in Threads : \A n \in Nat : Over(v, n)' = Over(v, n)
    PROVE  BytesInv'
  <1>0. conf.pkt_size \in Nat /\ HGAP_HEADER_LEN \in Nat /\ "send" \in Threads
        /\ "keepalive" \in Threads
    BY Constants DEF LimiterInv, LimiterTyped, hgap_config, HGAP_HEADER_LEN
  <1> SUFFICES ASSUME Counting'
               PROVE  Sent' <= Upto(Counted, HLIM_CHK_PERIOD)' * conf'.pkt_size
                               + Over("send", conf.pkt_size)'
                               + Over("keepalive", HGAP_HEADER_LEN)'
    BY Zenon DEF BytesInv
  <1>1. /\ Over("send", conf.pkt_size)' = Over("send", conf.pkt_size)
        /\ Over("keepalive", HGAP_HEADER_LEN)' = Over("keepalive", HGAP_HEADER_LEN)
    <2>1. PICK p \in Nat : p = conf.pkt_size  BY <1>0
    <2>2. Over("send", p)' = Over("send", p)  BY <1>0
    <2>3. Over("send", conf.pkt_size)' = Over("send", p)'  BY <2>1 DEF Over
    <2>4. Over("keepalive", HGAP_HEADER_LEN)' = Over("keepalive", HGAP_HEADER_LEN)  BY <1>0
    <2> QED  BY <2>1, <2>2, <2>3, <2>4
  <1>2. Sent <= Upto(Counted, HLIM_CHK_PERIOD) * conf.pkt_size
                + Over("send", conf.pkt_size) + Over("keepalive", HGAP_HEADER_LEN)
    BY DEF LimiterInv, BytesInv
  <1> QED  BY <1>1, <1>2

LEMMA SumsKept ==
    ASSUME LimiterInv, conf' = conf, level' = level, age' = age, ~raced' => ~raced,
           ~raced' => ((\E v \in Threads : lpc'[v] \in Resetting)
                       <=> (\E v \in Threads : lpc[v] \in Resetting)),
           Counting' => /\ Sent' = Sent
                        /\ Upto(Counted, HLIM_CHK_PERIOD)' = Upto(Counted, HLIM_CHK_PERIOD)
                        /\ \A v \in Threads : \A n \in Nat : Over(v, n)' = Over(v, n)
    PROVE  BytesInv' /\ LevelInv'
  <1>1. Counting' => Counting
    BY Zenon DEF Counting
  <1>3. BytesInv'  BY <1>1, BytesKept
  <1>4. LevelInv'
    <2> SUFFICES ASSUME conf.byterate > 0, ~raced'
                 PROVE  IF \E v \in Threads : lpc'[v] \in Resetting
                        THEN level <= Burst * TicksPerSec
                        ELSE \/ level <= Sent' * TicksPerSec
                             \/ level + conf.byterate * age <= (Burst + Sent') * TicksPerSec
      BY DEF LevelInv, Burst, BurstOf
    <2>1. ~raced  OBVIOUS
    <2>2. CASE \E v \in Threads : lpc'[v] \in Resetting
      BY <2>1, <2>2 DEF LimiterInv, LevelInv
    <2>3. CASE ~ \E v \in Threads : lpc'[v] \in Resetting
      <3>1. Counting'  BY <2>3 DEF Counting
      <3> QED  BY <3>1, <2>1, <2>3 DEF LimiterInv, LevelInv
    <2> QED  BY <2>2, <2>3
  <1> QED  BY <1>3, <1>4

\* A step of hgap_limiter_limit keeps the bounds on what was sent: the counting, the
\* waiting, and the reset, which comes only once the rate is met.
LEMMA LimitStepBytes ==
    ASSUME LimiterInv, NEW t \in Threads, LimitStep(t, conf.byterate), conf' = conf, level' = level
    PROVE  BytesInv' /\ LevelInv'
  <1>0. PICK u \in Threads : u # t /\ Threads = {t, u}  BY TwoThreads, Zenon
  <1>1. /\ raced' \in BOOLEAN
        /\ ~raced' => ~raced
        /\ ~raced' /\ lpc'[t] \in Updating => lpc[u] \notin Updating
        /\ lpc'[u] = lpc[u] /\ arg'[u] = arg[u] /\ reg'[u] = reg[u] /\ pkts'[u] = pkts[u]
    BY <1>0, LimitStepFrame, Zenon
  <1>2. /\ n_pkt_sent \in Nat /\ n_bytes_sent \in Nat /\ age \in Nat /\ level \in Nat
        /\ lpc \in [Threads -> {"out", "rate", "usleep"} \union Updating]
        /\ arg \in [Threads -> Nat] /\ reg \in [Threads -> Nat] /\ pkts \in [Threads -> Nat]
        /\ conf.pkt_size \in Nat /\ conf.byterate \in Nat
    BY DEF LimiterInv, LimiterTyped, CallInv, hgap_config
  <1>3. ASSUME ~raced, lpc[t] \in Updating  PROVE lpc[u] \notin Updating
    BY <1>0, <1>3 DEF LimiterInv, RegisterInv
  <1>4. /\ lpc[u] \notin Updating => lpc[u] \notin Storing /\ lpc[u] \notin Resetting /\ arg[u] = 0
        /\ lpc[t] \notin Storing => arg[t] = 0
    BY Labels DEF LimiterInv, CallInv
  <1>5. LimiterTyped /\ CallInv  BY DEF LimiterInv
  <1>6. Sent = n_bytes_sent + arg[t] + arg[u] /\ Sent \in Nat
    BY <1>0, <1>5, Sums
  <1>7. CallInv'  BY LimitStepCalls
  <1>8. LimiterTyped'
    <2>1. /\ n_pkt_sent' \in 0 .. PktCap /\ n_bytes_sent' \in 0 .. ByteCap /\ age' \in {0, age}
          /\ lpc' \in [Threads -> {"out", "rate", "usleep"} \union Updating]
      BY LimitStepRegisters, LimitStepFrame
    <2> QED  BY <2>1, <1>2, <1>5, Constants DEF LimiterTyped, Burst, BurstOf
  <1>9. Sent' = n_bytes_sent' + arg'[t] + arg'[u]
    BY <1>0, <1>7, <1>8, SumsNext DEF SumsHold
  <1>10. ASSUME NEW l, Goto(t, l)  PROVE lpc'[t] = l
    BY <1>2, <1>10 DEF Goto
  <1>11. Burst \in Nat /\ Burst' = Burst
    BY <1>2, Constants DEF Burst, BurstOf, HGAP_HEADER_LEN
  <1>12. CASE StorePkt(t)
    <2>1. lpc[t] = "store_pkt" /\ lpc'[t] = "load_bytes"  BY <1>10, <1>12 DEF StorePkt
    <2>2. n_pkt_sent' = Upto(reg[t] + 1, PktCap) /\ n_bytes_sent' = n_bytes_sent /\ age' = age
          /\ arg' = arg
      BY <1>12 DEF StorePkt
    <2>3. Sent' = Sent  BY <2>2, <1>6, <1>9
    <2>4. (\E v \in Threads : lpc'[v] \in Resetting) <=> (\E v \in Threads : lpc[v] \in Resetting)
      BY <1>0, <1>1, <2>1 DEF Resetting
    <2>5. ASSUME Counting'
          PROVE  /\ Upto(Counted, HLIM_CHK_PERIOD)' = Upto(Counted, HLIM_CHK_PERIOD)
                 /\ \A v \in Threads : \A n \in Nat : Over(v, n)' = Over(v, n)
      <3>1. ~raced /\ lpc[u] \notin Updating /\ lpc[u] \notin Storing
        BY <1>1, <1>3, <1>4, <2>1, <2>5, Labels DEF Counting
      <3>2. reg[t] = n_pkt_sent  BY <2>1, <3>1 DEF LimiterInv, RegisterInv
      <3>3. Counted = n_pkt_sent + 1 /\ Counted' = n_pkt_sent'
        <4>1. ~ \E v \in Threads : lpc'[v] = "store_pkt"
          BY <1>0, <1>1, <2>1, <3>1 DEF Storing
        <4>2. \E v \in Threads : lpc[v] = "store_pkt"  BY <2>1
        <4>3. n_pkt_sent' \in Nat  BY <1>8 DEF LimiterTyped
        <4>4. Counted' = n_pkt_sent' + 0  BY <4>1 DEF Counted
        <4>5. Counted = n_pkt_sent + 1  BY <4>2 DEF Counted
        <4>6. \A n \in Nat : n + 0 = n  OBVIOUS
        <4>7. Counted' = n_pkt_sent'  BY <4>3, <4>4, <4>6, Zenon
        <4> QED  BY <4>5, <4>7, Zenon
      <3>4. Counted > HLIM_CHK_PERIOD <=> Counted' > HLIM_CHK_PERIOD
        BY <3>2, <3>3, <2>2, <1>2, Constants DEF Upto
      <3>5. Upto(Counted, HLIM_CHK_PERIOD)' = Upto(Counted, HLIM_CHK_PERIOD)
        BY <3>2, <3>3, <2>2, <1>2, Constants DEF Upto
      <3>6. \A n \in Nat : Over(t, n)' = Over(t, n)
        BY <2>1, <3>4, Labels DEF Over
      <3>7. \A n \in Nat : Over(u, n)' = Over(u, n)
        BY <1>1, <3>1 DEF Over
      <3> QED  BY <1>0, <3>5, <3>6, <3>7
    <2> QED  BY <1>1, <2>2, <2>3, <2>4, <2>5, SumsKept
  <1>13. CASE LoadBytes(t)
    <2>1. lpc[t] = "load_bytes" /\ lpc'[t] = "store_bytes"  BY <1>10, <1>13 DEF LoadBytes
    <2>2. n_pkt_sent' = n_pkt_sent /\ n_bytes_sent' = n_bytes_sent /\ age' = age /\ arg' = arg
      BY <1>13 DEF LoadBytes
    <2>3. Sent' = Sent  BY <2>2, <1>6, <1>9
    <2>4. (\E v \in Threads : lpc'[v] \in Resetting) <=> (\E v \in Threads : lpc[v] \in Resetting)
      BY <1>0, <1>1, <2>1 DEF Resetting
    <2>5. Counted' = Counted
      BY <1>0, <1>1, <2>1, <2>2 DEF Counted
    <2>6. \A v \in Threads : \A n \in Nat : Over(v, n)' = Over(v, n)
      BY <1>0, <1>1, <2>1, <2>5, Labels DEF Over
    <2>7. Upto(Counted, HLIM_CHK_PERIOD)' = Upto(Counted, HLIM_CHK_PERIOD)  BY <2>5 DEF Upto
    <2> QED  BY <1>1, <2>2, <2>3, <2>4, <2>6, <2>7, SumsKept
  <1>14. CASE StoreBytes(t, conf.byterate)
    <2>1. /\ lpc[t] = "store_bytes"
          /\ lpc'[t] = IF conf.byterate # 0 /\ pkts[t] > HLIM_CHK_PERIOD THEN "rate" ELSE "out"
      BY <1>10, <1>14 DEF StoreBytes
    <2>2. /\ n_bytes_sent' = Upto(reg[t] + arg[t], ByteCap) /\ n_pkt_sent' = n_pkt_sent /\ age' = age
          /\ arg'[t] = 0
      BY <1>2, <1>14 DEF StoreBytes
    <2>3. (\E v \in Threads : lpc'[v] \in Resetting) <=> (\E v \in Threads : lpc[v] \in Resetting)
      BY <1>0, <1>1, <2>1 DEF Resetting
    <2>4. Counted' = Counted
      BY <1>0, <1>1, <2>1, <2>2 DEF Counted
    <2>5. Upto(Counted, HLIM_CHK_PERIOD)' = Upto(Counted, HLIM_CHK_PERIOD)  BY <2>4 DEF Upto
    <2>6. ASSUME Counting'
          PROVE  /\ Sent' = Sent
                 /\ \A v \in Threads : \A n \in Nat : Over(v, n)' = Over(v, n)
      <3>1. ~raced /\ lpc[u] \notin Updating /\ lpc[u] \notin Storing /\ arg[u] = 0
        BY <1>1, <1>3, <1>4, <2>1, <2>6, Labels DEF Counting
      <3>2. reg[t] = n_bytes_sent /\ pkts[t] = n_pkt_sent
        BY <2>1, <3>1 DEF LimiterInv, RegisterInv
      <3>3. Counting  BY <2>3, <2>6, <3>1, Zenon DEF Counting
      <3>4. Sent <= ByteCap  BY <3>3, SentIsBurst, Constants
      <3>5. Sent' = Sent
        BY <1>1, <1>2, <1>6, <1>9, <2>2, <3>1, <3>2, <3>4, Constants DEF Upto
      <3>6. Counted = n_pkt_sent
        <4>1. ~ \E v \in Threads : lpc[v] = "store_pkt"
          BY <1>0, <2>1, <3>1 DEF Storing
        <4> QED  BY <4>1, <1>2 DEF Counted
      <3>7. conf.byterate # 0  BY <2>6, <1>2 DEF Counting
      <3>8. \A n \in Nat : Over(t, n)' = Over(t, n)
        BY <2>1, <2>4, <3>2, <3>6, <3>7, Labels DEF Over
      <3>9. \A n \in Nat : Over(u, n)' = Over(u, n)
        BY <1>1, <3>1 DEF Over
      <3> QED  BY <1>0, <3>5, <3>8, <3>9
    <2> QED  BY <1>1, <2>2, <2>3, <2>5, <2>6, SumsKept
  <1>15. CASE TestRate(t, conf.byterate)
    <2>1. lpc[t] = "rate" /\ n_pkt_sent' = n_pkt_sent /\ n_bytes_sent' = n_bytes_sent
          /\ age' = age /\ arg' = arg
      BY <1>15 DEF TestRate
    <2>2. Sent' = Sent  BY <2>1, <1>6, <1>9
    <2>3. PICK exceeded \in RateExceeded(t, conf.byterate) :
                Goto(t, IF exceeded THEN "usleep" ELSE "reset")
      BY <1>15, Zenon DEF TestRate
    <2>4. CASE exceeded
      <3>1. lpc'[t] = "usleep"  BY <1>10, <2>3, <2>4
      <3>2. (\E v \in Threads : lpc'[v] \in Resetting) <=> (\E v \in Threads : lpc[v] \in Resetting)
        BY <1>0, <1>1, <2>1, <3>1 DEF Resetting
      <3>3. Counted' = Counted
        BY <1>0, <1>1, <2>1, <3>1 DEF Counted
      <3>4. \A v \in Threads : \A n \in Nat : Over(v, n)' = Over(v, n)
        BY <1>0, <1>1, <2>1, <3>1, <3>3 DEF Over
      <3>5. Upto(Counted, HLIM_CHK_PERIOD)' = Upto(Counted, HLIM_CHK_PERIOD)  BY <3>3 DEF Upto
      <3> QED  BY <1>1, <2>1, <2>2, <3>2, <3>4, <3>5, SumsKept
    <2>5. CASE ~exceeded
      <3>1. lpc'[t] = "reset" /\ lpc'[t] \in Resetting  BY <1>10, <2>3, <2>5 DEF Resetting
      <3>2. BytesInv'  BY <3>1 DEF BytesInv, Counting
      <3>3. ASSUME ~raced', conf.byterate > 0  PROVE level <= Burst * TicksPerSec
        <4>1. ~raced /\ lpc[u] \notin Updating /\ lpc[u] \notin Resetting /\ arg[u] = 0 /\ arg[t] = 0
          BY <1>1, <1>4, <2>1, <3>1, <3>3, Labels
        <4>2. RateExceeded(t, conf.byterate) = {n_bytes_sent * TicksPerSec > conf.byterate * age}
          BY <1>0, <4>1 DEF RateExceeded
        <4>3. ~(n_bytes_sent * TicksPerSec > conf.byterate * age)
          BY <4>2, <2>3, <2>5, Zenon
        <4>4. n_bytes_sent * TicksPerSec <= conf.byterate * age
          BY <4>3, <1>2, Constants
        <4>5. Sent = n_bytes_sent  BY <1>2, <1>6, <4>1
        <4>6. ~ \E v \in Threads : lpc[v] \in Resetting  BY <1>0, <2>1, <4>1 DEF Resetting
        <4>7. Counting  BY <3>3, <4>1, <4>6 DEF Counting
        <4>8. \/ level <= Sent * TicksPerSec
              \/ level + conf.byterate * age <= (Burst + Sent) * TicksPerSec
          BY <3>3, <4>1, <4>6 DEF LimiterInv, LevelInv
        <4>9. Sent * TicksPerSec <= Burst * TicksPerSec
          BY <4>7, SentIsBurst, Constants, ProductMonotone
        <4>10. (Burst + Sent) * TicksPerSec = Burst * TicksPerSec + Sent * TicksPerSec
          BY <1>6, <1>11, Constants
        <4>11. Sent * TicksPerSec \in Nat /\ Burst * TicksPerSec \in Nat /\ conf.byterate * age \in Nat
          BY <1>2, <1>6, <1>11, Constants
        <4>12. Sent * TicksPerSec <= conf.byterate * age  BY <4>4, <4>5
        <4> QED  BY <4>8, <4>9, <4>10, <4>11, <4>12, <1>2
      <3>4. LevelInv'  BY <3>1, <3>3, <1>11 DEF LevelInv
      <3> QED  BY <3>2, <3>4
    <2> QED  BY <2>4, <2>5
  <1>16. CASE ResetSince(t) \/ ClearPkt(t)
    <2>1. lpc[t] \in Resetting /\ lpc'[t] \in Resetting
      BY <1>10, <1>16 DEF ResetSince, ClearPkt, Resetting
    <2>2. BytesInv'  BY <2>1 DEF BytesInv, Counting
    <2>3. LevelInv'  BY <1>1, <1>11, <2>1 DEF LevelInv, LimiterInv
    <2> QED  BY <2>2, <2>3
  <1>17. CASE ClearBytes(t)
    <2>1. lpc[t] = "clear_bytes" /\ lpc'[t] = "out" /\ n_bytes_sent' = 0 /\ age' = age /\ arg' = arg
      BY <1>10, <1>17 DEF ClearBytes
    <2>2. age = 0  BY <2>1 DEF LimiterInv, CallInv
    <2>3. lpc[t] \in Resetting /\ lpc[t] \notin Storing /\ arg[t] = 0
      BY <1>4, <2>1 DEF Resetting, Storing
    <2>4. ASSUME ~raced'  PROVE Sent' = 0 /\ ~raced /\ lpc[u] \notin Resetting
      BY <1>1, <1>2, <1>3, <1>4, <1>9, <2>1, <2>3, <2>4, Labels
    <2>5. BytesInv'
      <3>1. /\ Upto(Counted, HLIM_CHK_PERIOD)' * conf.pkt_size \in Nat
            /\ Over("send", conf.pkt_size)' \in Nat
            /\ Over("keepalive", HGAP_HEADER_LEN)' \in Nat
        <4>1. Counted' \in Nat  BY <1>0, <1>7, <1>8, SumsNext DEF SumsHold
        <4>2. Upto(Counted, HLIM_CHK_PERIOD)' \in Nat  BY <4>1, Constants DEF Upto
        <4> QED  BY <4>2, <1>2 DEF Over, HGAP_HEADER_LEN
      <3>2. ~raced' => Sent' <= Upto(Counted, HLIM_CHK_PERIOD)' * conf'.pkt_size
                              + Over("send", conf.pkt_size)' + Over("keepalive", HGAP_HEADER_LEN)'
        BY <2>4, <3>1
      <3> QED  BY <3>2, Zenon DEF BytesInv, Counting
    <2>6. LevelInv'
      <3>1. ASSUME ~raced', conf.byterate > 0
            PROVE  level' + conf.byterate * age' <= (Burst' + Sent') * TicksPerSec
        <4>1. level <= Burst * TicksPerSec
          BY <2>3, <2>4, <3>1 DEF LimiterInv, LevelInv
        <4>2. conf.byterate * age' = 0 /\ Burst' + Sent' = Burst
          BY <1>2, <1>11, <2>1, <2>2, <2>4, <3>1
        <4> QED  BY <4>1, <4>2, <1>2
      <3>2. ~raced' => ~ \E v \in Threads : lpc'[v] \in Resetting
        BY <1>0, <1>1, <2>1, <2>4 DEF Resetting
      <3> QED  BY <3>1, <3>2 DEF LevelInv
    <2> QED  BY <2>5, <2>6
  <1> QED  BY <1>12, <1>13, <1>14, <1>15, <1>16, <1>17 DEF LimitStep

-----------------------------------------------------------------------------
(* Time passes, the limiter is freed, or it is left alone.                 *)

LEMMA TickSafe ==
    ASSUME LimiterInv, LimiterTick, conf' = conf,
           \A t \in Threads : lpc[t] \in {"out", "usleep"},
           level' = IF level > conf.byterate THEN level - conf.byterate ELSE 0
    PROVE  CallInv' /\ RegisterInv' /\ BytesInv' /\ LevelInv'
  <1>1. /\ n_pkt_sent' = n_pkt_sent /\ n_bytes_sent' = n_bytes_sent /\ arg' = arg /\ reg' = reg
        /\ pkts' = pkts /\ raced' = raced /\ age' = Upto(age + 1, AgeCap)
        /\ \A t \in Threads : lpc'[t] = IF lpc[t] = "usleep" THEN "rate" ELSE lpc[t]
    BY DEF LimiterTick
  <1>2. \A t \in Threads : lpc'[t] \in {"out", "rate"}  BY <1>1
  <1>3. \A t \in Threads : /\ lpc'[t] \notin Updating /\ lpc'[t] \notin Storing
                           /\ lpc'[t] \notin Resetting
                           /\ lpc[t] \notin Updating /\ lpc[t] \notin Storing
                           /\ lpc[t] \notin Resetting
    BY <1>2, Labels
  <1>4. \A t \in Threads : arg[t] = 0  BY <1>3 DEF LimiterInv, CallInv
  <1>5. CallInv'
    <2>1. arg \in [Threads -> Nat] /\ reg \in [Threads -> Nat] /\ pkts \in [Threads -> Nat]
          /\ raced \in BOOLEAN
      BY Zenon DEF LimiterInv, CallInv
    <2>2. \A t \in Threads : lpc'[t] \in {"clear_pkt", "clear_bytes"} => age' = 0
      BY <1>2
    <2> QED  BY <1>1, <1>4, <2>1, <2>2, Zenon DEF CallInv
  <1>6. RegisterInv'
    BY <1>2, <1>3 DEF RegisterInv
  <1>7. Sent' = Sent  BY <1>1 DEF Sent
  <1>8. BytesInv'
    <2>1. Counting' => Counting  BY <1>1, <1>3 DEF Counting
    <2>2. Counted' = Counted
      <3>1. ~ \E t \in Threads : lpc'[t] = "store_pkt"  BY <1>2
      <3>2. ~ \E t \in Threads : lpc[t] = "store_pkt"  OBVIOUS
      <3> QED  BY <1>1, <3>1, <3>2 DEF Counted
    <2>3. Upto(Counted, HLIM_CHK_PERIOD)' = Upto(Counted, HLIM_CHK_PERIOD)  BY <2>2 DEF Upto
    <2>4. \A t \in Threads : \A n \in Nat : Over(t, n)' = Over(t, n)
      BY <1>1, <1>3 DEF Over
    <2> QED  BY <1>7, <2>1, <2>3, <2>4, BytesKept
  <1>9. LevelInv'
    <2>1. /\ level \in Nat /\ age \in Nat /\ conf.byterate \in Nat
          /\ Sent \in Nat /\ Burst \in Nat /\ Burst' = Burst
      <3>1. "send" \in Threads /\ "keepalive" \in Threads /\ "send" # "keepalive"  BY Constants
      <3>2. Sent \in Nat  BY <3>1, Sums DEF LimiterInv
      <3> QED  BY <3>2, Constants
               DEF LimiterInv, LimiterTyped, hgap_config, Burst, BurstOf, HGAP_HEADER_LEN
    <2> SUFFICES ASSUME conf.byterate > 0, ~raced
                 PROVE  \/ level' <= Sent * TicksPerSec
                        \/ level' + conf.byterate * age' <= (Burst + Sent) * TicksPerSec
      BY <1>1, <1>3, <1>7, <2>1 DEF LevelInv
    <2>2. \/ level <= Sent * TicksPerSec
          \/ level + conf.byterate * age <= (Burst + Sent) * TicksPerSec
      BY <1>3 DEF LimiterInv, LevelInv
    <2>3. Sent * TicksPerSec \in Nat /\ (Burst + Sent) * TicksPerSec \in Nat  BY <2>1, Constants
    <2>4. CASE level <= conf.byterate
      BY <2>1, <2>3, <2>4
    <2>5. CASE level > conf.byterate
      <3>1. age' \in Nat /\ age' <= age + 1  BY <1>1, <2>1, Constants DEF Upto
      <3>2. conf.byterate * age' <= conf.byterate * (age + 1)
        BY <2>1, <3>1, ProductMonotone
      <3>3. conf.byterate * (age + 1) = conf.byterate * age + conf.byterate
        <4>1. \A a, b \in Nat : a * (b + 1) = a * b + a  OBVIOUS
        <4> QED  BY <2>1, <4>1
      <3>4. conf.byterate * age \in Nat /\ conf.byterate * age' \in Nat  BY <2>1, <3>1
      <3> QED  BY <2>1, <2>2, <2>3, <2>5, <3>2, <3>3, <3>4
    <2> QED  BY <2>1, <2>4, <2>5
  <1> QED  BY <1>5, <1>6, <1>8, <1>9

LEMMA FreeSafe ==
    ASSUME LimiterInv, hgap_limiter_free, level' = 0, conf' = conf
    PROVE  CallInv' /\ RegisterInv' /\ BytesInv' /\ LevelInv'
  <1>1. /\ n_pkt_sent' = 0 /\ n_bytes_sent' = 0 /\ age' = 0 /\ raced' = raced
        /\ \A t \in Threads : lpc'[t] = "out" /\ arg'[t] = 0
        /\ arg' \in [Threads -> Nat] /\ reg' \in [Threads -> Nat] /\ pkts' \in [Threads -> Nat]
    BY DEF hgap_limiter_free
  <1>2. CallInv'
    <2>1. raced' \in BOOLEAN  BY <1>1, Zenon DEF LimiterInv, CallInv
    <2> QED  BY <1>1, <2>1, Zenon DEF CallInv
  <1>3. \A t \in Threads : lpc'[t] \notin Updating /\ lpc'[t] \notin Resetting
    BY <1>1, Labels
  <1>4. RegisterInv'  BY <1>1, <1>3 DEF RegisterInv
  <1>5. Sent' = 0 /\ "send" \in Threads /\ "keepalive" \in Threads
    BY <1>1, Constants DEF Sent
  <1>6. conf.pkt_size \in Nat /\ conf.byterate \in Nat
    BY DEF LimiterInv, LimiterTyped, hgap_config
  <1>7. BytesInv'
    <2>1. Counted' = 0
      <3>1. ~ \E t \in Threads : lpc'[t] = "store_pkt"  BY <1>1
      <3> QED  BY <1>1, <3>1 DEF Counted
    <2>2. Upto(Counted, HLIM_CHK_PERIOD)' = 0  BY <2>1, Constants DEF Upto
    <2>3. Over("send", conf.pkt_size)' \in Nat /\ Over("keepalive", HGAP_HEADER_LEN)' \in Nat
      BY <1>6 DEF Over, HGAP_HEADER_LEN
    <2>4. Sent' <= Upto(Counted, HLIM_CHK_PERIOD)' * conf'.pkt_size
                   + Over("send", conf.pkt_size)' + Over("keepalive", HGAP_HEADER_LEN)'
      BY <1>5, <1>6, <2>2, <2>3
    <2> QED  BY <2>4, Zenon DEF BytesInv
  <1>8. LevelInv'
    <2>1. level' <= Sent' * TicksPerSec  BY <1>5, Constants
    <2> QED  BY <1>3, <2>1 DEF LevelInv
  <1> QED  BY <1>2, <1>4, <1>7, <1>8

LEMMA IdleSafe ==
    ASSUME LimiterInv, UNCHANGED <<lvars, conf, level>>
    PROVE  CallInv' /\ RegisterInv' /\ BytesInv' /\ LevelInv'
  <1>1. CallInv'  BY Zenon DEF LimiterInv, CallInv, lvars
  <1>2. RegisterInv'  BY Zenon DEF LimiterInv, RegisterInv, lvars
  <1>3. Sent' = Sent  BY DEF Sent, lvars
  <1>4. Counted' = Counted  BY DEF Counted, lvars
  <1>5. \A t \in Threads : \A n \in Nat : Over(t, n)' = Over(t, n)
    BY <1>4 DEF Over, lvars
  <1>6. Upto(Counted, HLIM_CHK_PERIOD)' = Upto(Counted, HLIM_CHK_PERIOD)  BY <1>4 DEF Upto
  <1>7. /\ raced' = raced /\ age' = age /\ lpc' = lpc /\ level' = level /\ conf' = conf
    BY DEF lvars
  <1> QED  BY <1>1, <1>2, <1>3, <1>5, <1>6, <1>7, SumsKept

-----------------------------------------------------------------------------
(* The two programs.                                                       *)

LTypeOK ==
    /\ n_pkt_sent \in 0 .. PktCap /\ n_bytes_sent \in 0 .. ByteCap
    /\ age \in 0 .. AgeCap
    /\ lpc \in [Threads -> {"out", "rate", "usleep"} \union Updating]
    /\ level \in 0 .. LevelCap

STypeOK ==
    /\ spc \in {"start", "begin", "data", "end", "free", "join", "returned", "crashed",
                "exited", "killed"}
    /\ count \in 0 .. HGAP_SALVE_LEN - 1
    /\ kpc \in {"none", "test", "sleep", "done"}
    /\ nap \in Nat /\ cont \in BOOLEAN

RTypeOK ==
    /\ rpc \in {"start", "failed", "stuck", "wait", "listen", "ended", "timeout"}
    /\ timer \in 0 .. TimeCap
    /\ misses \in 0 .. MaxLost

LEMMA TypeParts == TypeOK <=> LTypeOK /\ STypeOK /\ RTypeOK
  BY Zenon DEF TypeOK, LTypeOK, STypeOK, RTypeOK

LEMMA LimiterParts == PacingInv => LimiterInv
  BY Constants DEF PacingInv, LimiterInv, LimiterTyped, TypeOK, ConfInv

LEMMA TransmitTyped ==
    ASSUME LTypeOK, RTypeOK, raced \in BOOLEAN, NEW type, NEW size \in Nat, Transmit(type, size)
    PROVE  /\ level' \in 0 .. LevelCap
           /\ conf.byterate > 0 /\ ~raced => level' <= level + size * TicksPerSec
           /\ RTypeOK'
  <1>1. level \in Nat /\ size * TicksPerSec \in Nat  BY Constants DEF LTypeOK
  <1> DEFINE up == Upto(level + size * TicksPerSec, LevelCap)
  <1>2. up \in 0 .. LevelCap /\ up <= level + size * TicksPerSec
    <2>1. level + size * TicksPerSec \in Nat  BY <1>1
    <2> QED  BY <2>1, UptoTyped, Constants
  <1>3. 0 \in 0 .. LevelCap /\ 0 <= level + size * TicksPerSec  BY <1>1, Constants
  <1>4. level' = IF conf.byterate = 0 \/ raced THEN 0 ELSE up  BY Zenon DEF Transmit
  <1> HIDE DEF up
  <1>5. level' = 0 \/ level' = up  BY <1>4, Zenon
  <1>6. level' \in 0 .. LevelCap /\ level' <= level + size * TicksPerSec  BY <1>2, <1>3, <1>5
  <1>7. RTypeOK'
    <2>1. CASE Heard(type) /\ misses' = 0
      <3>1. rpc' \in {rpc, "listen", "ended"}  BY <2>1, Zenon DEF Heard
      <3>2. timer' = 0  BY <2>1 DEF Heard
      <3> QED  BY <2>1, <3>1, <3>2, Constants DEF RTypeOK
    <2>2. CASE misses < MaxLost /\ misses' = misses + 1 /\ UNCHANGED <<rpc, timer>>
      BY <2>2, Constants DEF RTypeOK
    <2> QED  BY <2>1, <2>2, Zenon DEF Transmit
  <1> QED  BY <1>6, <1>7

\* A packet is sent: what the rest needs to know.
LEMMA SendSafe ==
    ASSUME PacingInv, Running, conf' = conf,
           NEW t \in Threads, NEW type, NEW size \in Nat, size <= Quota(t), size <= conf.pkt_size,
           Send(t, type, size)
    PROVE  /\ LTypeOK' /\ RTypeOK'
           /\ CallInv' /\ RegisterInv' /\ BytesInv' /\ LevelInv'
  <1>1. LTypeOK /\ RTypeOK /\ raced \in BOOLEAN
    BY TypeParts, Zenon DEF PacingInv, CallInv
  <1>2. Transmit(type, size) /\ LoadPkt(t, size)  BY DEF Send
  <1>3. /\ level' \in 0 .. LevelCap
        /\ conf.byterate > 0 /\ ~raced => level' <= level + size * TicksPerSec
        /\ RTypeOK'
    BY <1>1, <1>2, TransmitTyped
  <1>4. level' \in Nat  BY <1>3, Constants
  <1>5. CallInv' /\ RegisterInv' /\ BytesInv' /\ LevelInv'
    BY <1>2, <1>3, <1>4, LimiterParts, LoadPktSafe
  <1>6. LTypeOK'
    <2>1. Goto(t, "store_pkt") /\ n_pkt_sent' = n_pkt_sent /\ n_bytes_sent' = n_bytes_sent
          /\ age' = age
      BY <1>2, Zenon DEF LoadPkt
    <2>2. lpc' \in [Threads -> {"out", "rate", "usleep"} \union Updating]
      <3>1. "store_pkt" \in {"out", "rate", "usleep"} \union Updating  BY DEF Updating, Storing
      <3>2. lpc \in [Threads -> {"out", "rate", "usleep"} \union Updating]  BY <1>1 DEF LTypeOK
      <3> QED  BY <1>1, <2>1, <3>1, <3>2, GotoMoves
    <2> QED  BY <1>1, <1>3, <2>1, <2>2 DEF LTypeOK
  <1> QED  BY <1>3, <1>5, <1>6

\* The limiter goes on.
LEMMA LimitSafe ==
    ASSUME PacingInv, NEW t \in Threads, Limit(t)
    PROVE  LTypeOK' /\ CallInv' /\ RegisterInv' /\ BytesInv' /\ LevelInv'
  <1>1. LimitStep(t, conf.byterate) /\ conf' = conf /\ level' = level
    BY DEF Limit, linkvars
  <1>2. LimiterInv  BY LimiterParts
  <1>3. CallInv' /\ RegisterInv'  BY <1>1, <1>2, LimitStepCalls
  <1>4. BytesInv' /\ LevelInv'  BY <1>1, <1>2, LimitStepBytes
  <1>5. LTypeOK'
    <2>1. /\ n_pkt_sent' \in 0 .. PktCap /\ n_bytes_sent' \in 0 .. ByteCap /\ age' \in {0, age}
          /\ lpc' \in [Threads -> {"out", "rate", "usleep"} \union Updating]
      BY <1>1, <1>2, LimitStepRegisters, LimitStepFrame
    <2>2. LTypeOK  BY TypeParts DEF PacingInv
    <2> QED  BY <1>1, <2>1, <2>2, Constants DEF LTypeOK
  <1> QED  BY <1>3, <1>4, <1>5

\* The part of the invariant that is about the limiter.
Lim == LTypeOK /\ CallInv /\ RegisterInv /\ BytesInv /\ LevelInv

LEMMA InvParts == PacingInv <=> Lim /\ STypeOK /\ RTypeOK /\ ConfInv
  BY TypeParts, Zenon DEF PacingInv, Lim

LEMMA InvPartsNext == PacingInv' <=> Lim' /\ STypeOK' /\ RTypeOK' /\ ConfInv'
  BY InvParts, PTL

LEMMA IdleLim ==
    ASSUME PacingInv, UNCHANGED <<lvars, conf, level>>
    PROVE  Lim'
  <1>1. CallInv' /\ RegisterInv' /\ BytesInv' /\ LevelInv'  BY LimiterParts, IdleSafe
  <1>2. LTypeOK'  BY InvParts DEF Lim, LTypeOK, lvars
  <1> QED  BY <1>1, <1>2 DEF Lim

LEMMA FreeLim ==
    ASSUME PacingInv, hgap_limiter_free, level' = 0, conf' = conf
    PROVE  Lim'
  <1>1. CallInv' /\ RegisterInv' /\ BytesInv' /\ LevelInv'  BY LimiterParts, FreeSafe
  <1>2. LTypeOK'  BY Constants DEF LTypeOK, hgap_limiter_free
  <1> QED  BY <1>1, <1>2 DEF Lim

\* What is left to show of ConfInv if the configurations stay.
LEMMA ConfKept ==
    ASSUME PacingInv, conf' = conf, rconf' = rconf,
           Running' => hgap_check_config_sender(conf, TRUE) = HGAP_SUCCESS,
           kpc' \in {"test", "sleep"} => Running',
           spc' \in {"data", "end", "free", "join", "returned"} /\ sret' = HGAP_SUCCESS
               => ~Unreachable
    PROVE  ConfInv'
  <1>1. conf \in hgap_config /\ rconf \in hgap_config /\ (conf.byterate > 0 => Burst <= ByteCap)
    BY DEF PacingInv, ConfInv
  <1>2. Burst' = Burst /\ Unreachable' = Unreachable  BY DEF Burst, BurstOf, Unreachable
  <1>3. hgap_check_config_sender(conf, TRUE)' = hgap_check_config_sender(conf, TRUE)
    BY DEF hgap_check_config_sender
  <1> QED  BY <1>1, <1>2, <1>3, Zenon DEF ConfInv

\* The same for a step of a sender that runs, and goes on.
LEMMA ConfRuns ==
    ASSUME PacingInv, Running, conf' = conf, rconf' = rconf, Running',
           spc' \in {"data", "end", "free", "join"} /\ sret' = HGAP_SUCCESS => ~Unreachable
    PROVE  ConfInv'
  <1>1. hgap_check_config_sender(conf, TRUE) = HGAP_SUCCESS  BY DEF PacingInv, ConfInv
  <1>2. spc' # "returned"  BY DEF Running
  <1> QED  BY <1>1, <1>2, ConfKept

\* A sender that runs sends packets that hgap_check_config_sender has let through.
LEMMA RunningSizes ==
    ASSUME PacingInv, Running
    PROVE  /\ HGAP_HEADER_LEN \in Nat /\ conf.pkt_size \in Nat
           /\ HGAP_HEADER_LEN <= conf.pkt_size
           /\ \A t \in Threads : HGAP_HEADER_LEN <= Quota(t)
           /\ conf.pkt_size <= Quota("send")
           /\ "send" \in Threads /\ "keepalive" \in Threads
  <1>1. conf \in hgap_config /\ hgap_check_config_sender(conf, TRUE) = HGAP_SUCCESS
    BY DEF PacingInv, ConfInv
  <1>2. conf.pkt_size > HGAP_HEADER_LEN  BY <1>1, AcceptedConfig
  <1>3. conf.pkt_size \in Nat  BY <1>1 DEF hgap_config
  <1> QED  BY <1>2, <1>3, Constants DEF Quota, HGAP_HEADER_LEN

-----------------------------------------------------------------------------
(* The actions.                                                            *)

LEMMA StutterSafe == PacingInv /\ UNCHANGED vars => PacingInv'
  <1> SUFFICES ASSUME PacingInv, UNCHANGED vars  PROVE PacingInv'
    OBVIOUS
  <1>1. Lim'  BY IdleLim DEF vars, linkvars
  <1>2. STypeOK'  BY InvParts DEF STypeOK, vars, svars, kvars
  <1>3. RTypeOK'  BY InvParts DEF RTypeOK, vars, linkvars, rvars
  <1>4. ConfInv'
    <2>1. /\ spc' = spc /\ kpc' = kpc /\ sret' = sret /\ conf' = conf /\ rconf' = rconf
          /\ Running' = Running
      BY DEF vars, svars, kvars, Running
    <2> QED  BY <2>1, ConfKept DEF PacingInv, ConfInv
  <1> QED  BY <1>1, <1>2, <1>3, <1>4, InvPartsNext

LEMMA StartReceiverSafe == PacingInv /\ StartReceiver => PacingInv'
  <1> SUFFICES ASSUME PacingInv, StartReceiver  PROVE PacingInv'
    OBVIOUS
  <1>1. Lim'  BY IdleLim DEF StartReceiver
  <1>2. STypeOK'  BY InvParts DEF STypeOK, StartReceiver, svars, kvars
  <1>3. RTypeOK'
    <2>1. rpc' \in {"failed", "stuck", "wait"}  BY Zenon DEF StartReceiver
    <2>2. timer' = timer /\ misses' = misses  BY DEF StartReceiver
    <2> QED  BY <2>1, <2>2, InvParts DEF RTypeOK
  <1>4. ConfInv'
    <2>1. /\ spc' = spc /\ kpc' = kpc /\ sret' = sret /\ conf' = conf /\ rconf' = rconf
          /\ Running' = Running
      BY DEF StartReceiver, svars, kvars, Running
    <2> QED  BY <2>1, ConfKept DEF PacingInv, ConfInv
  <1> QED  BY <1>1, <1>2, <1>3, <1>4, InvPartsNext

LEMMA TimeoutSafe == PacingInv /\ Timeout => PacingInv'
  <1> SUFFICES ASSUME PacingInv, Timeout  PROVE PacingInv'
    OBVIOUS
  <1>1. Lim'  BY IdleLim DEF Timeout
  <1>2. STypeOK'  BY InvParts DEF STypeOK, Timeout, svars, kvars
  <1>3. RTypeOK'  BY InvParts DEF RTypeOK, Timeout
  <1>4. ConfInv'
    <2>1. /\ spc' = spc /\ kpc' = kpc /\ sret' = sret /\ conf' = conf /\ rconf' = rconf
          /\ Running' = Running
      BY DEF Timeout, svars, kvars, Running
    <2> QED  BY <2>1, ConfKept DEF PacingInv, ConfInv
  <1> QED  BY <1>1, <1>2, <1>3, <1>4, InvPartsNext

LEMMA StartSenderSafe == PacingInv /\ StartSender => PacingInv'
  <1> SUFFICES ASSUME PacingInv, StartSender  PROVE PacingInv'
    OBVIOUS
  <1>1. Lim'  BY IdleLim DEF StartSender, linkvars
  <1>2. RTypeOK'  BY InvParts DEF RTypeOK, StartSender, linkvars, rvars
  <1>3. conf' = conf /\ rconf' = rconf /\ count' = count /\ spc = "start"
    BY DEF StartSender
  <1>4. kpc \notin {"test", "sleep"}  BY <1>3 DEF PacingInv, ConfInv, Running
  <1>5. STypeOK  BY InvParts
  <1>6. PICK good_in \in BOOLEAN :
            LET ret == hgap_check_config_sender(conf, good_in) IN
            \/ ret # HGAP_SUCCESS /\ spc' = "returned" /\ sret' = ret /\ UNCHANGED kvars
            \/ /\ ret = HGAP_SUCCESS /\ Destination(conf.addr) = NULL
               /\ spc' = "crashed" /\ UNCHANGED <<sret, kvars>>
            \/ /\ ret = HGAP_SUCCESS /\ Destination(conf.addr) # NULL
               /\ spc' = "begin"
               /\ cont' = (conf.keepalive > 0)
               /\ kpc' = IF cont' THEN "test" ELSE "none"
               /\ UNCHANGED <<sret, nap>>
    BY Zenon DEF StartSender
  <1> DEFINE ret == hgap_check_config_sender(conf, good_in)
  <1>7. CASE /\ ret # HGAP_SUCCESS /\ spc' = "returned" /\ sret' = ret /\ UNCHANGED kvars
    <2>1. STypeOK'  BY <1>3, <1>5, <1>7 DEF STypeOK, kvars
    <2>2. ~Running' /\ kpc' = kpc /\ sret' # HGAP_SUCCESS  BY <1>7 DEF Running, kvars
    <2>3. ConfInv'  BY <1>3, <1>4, <2>2, ConfKept
    <2> QED  BY <1>1, <1>2, <2>1, <2>3, InvPartsNext
  <1>8. CASE /\ ret = HGAP_SUCCESS /\ Destination(conf.addr) = NULL
             /\ spc' = "crashed" /\ UNCHANGED <<sret, kvars>>
    <2>1. STypeOK'  BY <1>3, <1>5, <1>8 DEF STypeOK, kvars
    <2>2. ~Running' /\ kpc' = kpc  BY <1>8 DEF Running, kvars
    <2>3. ConfInv'  BY <1>3, <1>4, <1>8, <2>2, ConfKept
    <2> QED  BY <1>1, <1>2, <2>1, <2>3, InvPartsNext
  <1>9. CASE /\ ret = HGAP_SUCCESS /\ Destination(conf.addr) # NULL
             /\ spc' = "begin"
             /\ cont' = (conf.keepalive > 0)
             /\ kpc' = IF cont' THEN "test" ELSE "none"
             /\ UNCHANGED <<sret, nap>>
    <2>1. kpc' \in {"test", "none"}  BY <1>9, Zenon
    <2>2. cont' \in BOOLEAN
      <3>1. conf.keepalive \in Nat  BY DEF PacingInv, ConfInv, hgap_config
      <3>2. (conf.keepalive > 0) \in BOOLEAN  BY <3>1
      <3> QED  BY <1>9, <3>2, Zenon
    <2>3. STypeOK'  BY <1>3, <1>5, <1>9, <2>1, <2>2 DEF STypeOK
    <2>4. Running'  BY <1>9 DEF Running
    <2>5. hgap_check_config_sender(conf, TRUE) = HGAP_SUCCESS
      BY <1>9 DEF hgap_check_config_sender, HGAP_SUCCESS, HGAP_ERR_BAD_IN_FD
    <2>6. ConfInv'  BY <1>3, <1>9, <2>4, <2>5, ConfKept
    <2> QED  BY <1>1, <1>2, <2>3, <2>6, InvPartsNext
  <1> QED  BY <1>6, <1>7, <1>8, <1>9

\* A salve of hgap_sender_control goes on.
LEMMA SalveSafe ==
    ASSUME PacingInv, Running, conf' = conf, NEW type, NEW next, Salve(type, next)
    PROVE  Lim' /\ RTypeOK' /\ count' \in 0 .. HGAP_SALVE_LEN - 1 /\ spc' \in {spc, next}
  <1>1. Send("send", type, HGAP_HEADER_LEN)  BY DEF Salve
  <1>2. Lim' /\ RTypeOK'
    BY <1>1, RunningSizes, SendSafe DEF Lim
  <1>3. count' \in 0 .. HGAP_SALVE_LEN - 1
    <2>1. count + 1 \in Nat  BY InvParts, Constants DEF STypeOK
    <2> QED  BY <2>1, Constants, DivisionTyped DEF Salve
  <1>4. spc' \in {spc, next}  BY Zenon DEF Salve
  <1> QED  BY <1>2, <1>3, <1>4

LEMMA HandwaveSafe == PacingInv /\ Handwave => PacingInv'
  <1> SUFFICES ASSUME PacingInv, Handwave  PROVE PacingInv'
    OBVIOUS
  <1>1. /\ spc = "begin" /\ conf' = conf /\ rconf' = rconf /\ kpc' = kpc
        /\ nap' = nap /\ cont' = cont
    BY DEF Handwave, kvars
  <1>2. Running /\ STypeOK  BY <1>1, InvParts DEF Running
  <1>3. CASE ~Unreachable /\ Salve("begin", "data") /\ UNCHANGED sret
    <2>1. Lim' /\ RTypeOK' /\ count' \in 0 .. HGAP_SALVE_LEN - 1 /\ spc' \in {"begin", "data"}
      BY <1>1, <1>2, <1>3, SalveSafe
    <2>2. STypeOK'  BY <1>1, <1>2, <2>1 DEF STypeOK
    <2>3. ConfInv'
      <3>1. Running'  BY <2>1 DEF Running
      <3> QED  BY <1>1, <1>2, <1>3, <3>1, ConfRuns
    <2> QED  BY <2>1, <2>2, <2>3, InvPartsNext
  <1>4. CASE /\ Unreachable /\ spc' = "free" /\ sret' = HGAP_ERR_NETWORK
             /\ UNCHANGED <<lvars, count, linkvars>>
    <2>1. Lim'  BY <1>1, <1>4, IdleLim DEF linkvars
    <2>2. RTypeOK'  BY <1>4, InvParts DEF RTypeOK, linkvars, rvars
    <2>3. STypeOK'  BY <1>1, <1>2, <1>4 DEF STypeOK
    <2>4. ConfInv'
      <3>1. Running'  BY <1>4 DEF Running
      <3>2. sret' # HGAP_SUCCESS  BY <1>4 DEF HGAP_SUCCESS, HGAP_ERR_NETWORK
      <3> QED  BY <1>1, <1>2, <3>1, <3>2, ConfRuns
    <2> QED  BY <2>1, <2>2, <2>3, <2>4, InvPartsNext
  <1> QED  BY <1>3, <1>4 DEF Handwave

LEMMA SendDataSafe == PacingInv /\ SendData => PacingInv'
  <1> SUFFICES ASSUME PacingInv, SendData  PROVE PacingInv'
    OBVIOUS
  <1>1. /\ spc = "data" /\ conf' = conf /\ rconf' = rconf /\ spc' = spc /\ count' = count
        /\ sret' = sret /\ kpc' = kpc /\ nap' = nap /\ cont' = cont /\ ~Unreachable
        /\ Send("send", "data", conf.pkt_size)
    BY DEF SendData, kvars
  <1>2. Running /\ Running' /\ STypeOK  BY <1>1, InvParts DEF Running
  <1>3. Lim' /\ RTypeOK'  BY <1>1, <1>2, RunningSizes, SendSafe DEF Lim
  <1>4. STypeOK'  BY <1>1, <1>2 DEF STypeOK
  <1>5. ConfInv'  BY <1>1, <1>2, ConfRuns
  <1> QED  BY <1>3, <1>4, <1>5, InvPartsNext

LEMMA InputEndsSafe == PacingInv /\ InputEnds => PacingInv'
  <1> SUFFICES ASSUME PacingInv, InputEnds  PROVE PacingInv'
    OBVIOUS
  <1>1. Lim'  BY IdleLim DEF InputEnds, linkvars
  <1>2. RTypeOK'  BY InvParts DEF RTypeOK, InputEnds, linkvars, rvars
  <1>3. STypeOK'  BY InvParts DEF STypeOK, InputEnds, kvars
  <1>4. ConfInv'
    <2>1. Running /\ Running'  BY DEF InputEnds, Running
    <2>2. spc = "data" /\ sret' = sret /\ conf' = conf /\ rconf' = rconf  BY DEF InputEnds
    <2>3. sret = HGAP_SUCCESS => ~Unreachable  BY <2>2 DEF PacingInv, ConfInv
    <2> QED  BY <2>1, <2>2, <2>3, ConfRuns
  <1> QED  BY <1>1, <1>2, <1>3, <1>4, InvPartsNext

LEMMA TeardownSafe == PacingInv /\ Teardown => PacingInv'
  <1> SUFFICES ASSUME PacingInv, Teardown  PROVE PacingInv'
    OBVIOUS
  <1>1. /\ spc = "end" /\ conf' = conf /\ rconf' = rconf /\ kpc' = kpc
        /\ nap' = nap /\ cont' = cont /\ sret' = sret
    BY DEF Teardown, kvars
  <1>2. Running /\ STypeOK  BY <1>1, InvParts DEF Running
  <1>3. sret = HGAP_SUCCESS => ~Unreachable  BY <1>1 DEF PacingInv, ConfInv
  <1>4. CASE ~Unreachable /\ Salve("end", "free")
    <2>1. Lim' /\ RTypeOK' /\ count' \in 0 .. HGAP_SALVE_LEN - 1 /\ spc' \in {"end", "free"}
      BY <1>1, <1>2, <1>4, SalveSafe
    <2>2. STypeOK'  BY <1>1, <1>2, <2>1 DEF STypeOK
    <2>3. Running'  BY <2>1 DEF Running
    <2>4. ConfInv'  BY <1>1, <1>2, <1>3, <2>3, ConfRuns
    <2> QED  BY <2>1, <2>2, <2>4, InvPartsNext
  <1>5. CASE Unreachable /\ spc' = "free" /\ UNCHANGED <<lvars, count, linkvars>>
    <2>1. Lim'  BY <1>1, <1>5, IdleLim DEF linkvars
    <2>2. RTypeOK'  BY <1>5, InvParts DEF RTypeOK, linkvars, rvars
    <2>3. STypeOK'  BY <1>1, <1>2, <1>5 DEF STypeOK
    <2>4. Running'  BY <1>5 DEF Running
    <2>5. ConfInv'  BY <1>1, <1>2, <1>3, <2>4, ConfRuns
    <2> QED  BY <2>1, <2>2, <2>3, <2>5, InvPartsNext
  <1> QED  BY <1>4, <1>5 DEF Teardown

LEMMA ClearContSafe == PacingInv /\ ClearCont => PacingInv'
  <1> SUFFICES ASSUME PacingInv, ClearCont  PROVE PacingInv'
    OBVIOUS
  <1>1. Lim'  BY IdleLim DEF ClearCont, linkvars
  <1>2. RTypeOK'  BY InvParts DEF RTypeOK, ClearCont, linkvars, rvars
  <1>3. STypeOK'  BY InvParts DEF STypeOK, ClearCont
  <1>4. ConfInv'
    <2>1. Running /\ Running'  BY DEF ClearCont, Running
    <2>2. spc = "free" /\ sret' = sret /\ conf' = conf /\ rconf' = rconf  BY DEF ClearCont
    <2>3. sret = HGAP_SUCCESS => ~Unreachable  BY <2>2 DEF PacingInv, ConfInv
    <2> QED  BY <2>1, <2>2, <2>3, ConfRuns
  <1> QED  BY <1>1, <1>2, <1>3, <1>4, InvPartsNext

LEMMA JoinKeepaliveSafe == PacingInv /\ JoinKeepalive => PacingInv'
  <1> SUFFICES ASSUME PacingInv, JoinKeepalive  PROVE PacingInv'
    OBVIOUS
  <1>1. Lim'  BY FreeLim DEF JoinKeepalive
  <1>2. RTypeOK'  BY InvParts DEF RTypeOK, JoinKeepalive, rvars
  <1>3. STypeOK'  BY InvParts DEF STypeOK, JoinKeepalive, kvars
  <1>4. ConfInv'
    <2>1. /\ spc = "join" /\ sret' = sret /\ conf' = conf /\ rconf' = rconf /\ ~Running'
          /\ kpc' \notin {"test", "sleep"}
      BY DEF JoinKeepalive, Running, kvars
    <2>2. sret = HGAP_SUCCESS => ~Unreachable  BY <2>1 DEF PacingInv, ConfInv
    <2> QED  BY <2>1, <2>2, ConfKept
  <1> QED  BY <1>1, <1>2, <1>3, <1>4, InvPartsNext

LEMMA KeepaliveTyped ==
    ASSUME NEW c \in hgap_config
    PROVE  keepalive_us(c) \in Nat
  <1>1. c.keepalive \in Nat  BY DEF hgap_config
  <1>2. c.keepalive \div 1000 \in Nat  BY <1>1, SMT
  <1> QED  BY <1>1, <1>2, SMT DEF keepalive_us

LEMMA KeepaliveTestSafe == PacingInv /\ KeepaliveTest => PacingInv'
  <1> SUFFICES ASSUME PacingInv, KeepaliveTest  PROVE PacingInv'
    OBVIOUS
  <1>1. Lim'  BY IdleLim DEF KeepaliveTest, linkvars
  <1>2. RTypeOK'  BY InvParts DEF RTypeOK, KeepaliveTest, linkvars, rvars
  <1>3. /\ kpc = "test" /\ spc' = spc /\ count' = count /\ sret' = sret
        /\ conf' = conf /\ rconf' = rconf /\ cont' = cont
    BY DEF KeepaliveTest, svars
  <1>4. Ticks(keepalive_us(conf)) \in Nat
    BY KeepaliveTyped, TicksTyped DEF PacingInv, ConfInv
  <1>5. kpc' \in {"sleep", "done"} /\ (nap' = Ticks(keepalive_us(conf)) \/ nap' = nap)
    BY Zenon DEF KeepaliveTest
  <1>6. STypeOK'  BY <1>3, <1>4, <1>5, InvParts DEF STypeOK
  <1>7. ConfInv'
    <2>1. Running' = Running  BY <1>3 DEF Running
    <2>2. Running  BY <1>3 DEF PacingInv, ConfInv
    <2> QED  BY <1>3, <2>1, <2>2, ConfKept DEF PacingInv, ConfInv
  <1> QED  BY <1>1, <1>2, <1>6, <1>7, InvPartsNext

\* The process ends.
LEMMA DieSafe ==
    ASSUME PacingInv, NEW how \in {"exited", "killed"}, Die(how),
           UNCHANGED <<conf, rconf, count, sret, cont, rvars>>
    PROVE  PacingInv'
  <1>1. Lim'  BY FreeLim DEF Die
  <1>2. RTypeOK'  BY InvParts DEF RTypeOK, rvars
  <1>3. STypeOK'  BY InvParts DEF STypeOK, Die
  <1>4. ConfInv'
    <2>1. ~Running' /\ kpc' = "done" /\ spc' \notin {"data", "end", "free", "join", "returned"}
      BY DEF Die, Running
    <2> QED  BY <2>1, ConfKept
  <1> QED  BY <1>1, <1>2, <1>3, <1>4, InvPartsNext

LEMMA KeepaliveSendSafe == PacingInv /\ KeepaliveSend => PacingInv'
  <1> SUFFICES ASSUME PacingInv, KeepaliveSend  PROVE PacingInv'
    OBVIOUS
  <1>1. /\ kpc = "sleep" /\ conf' = conf /\ rconf' = rconf /\ count' = count
        /\ sret' = sret /\ cont' = cont
    BY DEF KeepaliveSend
  <1>2. CASE /\ ~Unreachable /\ Send("keepalive", "keepalive", HGAP_HEADER_LEN)
             /\ kpc' = "test" /\ UNCHANGED <<spc, nap>>
    <2>1. Running  BY <1>1 DEF PacingInv, ConfInv
    <2>2. Lim' /\ RTypeOK'  BY <1>1, <1>2, <2>1, RunningSizes, SendSafe DEF Lim
    <2>3. STypeOK'  BY <1>1, <1>2, InvParts DEF STypeOK
    <2>4. Running'  BY <1>2, <2>1 DEF Running
    <2>5. ConfInv'  BY <1>1, <1>2, <2>1, <2>4, ConfRuns
    <2> QED  BY <2>2, <2>3, <2>5, InvPartsNext
  <1>3. CASE Unreachable /\ Die("exited") /\ UNCHANGED rvars
    BY <1>1, <1>3, DieSafe
  <1> QED  BY <1>2, <1>3 DEF KeepaliveSend

LEMMA TickStepSafe == PacingInv /\ Tick => PacingInv'
  <1> SUFFICES ASSUME PacingInv, Tick  PROVE PacingInv'
    OBVIOUS
  <1>1. /\ LimiterTick /\ conf' = conf /\ rconf' = rconf /\ spc' = spc /\ count' = count
        /\ sret' = sret /\ kpc' = kpc /\ cont' = cont /\ rpc' = rpc
        /\ misses' = misses
        /\ level' = IF level > conf.byterate THEN level - conf.byterate ELSE 0
        /\ nap' = IF kpc = "sleep" THEN nap - 1 ELSE nap
        /\ timer' = IF rpc = "listen" THEN Upto(timer + 1, TimeCap) ELSE timer
    BY Zenon DEF Tick, svars
  <1>2. \A t \in Threads : lpc[t] \in {"out", "usleep"}
    BY Zenon DEF Tick, Urgent
  <1>3. kpc = "sleep" => nap # 0
    BY Zenon DEF Tick, Urgent
  <1>4. Lim /\ STypeOK /\ RTypeOK  BY InvParts
  <1>5. CallInv' /\ RegisterInv' /\ BytesInv' /\ LevelInv'
    BY <1>1, <1>2, LimiterParts, TickSafe
  <1>6. LTypeOK'
    <2>1. LTypeOK /\ conf.byterate \in Nat
      BY <1>4 DEF Lim, PacingInv, ConfInv, hgap_config
    <2>2. age' \in 0 .. AgeCap
      BY <1>1, <2>1, Constants DEF LimiterTick, LTypeOK, Upto
    <2>3. lpc' \in [Threads -> {"out", "rate", "usleep"} \union Updating]
      BY <1>1, <2>1 DEF LimiterTick, LTypeOK
    <2>4. level' \in 0 .. LevelCap
      BY <1>1, <2>1, Constants DEF LTypeOK
    <2> QED  BY <1>1, <2>1, <2>2, <2>3, <2>4 DEF LTypeOK, LimiterTick
  <1>7. RTypeOK'
    <2>1. timer' \in 0 .. TimeCap  BY <1>1, <1>4, Constants DEF RTypeOK, Upto
    <2> QED  BY <1>1, <1>4, <2>1 DEF RTypeOK
  <1>8. STypeOK'
    <2>1. nap' \in Nat  BY <1>1, <1>3, <1>4 DEF STypeOK
    <2> QED  BY <1>1, <1>4, <2>1 DEF STypeOK
  <1>9. ConfInv'
    <2>1. Running' = Running  BY <1>1 DEF Running
    <2> QED  BY <1>1, <2>1, ConfKept DEF PacingInv, ConfInv
  <1> QED  BY <1>5, <1>6, <1>7, <1>8, <1>9, InvPartsNext DEF Lim

LEMMA LimitActionSafe ==
    ASSUME NEW t \in Threads, PacingInv, Limit(t)
    PROVE  PacingInv'
  <1>1. Lim'  BY LimitSafe DEF Lim
  <1>2. RTypeOK'  BY InvParts DEF RTypeOK, Limit, linkvars, rvars
  <1>3. STypeOK'  BY InvParts DEF STypeOK, Limit, svars, kvars
  <1>4. ConfInv'
    <2>1. /\ spc' = spc /\ kpc' = kpc /\ sret' = sret /\ conf' = conf /\ rconf' = rconf
          /\ Running' = Running
      BY DEF Limit, svars, kvars, Running
    <2> QED  BY <2>1, ConfKept DEF PacingInv, ConfInv
  <1> QED  BY <1>1, <1>2, <1>3, <1>4, InvPartsNext

-----------------------------------------------------------------------------
(* The invariant.                                                          *)

LEMMA InitSafe == Init => PacingInv
  <1> SUFFICES ASSUME Init  PROVE PacingInv
    OBVIOUS
  <1>1. PICK c \in Commands : conf = SenderConfig(c[1]) /\ rconf = ReceiverConfig(c[2])
    BY Zenon DEF Init
  <1>2. conf \in hgap_config /\ rconf \in hgap_config  BY <1>1, OptionsMakeConfig
  <1>3. conf.byterate > 0 => Burst <= ByteCap
    BY <1>1, ByteCapAssumption DEF Burst
  <1>4. spc = "start" /\ kpc = "none" /\ level = 0 /\ raced = FALSE /\ age = 0
        /\ n_pkt_sent = 0 /\ n_bytes_sent = 0
    BY DEF Init, LimiterInit
  <1>5. ConfInv
    BY <1>2, <1>3, <1>4 DEF ConfInv, Running
  <1>6. /\ \A t \in Threads : lpc[t] = "out" /\ arg[t] = 0
        /\ arg \in [Threads -> Nat] /\ reg \in [Threads -> Nat] /\ pkts \in [Threads -> Nat]
        /\ lpc \in [Threads -> {"out", "rate", "usleep"} \union Updating]
    BY DEF Init, LimiterInit
  <1>7. CallInv
    <2>1. raced \in BOOLEAN  BY <1>4, Zenon
    <2> QED  BY <1>4, <1>6, <2>1, Zenon DEF CallInv
  <1>8. \A t \in Threads : lpc[t] \notin Updating /\ lpc[t] \notin Resetting
    BY <1>6, Labels
  <1>9. RegisterInv  BY <1>6, <1>8 DEF RegisterInv
  <1>10. LTypeOK  BY <1>4, <1>6, Constants DEF LTypeOK
  <1>11. STypeOK
    <2>1. cont \in BOOLEAN  BY Zenon DEF Init
    <2> QED  BY <2>1, Constants DEF Init, STypeOK
  <1>12. RTypeOK  BY Constants DEF Init, RTypeOK
  <1>13. LimiterTyped  BY <1>2, <1>3, <1>4, <1>6, Constants DEF LimiterTyped
  <1>14. Sent = 0  BY <1>4, <1>6, Constants DEF Sent
  <1>15. BytesInv
    <2>1. "send" \in Threads /\ "keepalive" \in Threads /\ "send" # "keepalive"  BY Constants
    <2>2. /\ Counted \in Nat /\ conf.pkt_size \in Nat
          /\ Over("send", conf.pkt_size) \in Nat /\ Over("keepalive", HGAP_HEADER_LEN) \in Nat
      BY <1>7, <1>13, <2>1, Sums
    <2>3. Upto(Counted, HLIM_CHK_PERIOD) \in Nat  BY <2>2, Constants DEF Upto
    <2>4. Upto(Counted, HLIM_CHK_PERIOD) * conf.pkt_size \in Nat  BY <2>2, <2>3
    <2> QED  BY <1>14, <2>2, <2>4 DEF BytesInv
  <1>16. LevelInv
    <2>1. level <= Sent * TicksPerSec  BY <1>4, <1>14, Constants
    <2> QED  BY <1>8, <2>1 DEF LevelInv
  <1> QED  BY <1>5, <1>7, <1>9, <1>10, <1>11, <1>12, <1>15, <1>16, InvParts DEF Lim

LEMMA NextSafe == PacingInv /\ [Next]_vars => PacingInv'
  <1> SUFFICES ASSUME PacingInv, [Next]_vars  PROVE PacingInv'
    OBVIOUS
  <1>1. CASE StartSender  BY <1>1, StartSenderSafe
  <1>2. CASE Handwave  BY <1>2, HandwaveSafe
  <1>3. CASE SendData  BY <1>3, SendDataSafe
  <1>4. CASE InputEnds  BY <1>4, InputEndsSafe
  <1>5. CASE Teardown  BY <1>5, TeardownSafe
  <1>6. CASE ClearCont  BY <1>6, ClearContSafe
  <1>7. CASE JoinKeepalive  BY <1>7, JoinKeepaliveSafe
  <1>8. CASE KeepaliveTest  BY <1>8, KeepaliveTestSafe
  <1>9. CASE KeepaliveSend  BY <1>9, KeepaliveSendSafe
  <1>10. CASE Limit("send") \/ Limit("keepalive")
    <2>1. "send" \in Threads /\ "keepalive" \in Threads  BY Constants
    <2> QED  BY <1>10, <2>1, LimitActionSafe
  <1>11. CASE StartReceiver  BY <1>11, StartReceiverSafe
  <1>12. CASE Timeout  BY <1>12, TimeoutSafe
  <1>13. CASE Kill  BY <1>13, DieSafe DEF Kill
  <1>14. CASE Tick  BY <1>14, TickStepSafe
  <1>15. CASE UNCHANGED vars  BY <1>15, StutterSafe
  <1> QED
    BY <1>1, <1>2, <1>3, <1>4, <1>5, <1>6, <1>7, <1>8, <1>9, <1>10, <1>11, <1>12, <1>13, <1>14,
       <1>15, Zenon
    DEF Next, SendStep, KeepaliveStep, ReceiveStep

\* The two programs and the limiter keep PacingInv, whatever the command lines, the
\* period of the limiter, the length of a salve and what is lost.
THEOREM PacingCorrect == Spec => []PacingInv
  BY InitSafe, NextSafe, PTL DEF Spec

\* The counters of struct hgap_limiter and the state of send_loop,
\* keepalive_loop_thread and hgapr_net_reader keep their types.
THEOREM PacingTyped == Spec => []TypeOK
  <1>1. PacingInv => TypeOK  BY DEF PacingInv
  <1> QED  BY <1>1, PacingCorrect, PTL

\* A sender that got past hgap_check_config_sender reads chunks that fit into the
\* decoder, for every pair of limits the header files may set.
THEOREM AcceptedFits == Spec => []AcceptedConfigFits
  <1>1. PacingInv => AcceptedConfigFits
    <2> SUFFICES ASSUME PacingInv, Running  PROVE buf_size(conf) \in 1 .. MaxChunkSize
      BY DEF AcceptedConfigFits
    <2>1. conf \in hgap_config /\ hgap_check_config_sender(conf, TRUE) = HGAP_SUCCESS
      BY DEF PacingInv, ConfInv
    <2> DEFINE n == conf.n_pkt
               p == conf.pkt_size - HGAP_HEADER_LEN
    <2>2. n \in Nat /\ p \in Nat /\ n >= 1 /\ p >= 1
          /\ n <= HGAP_MAX_N_PKT /\ p <= HGAP_MAX_PKT_SIZE
      <3>1. /\ conf.pkt_size > HGAP_HEADER_LEN /\ conf.pkt_size <= HGAP_MAX_PKT_SIZE
            /\ conf.n_pkt >= 1 /\ conf.n_pkt <= HGAP_MAX_N_PKT
        BY <2>1, AcceptedConfig
      <3>2. conf.pkt_size \in Nat /\ conf.n_pkt \in Nat  BY <2>1 DEF hgap_config
      <3> QED  BY <3>1, <3>2, ConfigAssumption DEF HGAP_HEADER_LEN
    <2>3. buf_size(conf) = n * p  BY DEF buf_size
    <2> HIDE DEF n, p
    <2>4. n * p <= HGAP_MAX_N_PKT * HGAP_MAX_PKT_SIZE
      BY <2>2, ProductMonotone, ConfigAssumption
    <2>5. 1 * 1 <= n * p  BY <2>2, ProductMonotone
    <2>6. HGAP_MAX_N_PKT * HGAP_MAX_PKT_SIZE = MaxChunkSize
          /\ MaxChunkSize \in Nat /\ n * p \in Nat
      BY <2>2, ConfigAssumption DEF MaxChunkSize
    <2> QED  BY <2>3, <2>4, <2>5, <2>6
  <1> QED  BY <1>1, PacingCorrect, PTL

\* hgap_send returns an error if inet_addr made the broadcast address out of a name
\* that check_addr had accepted.
THEOREM SuccessIsReachable == Spec => []NoSuccessUnreachable
  <1>1. PacingInv => NoSuccessUnreachable
    BY DEF PacingInv, ConfInv, NoSuccessUnreachable
  <1> QED  BY <1>1, PacingCorrect, PTL

\* As long as the two threads do not update the counters of the limiter at once,
\* what is sent is never more than two bursts above the rate, for any period, packet
\* size and rate: one burst goes by before hgap_limiter_limit looks at the rate, and
\* the reset, which forgets what was above it, leaves at most another.
THEOREM RateIsRespected == Spec => []RateRespected
  <1>1. PacingInv => RateRespected
    <2> SUFFICES ASSUME PacingInv, conf.byterate > 0, ~raced
                 PROVE  level <= 2 * Burst * TicksPerSec
      BY DEF RateRespected
    <2>1. LimiterInv  BY LimiterParts
    <2>2. level \in Nat /\ age \in Nat /\ conf.byterate \in Nat /\ conf.pkt_size \in Nat
      BY <2>1 DEF LimiterInv, LimiterTyped, hgap_config
    <2>3. Burst \in Nat
      BY <2>2, Constants DEF Burst, BurstOf, HGAP_HEADER_LEN
    <2>4. Burst * TicksPerSec \in Nat /\ conf.byterate * age \in Nat  BY <2>2, <2>3, Constants
    <2>5. 2 * Burst * TicksPerSec = Burst * TicksPerSec + Burst * TicksPerSec
      BY <2>3, Constants
    <2>6. CASE \E t \in Threads : lpc[t] \in Resetting
      <3>1. level <= Burst * TicksPerSec  BY <2>6 DEF PacingInv, LevelInv
      <3> QED  BY <3>1, <2>2, <2>4, <2>5
    <2>7. CASE ~ \E t \in Threads : lpc[t] \in Resetting
      <3>1. Counting  BY <2>7 DEF Counting
      <3>2. Sent \in Nat /\ Sent <= Burst  BY <2>1, <3>1, SentIsBurst
      <3>3. Sent * TicksPerSec \in Nat /\ Sent * TicksPerSec <= Burst * TicksPerSec
        BY <2>3, <3>2, Constants, ProductMonotone
      <3>4. (Burst + Sent) * TicksPerSec = Burst * TicksPerSec + Sent * TicksPerSec
        BY <2>3, <3>2, Constants
      <3>5. \/ level <= Sent * TicksPerSec
            \/ level + conf.byterate * age <= (Burst + Sent) * TicksPerSec
        BY <2>7 DEF PacingInv, LevelInv
      <3> QED  BY <2>2, <2>4, <2>5, <3>3, <3>4, <3>5
    <2> QED  BY <2>6, <2>7
  <1> QED  BY <1>1, PacingCorrect, PTL

=============================================================================
