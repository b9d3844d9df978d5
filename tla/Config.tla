-------------------------------- MODULE Config --------------------------------
(***************************************************************************)
(* struct hgap_config: the defaults and the checks of src/lib/config.c,    *)
(* what the options of hairgaps.c and hairgapr.c put into it, and what     *)
(* hgap_send, hgap_receive and sender.c compute from it.                   *)
(*                                                                         *)
(* An option that was not given is NULL.  A rate and a redundancy are      *)
(* fractions <<num, den>>.  An address is one of four kinds: "ip" in       *)
(* dotted notation, "any" (0.0.0.0), "host" (a name that resolves) and     *)
(* "bad" (one that does not).                                              *)
(***************************************************************************)
EXTENDS Proto

CONSTANTS
    HGAP_MAX_PKT_SIZE,     \* 1500
    HGAP_MAX_N_PKT,        \* 64000
    Mega                   \* 1024 * 1024

ASSUME ConfigAssumption ==
    /\ HGAP_MAX_PKT_SIZE \in Nat /\ HGAP_MAX_N_PKT \in Nat
    /\ Mega \in Nat /\ Mega >= 2 * (HGAP_MAX_PKT_SIZE + 16)

MaxChunkSize == HGAP_MAX_PKT_SIZE * HGAP_MAX_N_PKT

HGAP_ERR_MTU_TOO_SMALL == 3
HGAP_ERR_MTU_TOO_BIG   == 4
HGAP_ERR_INVALID_ADDR  == 5
HGAP_ERR_BAD_IN_FD     == 7
HGAP_ERR_BAD_N_PKT     == 10
HGAP_ERR_BAD_REDUND    == 11

-----------------------------------------------------------------------------
(* The options.                                                            *)

HGAP_DEF_N_PKT     == 1000
HGAP_DEF_PKT_SIZE  == 1400
HGAP_DEF_REDUND    == <<12, 10>>
HGAP_DEF_ADDR      == NULL
HGAP_DEF_BYTERATE  == 0
HGAP_DEF_KEEPALIVE == 500            \* milliseconds
HGAP_DEF_TIMEOUT   == 1000000        \* microseconds
HGAP_DEF_MEM_LIMIT == 100 * Mega

hgap_defaults ==
    [n_pkt |-> HGAP_DEF_N_PKT, pkt_size |-> HGAP_DEF_PKT_SIZE, redund |-> HGAP_DEF_REDUND,
     addr |-> HGAP_DEF_ADDR, byterate |-> HGAP_DEF_BYTERATE, keepalive |-> HGAP_DEF_KEEPALIVE,
     timeout |-> HGAP_DEF_TIMEOUT, mem_limit |-> HGAP_DEF_MEM_LIMIT]

\* What getopt leaves: numbers that the unsigned fields can hold, and rates.
Number == Nat \union {NULL}
Fraction == Nat \X (Nat \ {0})
Address == {"ip", "any", "host", "bad", NULL}
SenderOptions ==
    [b : Fraction \union {NULL}, r : Fraction \union {NULL}, N : Number, M : Number, k : Number,
     addr : Address]
ReceiverOptions == [t : Number, m : Number, addr : Address]

\* struct hgap_config.
hgap_config ==
    [n_pkt : Nat, pkt_size : Nat, redund : Fraction, addr : Address, byterate : Nat,
     keepalive : Nat, timeout : Nat, mem_limit : Nat]

Given(option, default) == IF option = NULL THEN default ELSE option

\* main of hairgaps.c.  hgap_sender_new takes the byterate as an integer.
SenderConfig(o) ==
    [hgap_defaults EXCEPT
        !.byterate  = IF o.b = NULL THEN @ ELSE (o.b[1] * Mega) \div o.b[2],
        !.redund    = Given(o.r, @),
        !.n_pkt     = Given(o.N, @),
        !.pkt_size  = Given(o.M, @),
        !.keepalive = Given(o.k, @),
        !.addr      = o.addr]

\* main of hairgapr.c: there is no option for pkt_size, and -t is stored as it is
\* in a field that counts microseconds.
ReceiverConfig(o) ==
    [hgap_defaults EXCEPT
        !.timeout   = Given(o.t, @),
        !.mem_limit = IF o.m = NULL THEN @ ELSE o.m * Mega,
        !.addr      = o.addr]

-----------------------------------------------------------------------------
(* The checks.                                                             *)

check_addr(addr) ==
    IF addr \in {"ip", "any", "host"} THEN HGAP_SUCCESS ELSE HGAP_ERR_INVALID_ADDR

\* Mutant: the number of packets is not looked at.
hgap_check_config_sender_AnyN(c, good_in) ==
    CASE c.pkt_size <= HGAP_HEADER_LEN  -> HGAP_ERR_MTU_TOO_SMALL
      [] c.pkt_size > HGAP_MAX_PKT_SIZE -> HGAP_ERR_MTU_TOO_BIG
      [] OTHER                          -> check_addr(c.addr)

\* good_in: the input file is open and has met no error.
hgap_check_config_sender(c, good_in) ==
    IF c.pkt_size <= HGAP_HEADER_LEN THEN HGAP_ERR_MTU_TOO_SMALL
    ELSE IF c.pkt_size > HGAP_MAX_PKT_SIZE THEN HGAP_ERR_MTU_TOO_BIG
    ELSE IF check_addr(c.addr) # HGAP_SUCCESS THEN check_addr(c.addr)
    ELSE IF ~good_in THEN HGAP_ERR_BAD_IN_FD
    ELSE IF c.n_pkt < 1 \/ c.n_pkt > HGAP_MAX_N_PKT THEN HGAP_ERR_BAD_N_PKT
    ELSE IF c.redund[1] < c.redund[2] THEN HGAP_ERR_BAD_REDUND
    ELSE HGAP_SUCCESS

hgap_check_config_receiver(c, good_out) ==
    IF ~good_out THEN HGAP_ERR_BAD_OUT_FD ELSE check_addr(c.addr)

-----------------------------------------------------------------------------
(* What is computed from a configuration.                                  *)

\* buf_size of hgap_send: the bytes read for a chunk.
buf_size(c) == c.n_pkt * (c.pkt_size - HGAP_HEADER_LEN)

\* Mutant: a slot is as large as a chunk.
pkt_chan_size_Chunks(c) == (c.mem_limit \div 2) \div MaxChunkSize

\* hgap_receive: a slot of chan_net2dec is a struct sized_buf (two words) and a
\* packet, and the channel gets half of the memory.
pkt_chan_size(c) == (c.mem_limit \div 2) \div (16 + c.pkt_size)

\* The time keepalive_loop_thread sleeps, in microseconds: sleep takes whole seconds.
keepalive_us(c) ==
    IF c.keepalive >= 1000 THEN (c.keepalive \div 1000) * 1000000 ELSE c.keepalive * 1000

\* inet_addr in hgap_sender_new: a name makes it return INADDR_NONE, which is the
\* broadcast address and not the value, zero, that the code tests for.
Destination(addr) ==
    CASE addr = "ip" -> "receiver" [] addr = "any" -> NULL [] OTHER -> "broadcast"

\* hgapr_open_udp_socket, where the test is for INADDR_NONE.
SocketOpens(addr) == addr \in {"ip", "any"}

=============================================================================
