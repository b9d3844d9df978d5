------------------------------- MODULE Limiter -------------------------------
(***************************************************************************)
(* src/lib/limiter.c, as the two threads of hgap_send that send packets    *)
(* use it: they share one struct hgap_limiter and take no lock.            *)
(*                                                                         *)
(* A step is one load or store of a shared field.  The two additions of    *)
(* hgap_limiter_limit are loads into a register and stores out of it, so   *)
(* that an update of the other thread in between is lost, and the reset is *)
(* three stores.  (total_data_sent is only printed.)                       *)
(*                                                                         *)
(* Time is counted in ticks; instead of the date of the last reset its age *)
(* is kept.  Within a tick any number of steps happen.                     *)
(***************************************************************************)
EXTENDS Integers

CONSTANTS
    Threads,             \* who calls hgap_limiter_limit
    HLIM_CHK_PERIOD,     \* 1000
    TicksPerSec,
    PktCap, ByteCap, AgeCap     \* bounds: the counters and the age stop here

ASSUME LimiterAssumption ==
    /\ HLIM_CHK_PERIOD \in Nat
    /\ TicksPerSec \in Nat \ {0} /\ TicksPerSec <= 1000000
    /\ PktCap \in Nat /\ PktCap > HLIM_CHK_PERIOD /\ ByteCap \in Nat /\ AgeCap \in Nat

VARIABLES
    n_pkt_sent, n_bytes_sent,    \* since the last reset
    age,                         \* of that reset
    lpc,                         \* where each thread is in hgap_limiter_limit
    arg,                         \* len, the argument of its call
    reg,                         \* its register
    pkts,                        \* the packets it saw
    raced                        \* history: two threads were updating at once

lvars == <<n_pkt_sent, n_bytes_sent, age, lpc, arg, reg, pkts, raced>>

Upto(n, bound) == IF n > bound THEN bound ELSE n

LimiterInit ==
    /\ n_pkt_sent = 0 /\ n_bytes_sent = 0 /\ age = 0
    /\ lpc = [t \in Threads |-> "out"]
    /\ arg = [t \in Threads |-> 0]
    /\ reg = [t \in Threads |-> 0]
    /\ pkts = [t \in Threads |-> 0]
    /\ raced = FALSE

\* hgap_limiter_free, or the end of the process.
hgap_limiter_free ==
    /\ n_pkt_sent' = 0 /\ n_bytes_sent' = 0 /\ age' = 0
    /\ lpc' = [t \in Threads |-> "out"]
    /\ arg' = [t \in Threads |-> 0]
    /\ reg' = [t \in Threads |-> 0]
    /\ pkts' = [t \in Threads |-> 0]
    /\ UNCHANGED raced

Storing == {"store_pkt", "load_bytes", "store_bytes"}
Resetting == {"reset", "clear_pkt", "clear_bytes"}
Updating == Storing \union Resetting

\* Thread t goes on to l.
Goto(t, l) ==
    /\ lpc' = [lpc EXCEPT ![t] = l]
    /\ raced' = (raced \/ (l \in Updating /\ \E u \in Threads \ {t} : lpc[u] \in Updating))

-----------------------------------------------------------------------------
(* hgap_limiter_limit, called by t.                                        *)

\* n_pkt_sent++
LoadPkt(t, len) ==
    /\ lpc[t] = "out"
    /\ arg' = [arg EXCEPT ![t] = len]
    /\ reg' = [reg EXCEPT ![t] = n_pkt_sent]
    /\ Goto(t, "store_pkt")
    /\ UNCHANGED <<n_pkt_sent, n_bytes_sent, age, pkts>>

StorePkt(t) ==
    /\ lpc[t] = "store_pkt"
    /\ n_pkt_sent' = Upto(reg[t] + 1, PktCap)
    /\ pkts' = [pkts EXCEPT ![t] = n_pkt_sent']
    /\ Goto(t, "load_bytes")
    /\ UNCHANGED <<n_bytes_sent, age, arg, reg>>

\* n_bytes_sent += len
LoadBytes(t) ==
    /\ lpc[t] = "load_bytes"
    /\ reg' = [reg EXCEPT ![t] = n_bytes_sent]
    /\ Goto(t, "store_bytes")
    /\ UNCHANGED <<n_pkt_sent, n_bytes_sent, age, arg, pkts>>

StoreBytes(t, byterate) ==
    /\ lpc[t] = "store_bytes"
    /\ n_bytes_sent' = Upto(reg[t] + arg[t], ByteCap)
    /\ Goto(t, IF byterate # 0 /\ pkts[t] > HLIM_CHK_PERIOD THEN "rate" ELSE "out")
    /\ arg' = [arg EXCEPT ![t] = 0]
    /\ reg' = [reg EXCEPT ![t] = 0]
    /\ pkts' = [pkts EXCEPT ![t] = 0]
    /\ UNCHANGED <<n_pkt_sent, age>>

(***************************************************************************)
(* hgap_limiter_get_current_rate(hlim) > hlim->byterate.  The rate is zero *)
(* when no microsecond has passed since the reset: a sendto takes longer,  *)
(* so nothing has been sent by then.  It may be anything while the other   *)
(* thread is in the middle of a reset: the date itself is stored in two    *)
(* halves.                                                                 *)
(***************************************************************************)
RateExceeded(t, byterate) ==
    IF \E u \in Threads \ {t} : lpc[u] \in Resetting THEN BOOLEAN
    ELSE { n_bytes_sent * TicksPerSec > byterate * age }

\* Mutant: one look at the rate, and one sleep at most.
TestRate_Once(t, byterate) ==
    /\ lpc[t] = "rate"
    /\ Goto(t, "reset")
    /\ UNCHANGED <<n_pkt_sent, n_bytes_sent, age, arg, reg, pkts>>

\* Mutant: every round of the loop resets the date.
TestRate_Resets(t, byterate) ==
    /\ lpc[t] = "rate"
    /\ \E exceeded \in RateExceeded(t, byterate) :
        /\ Goto(t, IF exceeded THEN "usleep" ELSE "reset")
        /\ age' = 0
    /\ UNCHANGED <<n_pkt_sent, n_bytes_sent, arg, reg, pkts>>

TestRate(t, byterate) ==
    /\ lpc[t] = "rate"
    /\ \E exceeded \in RateExceeded(t, byterate) : Goto(t, IF exceeded THEN "usleep" ELSE "reset")
    /\ UNCHANGED <<n_pkt_sent, n_bytes_sent, age, arg, reg, pkts>>

\* hgap_limiter_reset_rate, the date first.
ResetSince(t) ==
    /\ lpc[t] = "reset"
    /\ age' = 0
    /\ Goto(t, "clear_pkt")
    /\ UNCHANGED <<n_pkt_sent, n_bytes_sent, arg, reg, pkts>>

ClearPkt(t) ==
    /\ lpc[t] = "clear_pkt"
    /\ n_pkt_sent' = 0
    /\ Goto(t, "clear_bytes")
    /\ UNCHANGED <<n_bytes_sent, age, arg, reg, pkts>>

ClearBytes(t) ==
    /\ lpc[t] = "clear_bytes"
    /\ n_bytes_sent' = 0
    /\ Goto(t, "out")
    /\ UNCHANGED <<n_pkt_sent, age, arg, reg, pkts>>

\* The steps of a call that has begun.
LimitStep(t, byterate) ==
    \/ StorePkt(t) \/ LoadBytes(t) \/ StoreBytes(t, byterate)
    \/ TestRate(t, byterate) \/ ResetSince(t) \/ ClearPkt(t) \/ ClearBytes(t)

\* A tick: whoever is in usleep(HLIM_SLEEP_PERIOD), a fraction of it, wakes up.
LimiterTick ==
    /\ age' = Upto(age + 1, AgeCap)
    /\ lpc' = [t \in Threads |-> IF lpc[t] = "usleep" THEN "rate" ELSE lpc[t]]
    /\ UNCHANGED <<n_pkt_sent, n_bytes_sent, arg, reg, pkts, raced>>

=============================================================================
