-------------------------------- MODULE Proto --------------------------------
(***************************************************************************)
(* src/lib/proto.h and proto.c: the packets on the wire, and the error     *)
(* codes of hairgap.h that the threads of a transfer return.               *)
(*                                                                         *)
(* A packet is its header, the number of bytes that were received, and     *)
(* what its payload was computed from: the content of a chunk, of which it *)
(* is the block named by the header's data_id.                             *)
(***************************************************************************)
EXTENDS Integers

CONSTANTS
    NumModulus,   \* chunk_num is unsigned and counts modulo this (2^64 in C)
    Contents,     \* what a chunk may contain
    NULL,         \* the null pointer
    Corrupt       \* a payload, or a decoded chunk, made of unrelated bytes

ASSUME NumModulusAssumption == NumModulus \in Nat /\ NumModulus > 16
ASSUME ContentsAssumption == NULL \notin Contents /\ Corrupt \notin Contents /\ NULL # Corrupt

HGAP_NO_MORE_CHUNK  == NumModulus - 1
HGAP_BEGIN_BEACON   == NumModulus - 2
HGAP_KEEP_ALIVE     == NumModulus - 3
HGAP_FIRST_RESERVED == NumModulus - 16

HGAP_HEADER_LEN == 24

\* hgap_header_begin, hgap_header_end and hgap_header_keepalive, written out.
ControlPkt(num) ==
    [num |-> num, size |-> 0, id |-> 0, dsize |-> 0,
     len |-> HGAP_HEADER_LEN, body |-> NULL]

\* What a payload, or a decoded chunk, may be made of.
Bodies == Contents \union {NULL, Corrupt}

\* What hgap_pkt_parse may find in a buffer: unsigned numbers, whoever sent them.
Packet ==
    [num : 0 .. NumModulus - 1, size : Nat, id : Nat, dsize : Nat, len : Nat, body : Bodies]

hgap_pkt_type(pkt) ==
    IF pkt.len < HGAP_HEADER_LEN THEN "unknown"
    ELSE CASE pkt.num = HGAP_BEGIN_BEACON   -> "begin"
           [] pkt.num = HGAP_NO_MORE_CHUNK  -> "end"
           [] pkt.num = HGAP_KEEP_ALIVE     -> "keepalive"
           [] pkt.num < HGAP_FIRST_RESERVED -> "data"
           [] OTHER                         -> "unknown"

\* recvfrom into a buffer of mtu bytes: what does not fit is dropped, and the
\* missing end of the payload is whatever the buffer held before.
Received(pkt, mtu) ==
    IF pkt.len <= mtu THEN pkt ELSE [pkt EXCEPT !.len = mtu, !.body = Corrupt]

-----------------------------------------------------------------------------
(* The enumeration of hairgap.h, as far as the threads use it.             *)

HGAP_SUCCESS              == 0
HGAP_EOT                  == 1
HGAP_ERR_BAD_OUT_FD       == 8
HGAP_ERR_FILE_READ        == 9
HGAP_ERR_WIREHAIR_ERROR   == 12
HGAP_ERR_BUFFER_TOO_SMALL == 13
HGAP_ERR_INCOMPLETE_CHUNK == 14
HGAP_ERR_BAD_CHUNK        == 15
HGAP_ERR_TIMEOUT          == 17
HGAP_ERR_NETWORK          == 18
HGAP_ERR_IPC              == 19

HGAP_SELECT_ERROR(e1, e2) ==
    IF e1 = HGAP_SUCCESS THEN e2
    ELSE IF e2 = HGAP_SUCCESS THEN e1
    ELSE IF e1 < e2 THEN e1 ELSE e2

=============================================================================
