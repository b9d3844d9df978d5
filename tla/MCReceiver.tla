------------------------------ MODULE MCReceiver ------------------------------
(* Instances of Receiver for TLC: a transfer of four chunks, of which the    *)
(* first needs two blocks and the others fit in a packet: one chunk more     *)
(* than may be on the way from decloop to the file.                          *)
EXTENDS Receiver

MCContents == 0 .. 3

Data(num, size, id) ==
    [num |-> num, size |-> size, id |-> id, dsize |-> 1,
     len |-> HGAP_HEADER_LEN + 1, body |-> num]

MCStream ==
    <<ControlPkt(HGAP_BEGIN_BEACON), Data(0, 2, 0), Data(0, 2, 1), ControlPkt(HGAP_KEEP_ALIVE),
      Data(0, 2, 2), Data(1, 1, 0), Data(2, 1, 0), Data(3, 1, 0),
      ControlPkt(HGAP_NO_MORE_CHUNK)>>

=============================================================================
