------------------------------ MODULE MCTransfer ------------------------------
(* Instances of Transfer for TLC.                                            *)
EXTENDS Transfer

\* The chunks of at most three chunk-long files sent by at most two runs.
MCContents == {<<r, k>> : r \in 1 .. 2, k \in 0 .. 3}

\* Two chunks of two blocks and one of a single packet, twice the packets
\* needed, one of each chunk and of each salve lost; the sender may fail.
WithinBudget ==
    [FileLen |-> 5, n_pkt |-> 2, pkt_size |-> 25, RedundNum |-> 2, RedundDen |-> 1,
     MayFail |-> TRUE,
     LinkCap |-> 1, Window |-> 1, LossBudget |-> 1, Runs |-> 1]

\* Two full chunks and the empty one that follows them, with which send_loop may go
\* on for ever; all packets of a chunk may be lost, and the sender is killed and
\* started again.
AnyLoss ==
    [FileLen |-> 4, n_pkt |-> 2, pkt_size |-> 25, RedundNum |-> 3, RedundDen |-> 2,
     MayFail |-> FALSE,
     LinkCap |-> 1, Window |-> 1, LossBudget |-> 3, Runs |-> 2]

\* Two chunks of two blocks and one of a single packet; packets in flight are
\* delivered in any order or lost.
Reordering ==
    [FileLen |-> 5, n_pkt |-> 2, pkt_size |-> 25, RedundNum |-> 3, RedundDen |-> 2,
     MayFail |-> FALSE,
     LinkCap |-> 3, Window |-> 3, LossBudget |-> 3, Runs |-> 1]

MCSetups == {WithinBudget, AnyLoss, Reordering}

\* All packets of a chunk may be lost.
Lossy == {[Reordering EXCEPT !.LinkCap = 1, !.Window = 1]}

\* A reliable link.
Reliable == {[Reordering EXCEPT !.FileLen = 3, !.LinkCap = 1, !.Window = 1, !.LossBudget = 0]}

=============================================================================
