------------------------------ MODULE Wirehair ------------------------------
(***************************************************************************)
(* The wirehair library, modelled from how src/lib/encoding.c uses it: a   *)
(* rateless erasure code.  The encoder makes any number of blocks of one   *)
(* size out of a message, each with its own id; the decoder is given       *)
(* blocks until it says that the message can be computed.                  *)
(***************************************************************************)
EXTENDS Proto, FiniteSets

CONSTANTS
    WirehairMayFail,     \* the library may run out of memory
    WirehairOverhead     \* blocks beyond the minimum that surely suffice

ASSUME WirehairAssumption ==
    WirehairMayFail \in BOOLEAN /\ WirehairOverhead \in Nat

\* The outcomes of wirehair_encode, wirehair_decode and wirehair_reconstruct.
Succeeds == {TRUE} \union (IF WirehairMayFail THEN {FALSE} ELSE {})

\* What wirehair_read may answer once it has been given these blocks of bsize
\* bytes of a message of len bytes.  The first blocks are the message itself.
wirehair_read(len, bsize, blocks) ==
    LET ids == {b.id : b \in blocks}
        n == (len + bsize - 1) \div bsize
    IN  IF Cardinality(ids) < n THEN {FALSE}
        ELSE IF 0 .. n - 1 \subseteq ids \/ Cardinality(ids) >= n + WirehairOverhead
        THEN {TRUE}
        ELSE BOOLEAN

\* The message wirehair_reconstruct computes: nonsense unless all the blocks
\* were made from the same one.
wirehair_reconstruct(blocks) ==
    IF \E c \in Contents : \A b \in blocks : b.body = c
    THEN CHOOSE c \in Contents : \A b \in blocks : b.body = c
    ELSE Corrupt

=============================================================================
