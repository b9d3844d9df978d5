------------------------------- MODULE MCPacing -------------------------------
(* Instances of Pacing for TLC.                                              *)
EXTENDS Pacing

\* No option at all.
NoneS == [b |-> NULL, r |-> NULL, N |-> NULL, M |-> NULL, k |-> NULL, addr |-> "ip"]
NoneR == [t |-> NULL, m |-> NULL, addr |-> "ip"]

\* Command lines that are turned down, or cannot reach anybody.
Misused ==
    { [NoneS EXCEPT !.M = 24], [NoneS EXCEPT !.M = 1501],
      [NoneS EXCEPT !.N = 0], [NoneS EXCEPT !.N = 70000],
      [NoneS EXCEPT !.r = <<9, 10>>],
      [NoneS EXCEPT !.addr = "any"], [NoneS EXCEPT !.addr = "host"],
      [NoneS EXCEPT !.addr = "bad"], [NoneS EXCEPT !.addr = NULL] }

\* A rate of 128 bytes per second, in small packets.
Limited == [NoneS EXCEPT !.b = <<1, 8192>>, !.M = 48]

\* A rate, and a timeout that is long enough for lost keepalives; the same without
\* keepalives, and what the user gets who asks for four seconds; a period that is
\* not a number of seconds; the largest chunks, and no timeout; receivers without
\* memory or address.
MCCommands ==
    (Misused \X {NoneR})
    \union ({[NoneS EXCEPT !.k = 0]} \X { [NoneR EXCEPT !.m = 0],
                [NoneR EXCEPT !.addr = "host"], [NoneR EXCEPT !.addr = "bad"] })
    \union { <<Limited, [NoneR EXCEPT !.t = 4100000]>>,
             <<[Limited EXCEPT !.k = 0], [NoneR EXCEPT !.t = 4]>>,
             <<NoneS, [NoneR EXCEPT !.t = 1500000, !.m = 1]>>,
             <<[NoneS EXCEPT !.k = 1500], [NoneR EXCEPT !.t = 2500000]>>,
             <<[NoneS EXCEPT !.M = 1500, !.N = 64000, !.k = 0], [NoneR EXCEPT !.t = 0]>> }

\* A low rate, and the default timeout of twice the default keepalive period.
RateLimited == {<<Limited, NoneR>>}

=============================================================================
