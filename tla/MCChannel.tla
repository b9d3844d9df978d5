------------------------------ MODULE MCChannel ------------------------------
(* Channel as TLC checks it.  The contents of the elements are               *)
(* interchangeable, but liveness is checked, so symmetry is not used: the    *)
(* state space is small enough without it.                                   *)
EXTENDS Channel

=============================================================================
