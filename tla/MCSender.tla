------------------------------- MODULE MCSender -------------------------------
(* Sender as TLC checks it: the constants are all in the configurations.     *)
EXTENDS Sender

=============================================================================
