------------------------------ MODULE MCRuntime ------------------------------
(* Instances of Runtime: one pin and two bytes make every pair of requests meet. *)
EXTENDS Runtime

\* A program that leaves the TextIO interrupt alone once it has enabled it.
EnableOnce == want.enabled => pc'.fg \notin {"setRead", "setWrite"}
EchoSpec == Init /\ [][Next /\ EnableOnce]_vars
=============================================================================
