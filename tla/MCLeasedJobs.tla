---------------------------- MODULE MCLeasedJobs ----------------------------
(* Instances of LeasedJobs for TLC.                                         *)
EXTENDS LeasedJobs

CONSTANTS j1, j2, w1, w3, host

\* Two invocations that lease under one host name and one launched by wake-up.
MCOwnerOf == [w \in Worker |-> host]
=============================================================================
