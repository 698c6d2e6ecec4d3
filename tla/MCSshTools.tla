------------------------------ MODULE MCSshTools ------------------------------
(* One call at a time, of either tool or the connection test.              *)
EXTENDS SshTools

CONSTANTS c1, host1, simulated, disk, restart, good, bad, test

MCSimText == [id \in {restart} |-> good]
=============================================================================
