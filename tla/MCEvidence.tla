------------------------------ MODULE MCEvidence ------------------------------
(* A conversation with two results of one trace, one of them suspect, and  *)
(* a third that is only found in its old messages.                         *)
EXTENDS Evidence, TLC

CONSTANTS log, page, old, r1, r2, u1, u2, v1

MCItems == {log, page, old}
MCTrace == [i \in MCItems |-> IF i = old THEN "history" ELSE "run"]
MCTwoTrace == [i \in {log, page} |-> "run"]
MCOneTrace == [i \in {page} |-> "run"]
MCOneTraceLog == [i \in {log} |-> "run"]
=============================================================================
