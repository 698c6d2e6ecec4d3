------------------------------ MODULE MCLoopRun ------------------------------
(* Two definitions of a Loop.                                              *)
EXTENDS LoopRun

\* A check that is repeated once, an approval, the operation it gates, and
\* the verification of its outcome.
SequenceNode == 1 .. 5
SequenceKind == <<"leaf", "approval", "leaf", "verify", "finalize">>
SequenceAbove == [n \in SequenceNode |-> 1 .. (n - 1)]
SequenceStepId == <<"check", "approve", "operate", "verify", "finalize">>
SequenceRetries == <<1, 0, 0, 0, 0>>

\* A parallel step: an approval and the operation it gates, beside an approval.
ParallelNode == 1 .. 6
ParallelKind == <<"start", "approval", "leaf", "approval", "join", "finalize">>
ParallelAbove == <<{}, {1}, {1, 2}, {1}, 1 .. 4, 1 .. 5>>
ParallelStepId == <<"parallel", "approveA", "operateA", "approveB", "parallel",
                    "finalize">>
ParallelRetries == [n \in ParallelNode |-> 0]
=============================================================================
