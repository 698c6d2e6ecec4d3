----------------------------- MODULE CommandAudit -----------------------------
(***************************************************************************)
(* What the security audit of SSH commands promises: a command is asked of *)
(* a host only after its evaluation, a decision that is not a denial, and  *)
(* its start have been recorded, in this order, and before its end is.     *)
(***************************************************************************)
CONSTANT Call

VARIABLES
    stage,  \* how far each call's record has come
    asked   \* whether a host has been asked to run its command

vars == <<stage, asked>>

Stage == {"new", "evaluated", "denied", "cleared", "started", "ended"}

Init ==
    /\ stage = [c \in Call |-> "new"]
    /\ asked = [c \in Call |-> FALSE]

Record(c, from, to) ==
    /\ stage[c] = from
    /\ stage' = [stage EXCEPT ![c] = to]
    /\ UNCHANGED asked

Ask(c) ==
    /\ stage[c] = "started"
    /\ ~asked[c]
    /\ asked' = [asked EXCEPT ![c] = TRUE]
    /\ UNCHANGED stage

Next ==
    \E c \in Call :
        \/ Record(c, "new", "evaluated")
        \/ Record(c, "evaluated", "denied")
        \/ Record(c, "evaluated", "cleared")
        \/ Record(c, "cleared", "started")
        \/ Ask(c)
        \/ Record(c, "started", "ended")

Spec == Init /\ [][Next]_vars
=============================================================================
