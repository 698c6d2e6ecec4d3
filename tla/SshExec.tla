------------------------------- MODULE SshExec -------------------------------
(***************************************************************************)
(* executeSSHCommand (tools/ssh.ts): one command on one host, as a promise *)
(* that the first of several callbacks settles, the close or an error of   *)
(* the command's stream, an error of the connection, or the time limit.    *)
(*                                                                         *)
(* The SSH client (ssh2) and the host are external.  As the code uses them:*)
(* the client reports ready once, answers exec by its callback, delivers a *)
(* stream's output before its close, and closes the streams of a lost or   *)
(* ended connection without an exit code.  An ended client sends no new    *)
(* command.  The host works on by itself whatever becomes of the client.   *)
(***************************************************************************)
EXTENDS Naturals

CONSTANTS
    Call,       \* the executions
    Limit,      \* outputLimit, in bytes
    Chunk,      \* the sizes of chunks a stream delivers
    MaxOutput   \* bound on the bytes a command writes

ASSUME OutputAssumption ==
    /\ Limit \in Nat
    /\ Chunk \subseteq Nat \ {0}
    /\ MaxOutput \in Nat

VARIABLES
    conn,    \* each execution's client and promise
    remote   \* what the host has done of its command

execVars == <<conn, remote>>

Stream == {"stdout", "stderr"}
Client == {"none", "connecting", "opening", "streaming", "closed"}
Outcome == {"pending", "exit0", "exitOther", "error"}
Remote == {"none", "asked", "refused", "running", "zero", "other", "simulated"}

NoOutput == [s \in Stream |-> 0]
NoConnection == [client |-> "none", outcome |-> "pending", kept |-> NoOutput,
                 seen |-> NoOutput, truncated |-> FALSE]

Total(output) == output["stdout"] + output["stderr"]

\* finish: the promise keeps its first outcome, and its timer is cleared.
Finish(r, outcome) ==
    IF r.outcome = "pending" THEN [r EXCEPT !.outcome = outcome] ELSE r

\* append: a chunk of n bytes of stream s.
\* mutant: only what is captured of stdout counts
StdoutRemaining(r) ==
    IF r.kept["stdout"] < Limit THEN Limit - r.kept["stdout"] ELSE 0

Remaining(r) == IF Total(r.kept) < Limit THEN Limit - Total(r.kept) ELSE 0
Captured(r, n) == IF n <= Remaining(r) THEN n ELSE Remaining(r)
Capture(r, s, n) ==
    [r EXCEPT !.seen[s] = @ + n,
              !.kept[s] = @ + Captured(r, n),
              !.truncated = @ \/ Captured(r, n) < n]

ExecInit ==
    /\ conn = [c \in Call |-> NoConnection]
    /\ remote = [c \in Call |-> "none"]

-----------------------------------------------------------------------------
\* A call of executeSSHCommand: the simulator answers at once, with exit code 0.
Simulate(c) ==
    /\ conn' = [conn EXCEPT ![c] = Finish(@, "exit0")]
    /\ remote' = [remote EXCEPT ![c] = "simulated"]

Connect(c) ==
    /\ conn' = [conn EXCEPT ![c].client = "connecting"]
    /\ UNCHANGED remote

\* The connection is ready, and the command is requested.
Ready(c) ==
    /\ conn[c].client = "connecting"
    /\ conn[c].outcome = "pending"
    /\ conn' = [conn EXCEPT ![c].client = "opening"]
    /\ remote' = [remote EXCEPT ![c] = "asked"]

\* The callback of exec, with a stream or with an error.
Opened(c) ==
    /\ conn[c].client = "opening"
    /\ remote[c] \in {"running", "zero", "other"}
    /\ conn' = [conn EXCEPT ![c].client = "streaming"]
    /\ UNCHANGED remote

OpenFails(c) ==
    /\ conn[c].client = "opening"
    /\ conn' = [conn EXCEPT ![c] = Finish([@ EXCEPT !.client = "closed"], "error")]
    /\ UNCHANGED remote

\* A chunk of output.  What arrives after the promise has settled changes
\* only buffers nobody reads.
Data(c, s, n) ==
    /\ conn[c].client = "streaming"
    /\ conn[c].outcome = "pending"
    /\ Total(conn[c].seen) + n <= MaxOutput
    /\ conn' = [conn EXCEPT ![c] = Capture(@, s, n)]
    /\ UNCHANGED remote

\* mutant: a missing exit code counts as success
MissingCodeIsSuccess(c) ==
    /\ conn[c].client = "streaming"
    /\ \E outcome \in {"exit0", "exitOther"} :
          /\ outcome = "exit0" => remote[c] \in {"running", "zero"}
          /\ conn' = [conn EXCEPT ![c] = Finish([@ EXCEPT !.client = "closed"], outcome)]
    /\ UNCHANGED remote

\* The stream closes with the command's exit code, or without one.
StreamClose(c) ==
    /\ conn[c].client = "streaming"
    /\ \E outcome \in {"exit0", "exitOther"} :
          /\ outcome = "exit0" => remote[c] = "zero"
          /\ conn' = [conn EXCEPT ![c] = Finish([@ EXCEPT !.client = "closed"], outcome)]
    /\ UNCHANGED remote

StreamError(c) ==
    /\ conn[c].client = "streaming"
    /\ conn' = [conn EXCEPT ![c] = Finish(@, "error")]
    /\ UNCHANGED remote

\* The connection fails: refused, wrong host key, no answer, or lost.
ClientError(c) ==
    /\ conn[c].client \in {"connecting", "opening", "streaming"}
    /\ conn' = [conn EXCEPT ![c] = Finish([@ EXCEPT !.client = "closed"], "error")]
    /\ UNCHANGED remote

\* mutant: the timer is cleared when the connection is ready
ConnectLimit(c) ==
    /\ conn[c].client = "connecting"
    /\ conn[c].outcome = "pending"
    /\ conn' = [conn EXCEPT ![c] = Finish(@, "error")]
    /\ UNCHANGED remote

\* The timer, armed until the promise settles.
TimeLimit(c) ==
    /\ conn[c].client # "none"
    /\ conn[c].outcome = "pending"
    /\ conn' = [conn EXCEPT ![c] = Finish(@, "error")]
    /\ UNCHANGED remote

\* The host, external.
HostSteps == {<<"asked", "running">>, <<"asked", "refused">>,
              <<"running", "zero">>, <<"running", "other">>}
HostWorks(c) ==
    /\ \E step \in HostSteps : /\ remote[c] = step[1]
                               /\ remote' = [remote EXCEPT ![c] = step[2]]
    /\ UNCHANGED conn

\* Everything an execution does after it has begun.
Callback(c) ==
    \/ Ready(c)
    \/ Opened(c)
    \/ OpenFails(c)
    \/ \E s \in Stream, n \in Chunk : Data(c, s, n)
    \/ StreamClose(c)
    \/ StreamError(c)
    \/ ClientError(c)
    \/ TimeLimit(c)
    \/ HostWorks(c)

-----------------------------------------------------------------------------
ExecTypeOK ==
    /\ conn \in [Call -> [client : Client, outcome : Outcome,
                          kept : [Stream -> Nat], seen : [Stream -> Nat],
                          truncated : BOOLEAN]]
    /\ remote \in [Call -> Remote]

\* However the output is split over chunks and the two streams, what is
\* captured is as much as the limit allows, and truncated says whether
\* anything was left out (append, tools/ssh.ts).
OutputAccounted ==
    \A c \in Call :
        LET r == conn[c] IN
        /\ Total(r.kept) = (IF Total(r.seen) <= Limit THEN Total(r.seen) ELSE Limit)
        /\ \A s \in Stream : r.kept[s] <= r.seen[s]
        /\ r.truncated <=> Total(r.seen) > Limit
=============================================================================
