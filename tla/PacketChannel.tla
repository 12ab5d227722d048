--------------------------- MODULE PacketChannel ---------------------------
(***************************************************************************)
(* What the framing layer promises: a request/response channel of logical *)
(* packets, identified by their lengths.  One request is outstanding at a *)
(* time; the server takes requests whole and in order, and the client     *)
(* gets each reply whole and in order, until the connection breaks.       *)
(***************************************************************************)
EXTENDS Integers, Sequences

CONSTANTS Commands, Responses, MaxCmds

VARIABLES reqs, served, resps, answered, broken

vars == <<reqs, served, resps, answered, broken>>

Init ==
    /\ reqs = <<>> /\ served = <<>> /\ resps = <<>> /\ answered = <<>>
    /\ broken = FALSE

\* The client sends a request once the previous one was answered.
Send(p) ==
    /\ ~broken /\ Len(reqs) = Len(answered) /\ Len(reqs) < MaxCmds
    /\ reqs' = Append(reqs, p)
    /\ UNCHANGED <<served, resps, answered, broken>>

\* The server takes the next request as it was sent.
Serve ==
    /\ Len(served) < Len(reqs)
    /\ served' = Append(served, reqs[Len(served) + 1])
    /\ UNCHANGED <<reqs, resps, answered, broken>>

\* The server replies to the request it took.
Reply(r) ==
    /\ Len(resps) < Len(served)
    /\ resps' = Append(resps, r)
    /\ UNCHANGED <<reqs, served, answered, broken>>

\* The client gets the next reply as it was sent.
Answer ==
    /\ ~broken /\ Len(answered) < Len(resps)
    /\ answered' = Append(answered, resps[Len(answered) + 1])
    /\ UNCHANGED <<reqs, served, resps, broken>>

Fail ==
    /\ ~broken /\ broken' = TRUE
    /\ UNCHANGED <<reqs, served, resps, answered>>

Next ==
    \/ \E p \in Commands : Send(p)
    \/ Serve
    \/ \E r \in Responses : Reply(r)
    \/ Answer
    \/ Fail

Spec == Init /\ [][Next]_vars
=============================================================================
