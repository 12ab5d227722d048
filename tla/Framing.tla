------------------------------ MODULE Framing ------------------------------
(***************************************************************************)
(* Packet framing of conn.go: writePacket, readPacketTo and the shared     *)
(* sequence counter c.seq, for one Conn talking to the primary over one    *)
(* TCP connection.  The Conn runs command/response cycles: resetSequence,  *)
(* writePacket of the command, then readPacketTo of the reply.  The        *)
(* primary is the environment: it reassembles the command and answers      *)
(* with one logical packet, fragmented the way the protocol prescribes.    *)
(*                                                                         *)
(* A payload is its length; a fragment on the wire is its header, the     *)
(* length and the sequence byte.  maxPayloadLength (2^24 - 1) is          *)
(* MaxPayload and the uint8 counter wraps at SeqMod (256 in the code):    *)
(* fragmentation and wrap depend only on lengths modulo those bounds.     *)
(***************************************************************************)
EXTENDS Integers, Sequences

CONSTANTS
    MaxPayload,   \* maxPayloadLength
    SeqMod,       \* the sequence counter counts modulo SeqMod
    Commands,     \* lengths of the command payloads the Conn sends
    Responses,    \* lengths of the replies the primary sends
    MaxCmds       \* command/response cycles per connection

ASSUME MaxPayload >= 1 /\ SeqMod >= 2 /\ Commands \subseteq 1..(3 * MaxPayload)

VARIABLES
    cseq,      \* c.seq
    cpc,       \* Conn: "idle", "write", "read", "failed" or "closed"
    cur,       \* the payload length writePacket was given
    wrem,      \* payloadLength still to write in writePacket
    racc,      \* bytes copied into the reader's buffer so far
    err,       \* the Conn's error: "none", "io", "length" or "sequence"
    toServer,  \* fragments in flight from the Conn
    toClient,  \* fragments in flight to the Conn
    sseq,      \* the primary's sequence counter
    spc,       \* primary: "read", "write" or "failed"
    sacc,      \* the primary's reassembly buffer, or its reply still to send
    reply,     \* the length of the primary's current reply
    cmds,      \* commands whose last fragment the Conn wrote
    scmds,     \* commands the primary reassembled
    sresps,    \* replies whose last fragment the primary wrote
    got        \* payloads readPacket returned

vars == <<cseq, cpc, cur, wrem, racc, err, toServer, toClient, sseq, spc, sacc,
          reply, cmds, scmds, sresps, got>>

Frag(len, seq) == [len |-> len, seq |-> seq]

TypeOK ==
    /\ cseq \in 0..(SeqMod - 1) /\ sseq \in 0..(SeqMod - 1)
    /\ cpc \in {"idle", "write", "read", "failed", "closed"}
    /\ spc \in {"read", "write", "failed"}
    /\ err \in {"none", "io", "length", "sequence"}
    /\ cur \in {0} \cup Commands /\ wrem \in Nat /\ racc \in Nat
    /\ sacc \in Nat /\ reply \in {0} \cup Responses
    /\ toServer \in Seq([len : 0..MaxPayload, seq : 0..(SeqMod - 1)])
    /\ toClient \in Seq([len : 0..MaxPayload, seq : 0..(SeqMod - 1)])

Init ==
    /\ cseq = 0 /\ cpc = "idle" /\ cur = 0 /\ wrem = 0 /\ racc = 0 /\ err = "none"
    /\ toServer = <<>> /\ toClient = <<>>
    /\ sseq = 0 /\ spc = "read" /\ sacc = 0 /\ reply = 0
    /\ cmds = <<>> /\ scmds = <<>> /\ sresps = <<>> /\ got = <<>>

----------------------------------------------------------------------------
(* The Conn *)

\* Mutant of NextSeq: the counter is not kept to its width.
NextSeqUnwrapped(s) == s + 1

\* c.seq = c.seq + 1 on a uint8.
NextSeq(s) == (s + 1) % SeqMod

\* Mutant of FullFragment: the loop runs only while payloadLength > max.
FullFragmentStrict(n) == n > MaxPayload

\* writePacket's loop condition: payloadLength >= maxPayloadLength.
FullFragment(n) == n >= MaxPayload

\* Mutant of Copied: each fragment replaces the buffer.
CopiedOverwrite(f) == f.len

\* io.CopyN(w, c.br, payloadLength) appends the fragment to the buffer.
Copied(f) == racc + f.len

ConnVars == <<cseq, cpc, cur, wrem, racc, err, cmds, got>>
ServerVars == <<sseq, spc, sacc, reply, scmds, sresps>>

\* Mutant of StartCommand: the command is written without resetSequence.
StartCommandNoReset(p) ==
    /\ cpc = "idle" /\ Len(cmds) < MaxCmds
    /\ cur' = p /\ wrem' = p /\ cpc' = "write"
    /\ UNCHANGED <<cseq, racc, err, cmds, got, toServer, toClient, ServerVars>>

\* writeCommand: resetSequence, then writePacket of a p-byte payload.
StartCommand(p) ==
    /\ cpc = "idle" /\ Len(cmds) < MaxCmds
    /\ cseq' = 0 /\ cur' = p /\ wrem' = p /\ cpc' = "write"
    /\ UNCHANGED <<racc, err, cmds, got, toServer, toClient, ServerVars>>

(***************************************************************************)
(* One iteration of writePacket's loop, or its final write: a fragment of *)
(* maxPayloadLength while payloadLength >= maxPayloadLength, then the      *)
(* rest, which is empty when the payload is an exact multiple.  The last  *)
(* write returns, and the caller goes on to read the reply.                *)
(***************************************************************************)
WriteFragment ==
    /\ cpc = "write"
    /\ cseq' = NextSeq(cseq)
    /\ IF FullFragment(wrem)
       THEN /\ toServer' = Append(toServer, Frag(MaxPayload, cseq))
            /\ wrem' = wrem - MaxPayload /\ UNCHANGED <<cpc, cmds, racc>>
       ELSE /\ toServer' = Append(toServer, Frag(wrem, cseq))
            /\ wrem' = 0 /\ cpc' = "read" /\ racc' = 0
            /\ cmds' = Append(cmds, cur)
    /\ UNCHANGED <<cur, err, got, toClient, ServerVars>>

(***************************************************************************)
(* One call of readPacketTo on the next fragment: a zero length fails     *)
(* before the sequence is looked at, a sequence other than c.seq fails,   *)
(* else c.seq advances and the payload is copied; a fragment shorter than *)
(* maxPayloadLength ends the logical packet, a full one recurses.         *)
(***************************************************************************)
ReadFragment ==
    /\ cpc = "read" /\ toClient # <<>>
    /\ toClient' = Tail(toClient)
    /\ LET f == Head(toClient) IN
       CASE f.len < 1 ->
              cpc' = "failed" /\ err' = "length" /\ UNCHANGED <<cseq, racc, got>>
         [] f.seq # cseq ->
              cpc' = "failed" /\ err' = "sequence" /\ UNCHANGED <<cseq, racc, got>>
         [] f.len < MaxPayload ->
              /\ cseq' = NextSeq(cseq) /\ racc' = 0 /\ cpc' = "idle"
              /\ got' = Append(got, Copied(f)) /\ UNCHANGED err
         [] OTHER ->
              /\ cseq' = NextSeq(cseq) /\ racc' = Copied(f)
              /\ UNCHANGED <<cpc, err, got>>
    /\ UNCHANGED <<cur, wrem, cmds, toServer, ServerVars>>

\* A socket read or write fails (the connection breaks, or a deadline
\* passes): writePacket and readPacketTo return the error.
Break ==
    /\ cpc \in {"write", "read"}
    /\ cpc' = "failed" /\ err' = "io"
    /\ UNCHANGED <<cseq, cur, wrem, racc, cmds, got, toServer, toClient,
                   ServerVars>>

\* close: c.seq = 0 and the socket is closed, after the last cycle or an
\* error.
Close ==
    /\ \/ cpc = "failed"
       \/ cpc = "idle" /\ Len(cmds) = MaxCmds
    /\ cseq' = 0 /\ cpc' = "closed"
    /\ UNCHANGED <<cur, wrem, racc, err, cmds, got, toServer, toClient,
                   ServerVars>>

----------------------------------------------------------------------------
(* The primary: it checks sequences the same way, fragments its reply as *)
(* the protocol prescribes (the loop of writePacket), and starts counting *)
(* from 0 again for the next command.                                     *)

ServerRead ==
    /\ spc = "read" /\ toServer # <<>>
    /\ toServer' = Tail(toServer)
    /\ LET f == Head(toServer) IN
       CASE f.seq # sseq -> spc' = "failed" /\ UNCHANGED <<sseq, sacc, reply, scmds>>
         [] f.len < MaxPayload ->
              /\ sseq' = (sseq + 1) % SeqMod
              /\ scmds' = Append(scmds, sacc + f.len)
              /\ \E r \in Responses : sacc' = r /\ reply' = r
              /\ spc' = "write"
         [] OTHER ->
              /\ sseq' = (sseq + 1) % SeqMod /\ sacc' = sacc + f.len
              /\ UNCHANGED <<spc, reply, scmds>>
    /\ UNCHANGED <<toClient, sresps, ConnVars>>

ServerWrite ==
    /\ spc = "write"
    /\ IF sacc >= MaxPayload
       THEN /\ toClient' = Append(toClient, Frag(MaxPayload, sseq))
            /\ sseq' = (sseq + 1) % SeqMod /\ sacc' = sacc - MaxPayload
            /\ UNCHANGED <<spc, sresps>>
       ELSE /\ toClient' = Append(toClient, Frag(sacc, sseq))
            /\ sseq' = 0 /\ sacc' = 0 /\ spc' = "read"
            /\ sresps' = Append(sresps, reply)
    /\ UNCHANGED <<reply, scmds, toServer, ConnVars>>

Next ==
    \/ \E p \in Commands : StartCommand(p)
    \/ WriteFragment \/ ReadFragment \/ Break \/ Close
    \/ ServerRead \/ ServerWrite

\* The runtime schedules the Conn's goroutine and TCP delivers what was
\* written; starting a command and a network failure are never forced.
Fairness ==
    /\ WF_vars(WriteFragment) /\ WF_vars(ReadFragment) /\ WF_vars(Close)
    /\ WF_vars(ServerRead) /\ WF_vars(ServerWrite)

Spec == Init /\ [][Next]_vars /\ Fairness

----------------------------------------------------------------------------
(* Properties *)

(***************************************************************************)
(* Without a short or failed socket operation, neither side ever reports a *)
(* framing error: the Conn's resetSequence, the per-fragment increments of *)
(* writePacket and readPacketTo, and the uint8 wrap keep c.seq in step     *)
(* with the primary's counter across fragmented commands and replies.      *)
(***************************************************************************)
FramingErrorFree == err \notin {"length", "sequence"} /\ spc # "failed"

(***************************************************************************)
(* The framing layer implements a request/response channel: the primary   *)
(* reassembles each command with its length, and readPacket returns each  *)
(* reply whole and in order, until the connection fails.                   *)
(***************************************************************************)
Chan == INSTANCE PacketChannel WITH
            reqs <- cmds, served <- scmds, resps <- sresps, answered <- got,
            broken <- (err # "none")
ChannelRefinement == Chan!Spec

(***************************************************************************)
(* Every command writeCommand starts ends: readPacket returns its reply,   *)
(* or the connection fails and is closed; writePacket never leaves the     *)
(* primary waiting for a fragment that does not come.                     *)
(***************************************************************************)
CommandCompletes == (cpc = "write") ~> (cpc \in {"idle", "closed"})
=============================================================================
