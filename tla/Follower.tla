------------------------------ MODULE Follower ------------------------------
(***************************************************************************)
(* The replication session (follower.go), its Streamer (streamer.go) and  *)
(* the consumer, over connections to a primary (conn.go, abstracted to    *)
(* the state the follower depends on).                                    *)
(*                                                                         *)
(* Threads: the callers of the Follower API (RegisterFollower, StartSync, *)
(* Close), the ingest goroutine parseEventsTo, and one consumer calling   *)
(* GetEvent and Streamer.Close.  The primary and the network are the      *)
(* environment: the dump stream of Binlog, read deadlines that expire,    *)
(* and connections that break.                                            *)
(***************************************************************************)
EXTENDS BinlogParser

CONSTANTS
    Callers,    \* threads that call the Follower API
    Conns,      \* connection identities; each NewConn uses a fresh one
    Requests,   \* (file, position) pairs callers pass to StartSync
    ChCap,      \* capacity of the event channel (1024 in newStreamer)
    ErrCap,     \* capacity of the error channel (4 in newStreamer)
    None        \* model value: nil / nothing

VARIABLES
    fc,          \* f.c: the current connection, or None
    running,     \* f.running
    mutex,       \* f.m: the caller holding it, or None
    wg,          \* f.wg: ingest goroutines not yet done (0 or 1)
    stopTok,     \* f.stopChan (capacity 1) holds a token
    nextPos,     \* f.NextPosition as <<file, pos>>
    parser,      \* f.parser: [format, tables]
    connSt,      \* per connection: unused, open, registered, dumping, closed
    deadline,    \* per connection read deadline: none, set, expired
    broken,      \* per connection: the network failed
    out,         \* per connection: packets the primary has still to send
    ipc,         \* the ingest goroutine: none, read, rows, deliver
    cur,         \* the packet the ingest goroutine is working on
    rowCur,      \* NewRowsEvent's loop cursor [i, ph]
    ch,          \* str.ch
    ech,         \* str.ech
    serr,        \* str.err, the error GetEvent returned, or None
    received,    \* packets GetEvent returned on the current stream
    streamStart, \* the (clamped) position of the current stream, or None
    closeReq,    \* Close was called since the current stream started
    exitErr,     \* the error the current stream's goroutine exited with
    pc,          \* per caller: the step of the API call it is in
    ret,         \* per caller: where its call of Close returns to
    crashed      \* a nil dereference or out-of-range slice panicked

vars == <<fc, running, mutex, wg, stopTok, nextPos, parser, connSt, deadline,
          broken, out, ipc, cur, rowCur, ch, ech, serr, received, streamStart,
          closeReq, exitErr, pc, ret, crashed>>

IngestErrors == {"ReadErr", "EventErr", "SyncStopping"}
Errors == IngestErrors \cup {"LastSyncFailed"}
NoPacket == Packet(FdeEv, 0)

Init ==
    /\ fc = None
    /\ running = FALSE
    /\ mutex = None
    /\ wg = 0
    /\ stopTok = FALSE
    /\ nextPos = <<0, 0>>
    /\ parser = NewBinlogParser
    /\ connSt = [k \in Conns |-> "unused"]
    /\ deadline = [k \in Conns |-> "none"]
    /\ broken = [k \in Conns |-> FALSE]
    /\ out = [k \in Conns |-> <<>>]
    /\ ipc = "none"
    /\ cur = NoPacket
    /\ rowCur = [i |-> 1, ph |-> 1]
    /\ ch = <<>>
    /\ ech = <<>>
    /\ serr = None
    /\ received = <<>>
    /\ streamStart = None
    /\ closeReq = FALSE
    /\ exitErr = None
    /\ pc = [c \in Callers |-> "Idle"]
    /\ ret = [c \in Callers |-> "Idle"]
    /\ crashed = FALSE

----------------------------------------------------------------------------
(* Helpers *)

\* closeWithError: a non-blocking send on str.ech, dropped when full.
CloseWithError(e) == ech' = IF Len(ech) < ErrCap THEN Append(ech, e) ELSE ech

\* parseEvent after Parse: NextPosition.Pos takes the header's log_pos; a
\* ROTATE sets both name and position from its body.
AdvancePos(np, pkt) ==
    IF pkt.ev.type = "ROTATE" THEN pkt.ev.next ELSE <<np[1], pkt.logPos>>

\* StartSync: "Always start from position >= 4".
Clamp(p) == IF p < 4 THEN 4 ELSE p

\* newStreamer: empty channels, no error returned yet (and, for the
\* refinement, nothing received from it yet).
NewStreamer ==
    /\ ch' = <<>>
    /\ ech' = <<>>
    /\ serr' = None
    /\ received' = <<>>

\* Mutant of StartStream: the old stopChan, and the token in it, is kept.
StartStreamKeepStop ==
    /\ running' = TRUE
    /\ UNCHANGED stopTok
    /\ NewStreamer
    /\ wg' = wg + 1
    /\ ipc' = "read"

\* startStream: running, a fresh (empty) stopChan, a new Streamer,
\* wg.Add(1) and the ingest goroutine started at its first read.
StartStream ==
    /\ running' = TRUE
    /\ stopTok' = FALSE
    /\ NewStreamer
    /\ wg' = wg + 1
    /\ ipc' = "read"

\* Mutant of checkExec: the f.running test is dropped.
checkExecNoRunning == fc # None

\* checkExec: no sync running, and a connection registered.
checkExec == ~running /\ fc # None

\* Call(c, "Close", r): caller c enters Close, which returns to r.
CallClose(c, r) ==
    /\ pc' = [pc EXCEPT ![c] = "CloseLock"]
    /\ ret' = [ret EXCEPT ![c] = r]

----------------------------------------------------------------------------
(* The Follower API.  Each action is one atomic step of a caller; calls  *)
(* that block or do not hold the mutex throughout are split at the point *)
(* where another thread can interleave.                                  *)

\* RegisterFollower begins with f.Close(), then registers on a new conn.
RegisterFollower(c) ==
    /\ ~crashed
    /\ pc[c] = "Idle"
    /\ CallClose(c, "RegConnect")
    /\ UNCHANGED <<fc, running, mutex, wg, stopTok, nextPos, parser, connSt,
                   deadline, broken, out, ipc, cur, rowCur, ch, ech, serr,
                   received, streamStart, closeReq, exitErr, crashed>>

\* The caller's own call of Close.
Close(c) ==
    /\ ~crashed
    /\ pc[c] = "Idle"
    /\ CallClose(c, "Idle")
    /\ UNCHANGED <<fc, running, mutex, wg, stopTok, nextPos, parser, connSt,
                   deadline, broken, out, ipc, cur, rowCur, ch, ech, serr,
                   received, streamStart, closeReq, exitErr, crashed>>

\* Mutant of CloseLock: no read deadline on f.c.
CloseLockNoDeadline(c) ==
    /\ ~crashed
    /\ pc[c] = "CloseLock"
    /\ mutex = None
    /\ mutex' = c
    /\ stopTok' = TRUE
    /\ closeReq' = TRUE
    /\ pc' = [pc EXCEPT ![c] = "CloseWait"]
    /\ UNCHANGED <<fc, running, wg, nextPos, parser, connSt, broken, out, ipc,
                   cur, rowCur, ch, ech, serr, received, streamStart, exitErr,
                   ret, crashed, deadline>>

\* Close, up to wg.Wait: take f.m, set a read deadline on f.c, post a stop
\* token unless one is already there.
CloseLock(c) ==
    /\ ~crashed
    /\ pc[c] = "CloseLock"
    /\ mutex = None
    /\ mutex' = c
    /\ deadline' = IF fc # None THEN [deadline EXCEPT ![fc] = "set"] ELSE deadline
    /\ stopTok' = TRUE
    /\ closeReq' = TRUE
    /\ pc' = [pc EXCEPT ![c] = "CloseWait"]
    /\ UNCHANGED <<fc, running, wg, nextPos, parser, connSt, broken, out, ipc,
                   cur, rowCur, ch, ech, serr, received, streamStart, exitErr,
                   ret, crashed>>

\* Close, after wg.Wait returns: close f.c (what the primary had still to
\* send on it is gone), clear running and f.c, unlock.
CloseWait(c) ==
    /\ ~crashed
    /\ pc[c] = "CloseWait"
    /\ wg = 0
    /\ connSt' = IF fc # None THEN [connSt EXCEPT ![fc] = "closed"] ELSE connSt
    /\ out' = IF fc # None THEN [out EXCEPT ![fc] = <<>>] ELSE out
    /\ running' = FALSE
    /\ fc' = None
    /\ mutex' = None
    /\ pc' = [pc EXCEPT ![c] = ret[c]]
    /\ UNCHANGED <<wg, stopTok, nextPos, parser, deadline, broken, ipc, cur,
                   rowCur, ch, ech, serr, received, streamStart, closeReq,
                   exitErr, ret, crashed>>

\* registerFollower, first statement: f.c = NewConn(...), without f.m.  A
\* failed dial or handshake leaves f.c nil and RegisterFollower calls Close.
RegConnect(c) ==
    /\ ~crashed
    /\ pc[c] = "RegConnect"
    /\ \/ \E k \in Conns :
             /\ connSt[k] = "unused"
             /\ \A j \in Conns : connSt[j] = "unused" => k <= j
             /\ fc' = k
             /\ connSt' = [connSt EXCEPT ![k] = "open"]
             /\ pc' = [pc EXCEPT ![c] = "RegCommand"]
             /\ UNCHANGED ret
       \/ /\ fc' = None
          /\ CallClose(c, "Idle")
          /\ UNCHANGED connSt
    /\ UNCHANGED <<running, mutex, wg, stopTok, nextPos, parser, deadline,
                   broken, out, ipc, cur, rowCur, ch, ech, serr, received,
                   streamStart, closeReq, exitErr, crashed>>

\* registerFollower, the rest: the BINLOG_CHECKSUM queries, then
\* COM_REGISTER_SLAVE and its OK, all on whatever f.c is now.  Any error
\* makes RegisterFollower call Close.
RegCommand(c) ==
    /\ ~crashed
    /\ pc[c] = "RegCommand"
    /\ IF fc = None
       THEN /\ crashed' = TRUE
            /\ UNCHANGED <<connSt, pc, ret>>
       ELSE /\ \/ /\ connSt[fc] \in {"open", "registered"}
                  /\ ~broken[fc]
                  /\ connSt' = [connSt EXCEPT ![fc] = "registered"]
                  /\ pc' = [pc EXCEPT ![c] = "Idle"]
                  /\ UNCHANGED ret
               \/ /\ CallClose(c, "Idle")
                  /\ UNCHANGED connSt
            /\ UNCHANGED crashed
    /\ UNCHANGED <<fc, running, mutex, wg, stopTok, nextPos, parser, deadline,
                   broken, out, ipc, cur, rowCur, ch, ech, serr, received,
                   streamStart, closeReq, exitErr>>

\* StartSync holds f.m throughout: checkExec, clamp, COM_BINLOG_DUMP on
\* f.c, then startStream (running, a fresh stopChan and Streamer, the
\* goroutine).  The parser is not reset.  Error returns change nothing and
\* are left out.
StartSync(c) ==
    /\ ~crashed
    /\ pc[c] = "Idle"
    /\ mutex = None
    /\ checkExec
    /\ ~broken[fc]
    /\ \E rq \in Requests :
          LET start == <<rq[1], Clamp(rq[2])>> IN
          /\ out' = [out EXCEPT ![fc] = DumpStream(start[1], start[2])]
          /\ streamStart' = start
    /\ connSt' = [connSt EXCEPT ![fc] = "dumping"]
    /\ StartStream
    /\ closeReq' = FALSE
    /\ exitErr' = None
    /\ UNCHANGED <<fc, mutex, nextPos, parser, deadline, broken, cur, rowCur,
                   pc, ret, crashed>>

----------------------------------------------------------------------------
(* The ingest goroutine, parseEventsTo. *)

\* readPacket on conn k fails: the read deadline has passed, or the
\* network broke (io.ReadFull or io.CopyN errors).  Until then a read
\* blocks or returns the next packet.
ReadFails(k) == deadline[k] = "expired" \/ broken[k]

\* The goroutine returns after closeWithError(e); wg.Done.
Exit(e) ==
    /\ CloseWithError(e)
    /\ wg' = wg - 1
    /\ ipc' = "none"
    /\ exitErr' = e
    /\ cur' = NoPacket

\* readPacket on f.c, the header byte, then parser.Parse and, for all but
\* a rows event, NextPosition.  The read fails once the deadline has
\* expired or the network broke (an ERR packet from the primary has the
\* same effect); bytes already buffered can still be read.  A rows event
\* enters NewRowsEvent's row loop.
Read ==
    /\ ~crashed
    /\ ipc = "read"
    /\ IF fc = None
       THEN /\ crashed' = TRUE
            /\ UNCHANGED <<wg, ipc, exitErr, ech, out, parser, nextPos, cur, rowCur>>
       ELSE
         \/ /\ ReadFails(fc)
            /\ Exit("ReadErr")
            /\ UNCHANGED <<out, parser, nextPos, rowCur, crashed>>
         \/ /\ out[fc] # <<>>
            /\ out' = [out EXCEPT ![fc] = Tail(out[fc])]
            /\ LET pkt == Head(out[fc])
                   r == Decode(parser, pkt.ev)
               IN CASE r.outcome = "ok" ->
                         /\ parser' = r.st
                         /\ nextPos' = AdvancePos(nextPos, pkt)
                         /\ cur' = pkt
                         /\ ipc' = "deliver"
                         /\ UNCHANGED <<wg, exitErr, ech, rowCur, crashed>>
                    [] r.outcome = "rows" ->
                         /\ cur' = pkt
                         /\ rowCur' = [i |-> 1, ph |-> 1]
                         /\ ipc' = "rows"
                         /\ UNCHANGED <<wg, exitErr, ech, parser, nextPos, crashed>>
                    [] r.outcome = "error" ->
                         /\ Exit("EventErr")
                         /\ UNCHANGED <<parser, nextPos, rowCur, crashed>>
                    [] r.outcome = "panic" ->
                         /\ crashed' = TRUE
                         /\ UNCHANGED <<wg, ipc, exitErr, ech, parser, nextPos,
                                        cur, rowCur>>
    /\ UNCHANGED <<fc, running, mutex, stopTok, connSt, deadline, broken, ch,
                   serr, received, streamStart, closeReq, pc, ret>>

\* One iteration step of NewRowsEvent's loop.  Past the last image with
\* the after-image bitmap, parseRows slices beyond the body and panics.
RowStep ==
    /\ ~crashed
    /\ ipc = "rows"
    /\ ~RowsLoopDone(cur.ev, rowCur.i, rowCur.ph)
    /\ IF rowCur.i > Len(cur.ev.images)
       THEN crashed' = TRUE /\ UNCHANGED rowCur
       ELSE /\ rowCur' = RowsLoopStep(parser.tables[cur.ev.table], cur.ev,
                                      rowCur.i, rowCur.ph)
            /\ UNCHANGED crashed
    /\ UNCHANGED <<fc, running, mutex, wg, stopTok, nextPos, parser, connSt,
                   deadline, broken, out, ipc, cur, ch, ech, serr, received,
                   streamStart, closeReq, exitErr, pc, ret>>

\* The row loop is over: Parse returns and parseEvent sets NextPosition.
RowsEnd ==
    /\ ~crashed
    /\ ipc = "rows"
    /\ RowsLoopDone(cur.ev, rowCur.i, rowCur.ph)
    /\ nextPos' = AdvancePos(nextPos, cur)
    /\ ipc' = "deliver"
    /\ rowCur' = [i |-> 1, ph |-> 1]
    /\ UNCHANGED <<fc, running, mutex, wg, stopTok, parser, connSt, deadline,
                   broken, out, cur, ch, ech, serr, received,
                   streamStart, closeReq, exitErr, pc, ret, crashed>>

\* parseEvent's select: send on str.ch, or take the stop token and return
\* "sync stopping".  When both are ready Go picks either.
Deliver ==
    /\ ~crashed
    /\ ipc = "deliver"
    /\ \/ /\ Len(ch) < ChCap
          /\ ch' = Append(ch, cur)
          /\ ipc' = "read"
          /\ cur' = NoPacket
          /\ UNCHANGED <<stopTok, wg, ech, exitErr>>
       \/ /\ stopTok
          /\ stopTok' = FALSE
          /\ Exit("SyncStopping")
          /\ UNCHANGED ch
    /\ UNCHANGED <<fc, running, mutex, nextPos, parser, connSt, deadline, broken,
                   out, rowCur, serr, received, streamStart, closeReq, pc,
                   ret, crashed>>

----------------------------------------------------------------------------
(* The consumer, on the Streamer StartSync returned last. *)

\* GetEvent: once s.err is set it only returns an error; otherwise it
\* blocks on both channels and Go picks either when both are ready.
GetEventRecv ==
    /\ ~crashed
    /\ serr = None
    /\ ch # <<>>
    /\ received' = Append(received, Head(ch))
    /\ ch' = Tail(ch)
    /\ UNCHANGED <<fc, running, mutex, wg, stopTok, nextPos, parser, connSt,
                   deadline, broken, out, ipc, cur, rowCur, ech, serr,
                   streamStart, closeReq, exitErr, pc, ret, crashed>>

GetEventErr ==
    /\ ~crashed
    /\ serr = None
    /\ ech # <<>>
    /\ serr' = Head(ech)
    /\ ech' = Tail(ech)
    /\ UNCHANGED <<fc, running, mutex, wg, stopTok, nextPos, parser, connSt,
                   deadline, broken, out, ipc, cur, rowCur, ch, received,
                   streamStart, closeReq, exitErr, pc, ret, crashed>>

\* Streamer.Close: closeWithError("last sync failed"); the follower's
\* goroutine is not told.
StreamClose ==
    /\ ~crashed
    /\ streamStart # None
    /\ Len(ech) < ErrCap
    /\ CloseWithError("LastSyncFailed")
    /\ UNCHANGED <<fc, running, mutex, wg, stopTok, nextPos, parser, connSt,
                   deadline, broken, out, ipc, cur, rowCur, ch, serr, received,
                   streamStart, closeReq, exitErr, pc, ret, crashed>>

----------------------------------------------------------------------------
(* Environment: time and the network. *)

\* The 100 ms read deadline Close set passes.
Tick(k) ==
    /\ deadline[k] = "set"
    /\ deadline' = [deadline EXCEPT ![k] = "expired"]
    /\ UNCHANGED <<fc, running, mutex, wg, stopTok, nextPos, parser, connSt,
                   broken, out, ipc, cur, rowCur, ch, ech, serr, received,
                   streamStart, closeReq, exitErr, pc, ret, crashed>>

\* The connection to the primary fails (or the primary sends ERR).
Break(k) ==
    /\ connSt[k] = "dumping"
    /\ ~broken[k]
    /\ broken' = [broken EXCEPT ![k] = TRUE]
    /\ UNCHANGED <<fc, running, mutex, wg, stopTok, nextPos, parser, connSt,
                   deadline, out, ipc, cur, rowCur, ch, ech, serr, received,
                   streamStart, closeReq, exitErr, pc, ret, crashed>>

----------------------------------------------------------------------------
Next ==
    \/ \E c \in Callers :
          \/ RegisterFollower(c) \/ Close(c) \/ StartSync(c)
          \/ CloseLock(c) \/ CloseWait(c) \/ RegConnect(c) \/ RegCommand(c)
    \/ Read \/ RowStep \/ RowsEnd \/ Deliver
    \/ GetEventRecv \/ GetEventErr \/ StreamClose
    \/ \E k \in Conns : Tick(k) \/ Break(k)

(***************************************************************************)
(* Fairness.  The goroutine runs whenever it can and the deadline timer   *)
(* fires, so they are weakly fair.  A call in progress finishes its       *)
(* network round trips (dial has a 10 s timeout); f.m is a sync.Mutex,    *)
(* whose starvation mode lets a waiter in eventually: strong fairness.    *)
(* The callers' choice to call, the consumer and the network failing are  *)
(* not fair: nobody has to read events, and the network need not fail.    *)
(***************************************************************************)
Fairness ==
    /\ WF_vars(Read) /\ WF_vars(RowStep) /\ WF_vars(RowsEnd) /\ WF_vars(Deliver)
    /\ \A k \in Conns : WF_vars(Tick(k))
    /\ \A c \in Callers :
          /\ SF_vars(CloseLock(c)) /\ WF_vars(CloseWait(c))
          /\ WF_vars(RegConnect(c)) /\ WF_vars(RegCommand(c))

Spec == Init /\ [][Next]_vars /\ Fairness

----------------------------------------------------------------------------
(* Properties *)

(***************************************************************************)
(* No thread of the session panics: the goroutine never reads through a   *)
(* nil f.c, never decodes a TABLE_MAP before a FORMAT_DESCRIPTION has set *)
(* the parser's format (eventtype-tablemap.go dereferences it), and the   *)
(* row loop never slices past the rows body.  The format is kept across   *)
(* streams, and every dump sends a FORMAT_DESCRIPTION before its first    *)
(* table map, artificial when the dump starts past it.                    *)
(***************************************************************************)
NeverPanics == ~crashed

\* Every variable within its domain; in particular the WaitGroup never
\* counts two ingest goroutines, which StartSync's checkExec rules out.
Positions == UNION {{<<f, p>> : p \in 0..(4 + Len(Files[f]))} : f \in 1..Len(Files)}
TypeOK ==
    /\ fc \in Conns \cup {None}
    /\ running \in BOOLEAN
    /\ mutex \in Callers \cup {None}
    /\ wg \in {0, 1}
    /\ stopTok \in BOOLEAN
    /\ nextPos \in Positions \cup {<<0, 0>>}
    /\ parser.format \in BOOLEAN
    /\ DOMAIN parser.tables \subseteq Tables
    /\ connSt \in [Conns -> {"unused", "open", "registered", "dumping", "closed"}]
    /\ deadline \in [Conns -> {"none", "set", "expired"}]
    /\ broken \in [Conns -> BOOLEAN]
    /\ ipc \in {"none", "read", "rows", "deliver"}
    /\ Len(ch) <= ChCap
    /\ Len(ech) <= ErrCap /\ \A i \in DOMAIN ech : ech[i] \in Errors
    /\ serr \in Errors \cup {None}
    /\ exitErr \in IngestErrors \cup {None}
    /\ pc \in [Callers -> {"Idle", "CloseLock", "CloseWait", "RegConnect",
                           "RegCommand"}]
    /\ crashed \in BOOLEAN

(***************************************************************************)
(* The stream refines BinlogStream: whatever the interleaving of Close,   *)
(* the goroutine, the consumer and the network, the consumer receives on  *)
(* each stream a gap-free, in-order prefix of what the primary sent for   *)
(* the dump, never past a packet the reference decoder rejects (so the    *)
(* incremental registry of parseEvent, kept across streams and emptied    *)
(* by ROTATE, agrees with the stream's own table maps), and nothing after *)
(* GetEvent has returned an error.                                        *)
(***************************************************************************)
Abstract == INSTANCE BinlogStream
    WITH stream <- IF streamStart = None THEN <<>>
                   ELSE DumpStream(streamStart[1], streamStart[2]),
         delivered <- received,
         ended <- serr # None

StreamRefinement == Abstract!Spec

(***************************************************************************)
(* A stream's goroutine returns "sync stopping" only if Close was called  *)
(* after StartSync started it: a stop token posted by an earlier Close    *)
(* (RegisterFollower always calls Close) must not stop the new stream.    *)
(***************************************************************************)
StopOnlyWhenClosed == exitErr = "SyncStopping" => closeReq

(***************************************************************************)
(* Every call of Close returns: wg.Wait does not wait forever, because    *)
(* the read deadline unblocks a read and the stop token unblocks a send   *)
(* on a full str.ch.                                                      *)
(***************************************************************************)
CloseReturns == \A c \in Callers : pc[c] = "CloseWait" ~> pc[c] # "CloseWait"

(***************************************************************************)
(* The spec (section 4.7) has GetEvent return whichever of an event and   *)
(* the terminal error arrived first.  Since the goroutine posts its error *)
(* after every event it sent, the consumer should never take a goroutine  *)
(* error while events are still queued in str.ch.                         *)
(***************************************************************************)
NoEventBehindError ==
    [][(serr = None /\ serr' \in IngestErrors) => ch = <<>>]_vars

(***************************************************************************)
(* The spec (section 5) has f.m serialise register, start_sync and close. *)
(* Then COM_BINLOG_DUMP goes only to a connection whose registration has  *)
(* completed.                                                             *)
(***************************************************************************)
DumpAfterRegister ==
    [][\A k \in Conns :
         (connSt'[k] = "dumping" /\ connSt[k] # "dumping") => connSt[k] = "registered"]_vars

(***************************************************************************)
(* Resuming from f.NextPosition.  The spec (section 7) has the caller     *)
(* restart replication from the next_position of the last event it got.   *)
(* A dump started there must send, artificial events aside, exactly what  *)
(* the current dump had still to send after the packets the goroutine    *)
(* handed to the Streamer (received, then still queued in str.ch).        *)
(***************************************************************************)
RealEvents(s) == SelectSeq(s, LAMBDA pkt : pkt.logPos # 0)

ResumePointOK ==
    LET sent == received \o ch
        full == DumpStream(streamStart[1], streamStart[2])
    IN  RealEvents(SubSeq(full, Len(sent) + 1, Len(full)))
          = RealEvents(DumpStream(nextPos[1], Clamp(nextPos[2])))

\* While the goroutine is between two events of a live stream, parseEvent
\* has left NextPosition at the resume point of the last event it sent.
NextPositionWhileStreaming ==
    (streamStart # None /\ ipc = "read" /\ received \o ch # <<>>) => ResumePointOK

\* Once the goroutine has returned, whatever the reason, NextPosition is
\* the resume point of the last event it sent.
NextPositionAfterExit ==
    (streamStart # None /\ ipc = "none" /\ received \o ch # <<>>) => ResumePointOK
=============================================================================
