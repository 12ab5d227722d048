----------------------------- MODULE Handshake -----------------------------
(***************************************************************************)
(* The connection's session setup and the client commands (conn.go,       *)
(* follower.go): handshake with readInitialHandshake, writeAuthHandshake  *)
(* and readOKPacket, and the payloads of COM_QUERY, COM_REGISTER_SLAVE,    *)
(* COM_BINLOG_DUMP and the semi-sync ACK.                                  *)
(*                                                                         *)
(* pk is the sequence of payloads readPacket returns, in order; readPacket *)
(* never returns an empty payload (readPacketTo rejects length 0), so      *)
(* ReadFailed, the empty sequence, stands for its error.  Running out of   *)
(* payloads is [res |-> "blocked"].  A payload is the bytes after the     *)
(* 4-byte header writePacket fills in; whether writePacket succeeds is the *)
(* flag wrote.  A read past len(b) but within cap(b) returns bytes of the  *)
(* buffer the model does not represent: [res |-> "overrun"].              *)
(***************************************************************************)
EXTENDS ResultReader

\* Wire constants (spec section 9).
OK_HEADER == 0
ERR_HEADER == 255
MinProtocolVersion == 10
CLIENT_LONG_PASSWORD == 1
CLIENT_LONG_FLAG == 4
CLIENT_CONNECT_WITH_DB == 8
CLIENT_PROTOCOL_41 == 512
CLIENT_TRANSACTIONS == 8192
CLIENT_SECURE_CONNECTION == 32768
DEFAULT_COLLATION_ID == 33
COM_QUERY == 3
COM_BINLOG_DUMP == 18
COM_REGISTER_SLAVE == 21
BINLOG_DUMP_NEVER_STOP == 0
SemiSyncIndicator == 239

ReadFailed == <<>>
Zeros(n) == [k \in 1..n |-> 0]
\* binary.LittleEndian.PutUint16/PutUint32 of n.
LE16(n) == SubSeq(WordOf(n), 1, 2)
LE32(n) == SubSeq(WordOf(n), 1, 4)

\* bytes.IndexByte: the Go index of the first c in s, or -1.
IndexByte(s, c) ==
    IF \E k \in 1..Len(s) : s[k] = c
    THEN (CHOOSE k \in 1..Len(s) : s[k] = c /\ \A j \in 1..(k - 1) : s[j] # c) - 1
    ELSE -1

\* SHA1(password) XOR SHA1(scramble ++ SHA1(SHA1(password))): the 20 bytes
\* of the hash are opaque tokens determined by scramble and password.
scramble41(scramble, password) ==
    IF password = <<>> THEN <<>> ELSE [k \in 1..20 |-> <<"sha1", scramble, password, k>>]

(***************************************************************************)
(* readInitialHandshake after the version string: i0 is the Go index of   *)
(* the connection id, i2 that of the byte after the lower capabilities.   *)
(* With nothing after them the server is pre-4.1: lower capabilities and  *)
(* the 8-byte salt.                                                        *)
(***************************************************************************)
\* Mutant of Greeting: the 12 salt bytes of the tail are not appended.
GreetingSaltHead(b, i0) ==
    LET i2 == i0 + 15
        lo == [res |-> "ok", connectionID |-> LE(SubSeq(b, i0 + 1, i0 + 4)),
               salt |-> SubSeq(b, i0 + 5, i0 + 12), capability |-> LE(SubSeq(b, i2 - 1, i2)), status |-> 0]
    IN CASE Len(b) < i2 -> [res |-> "overrun"]
         [] Len(b) = i2 -> lo
         [] Len(b) < i2 + 28 -> [res |-> "overrun"]
         [] OTHER -> [lo EXCEPT !.status = LE(SubSeq(b, i2 + 2, i2 + 3)),
                                !.capability = LE(SubSeq(b, i2 + 4, i2 + 5)) * 65536 + @]

Greeting(b, i0) ==
    LET i2 == i0 + 15
        lo == [res |-> "ok", connectionID |-> LE(SubSeq(b, i0 + 1, i0 + 4)),
               salt |-> SubSeq(b, i0 + 5, i0 + 12), capability |-> LE(SubSeq(b, i2 - 1, i2)), status |-> 0]
    IN CASE Len(b) < i2 -> [res |-> "overrun"]
         [] Len(b) = i2 -> lo
         [] Len(b) < i2 + 28 -> [res |-> "overrun"]
         [] OTHER -> [lo EXCEPT !.status = LE(SubSeq(b, i2 + 2, i2 + 3)),
                                !.capability = LE(SubSeq(b, i2 + 4, i2 + 5)) * 65536 + @,
                                !.salt = @ \o SubSeq(b, i2 + 17, i2 + 28)]

readInitialHandshake(b) ==
    CASE b[1] = ERR_HEADER -> [res |-> "err"]
      [] b[1] < MinProtocolVersion -> [res |-> "err"]
      [] OTHER -> Greeting(b, 1 + IndexByte(SubSeq(b, 2, Len(b)), 0) + 1)

\* The client's flags, of which the server's are kept, plus
\* CONNECT_WITH_DB when a database is named.
ClientCapability ==
    CLIENT_PROTOCOL_41 | CLIENT_SECURE_CONNECTION | CLIENT_LONG_PASSWORD
        | CLIENT_TRANSACTIONS | CLIENT_LONG_FLAG
\* Mutant of AuthCapability: CONNECT_WITH_DB is never set.
AuthCapabilityNoDb(serverCap, db) == ClientCapability & serverCap

AuthCapability(serverCap, db) ==
    IF db # <<>> THEN (ClientCapability & serverCap) | CLIENT_CONNECT_WITH_DB
    ELSE ClientCapability & serverCap

\* The handshake response: packetLength is the sum of the parts, so the
\* writes fill b exactly.  Its result is c.capability and the payload.
writeAuthHandshake(g, user, password, db) ==
    LET cap == AuthCapability(g.capability, db)
        auth == scramble41(g.salt, password)
    IN [capability |-> cap,
        payload |-> LE32(cap) \o LE32(0) \o <<DEFAULT_COLLATION_ID>> \o Zeros(23)
                    \o user \o <<0>> \o <<Len(auth) % 256>> \o auth
                    \o (IF db # <<>> THEN db \o <<0>> ELSE <<>>)]

\* An ERR packet and any other first byte are both errors.
readOKPacket(capability, pk) ==
    CASE pk = <<>> -> [res |-> "blocked"]
      [] pk[1] = ReadFailed -> [res |-> "err"]
      [] pk[1][1] = OK_HEADER -> handleOKPacket(capability, pk[1])
      [] OTHER -> [res |-> "err"]

\* A handshake step's outcome: an error closes the connection.
Outcome(res, sent, conn) == [res |-> res, closed |-> res = "err", sent |-> sent, conn |-> conn]

\* writeAuthHandshake has set c.capability, which handleOKPacket tests;
\* an OK's status, when read, replaces the greeting's in c.status.
HandshakeAuthed(g, pk, wrote, auth) ==
    LET ok == readOKPacket(auth.capability, pk)
    IN CASE ~wrote -> Outcome("err", <<>>, <<>>)
         [] ok.res = "ok" ->
              Outcome("ok", auth.payload,
                      [g EXCEPT !.capability = auth.capability,
                                !.status = IF ok.statusSet THEN ok.status ELSE @])
         [] OTHER -> Outcome(ok.res, auth.payload, <<>>)

handshake(pk, wrote, user, password, db) ==
    LET g == readInitialHandshake(pk[1])
    IN CASE pk = <<>> -> Outcome("blocked", <<>>, <<>>)
         [] pk[1] = ReadFailed -> Outcome("err", <<>>, <<>>)
         [] g.res # "ok" -> Outcome(g.res, <<>>, <<>>)
         [] OTHER -> HandshakeAuthed(g, Tail(pk), wrote, writeAuthHandshake(g, user, password, db))

----------------------------------------------------------------------------
(* Command payloads *)

makeCommandWithArg(command, s) == <<command>> \o s

makeBinlogDumpCommand(p, followerID) ==
    <<COM_BINLOG_DUMP>> \o LE32(p.pos) \o LE16(BINLOG_DUMP_NEVER_STOP) \o LE32(followerID) \o p.name

\* Mutant of makeRegisterFollowerCommand: the port written high byte first.
makeRegisterFollowerCommandPortBE(hostname, port, user, password, followerID, masterId) ==
    <<COM_REGISTER_SLAVE>> \o LE32(followerID) \o <<Len(hostname) % 256>> \o hostname
    \o <<Len(user) % 256>> \o user \o <<Len(password) % 256>> \o password
    \o <<port \div 256, port % 256>> \o LE32(0) \o LE32(masterId)

\* Each string after its uint8(len): the length byte wraps past 255.
makeRegisterFollowerCommand(hostname, port, user, password, followerID, masterId) ==
    <<COM_REGISTER_SLAVE>> \o LE32(followerID) \o <<Len(hostname) % 256>> \o hostname
    \o <<Len(user) % 256>> \o user \o <<Len(password) % 256>> \o password
    \o LE16(port) \o LE32(0) \o LE32(masterId)

\* uint64(p.Pos) in 8 bytes, then the file name.
makeSemiSyncAck(p) == <<SemiSyncIndicator>> \o WordOf(p.pos) \o p.name
=============================================================================
