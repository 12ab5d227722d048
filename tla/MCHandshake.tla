--------------------------- MODULE MCHandshake ---------------------------
(***************************************************************************)
(* Checks the handshake against greetings a 4.1 and a pre-4.1 server      *)
(* write, an ERR greeting and an old protocol version, each followed by   *)
(* an OK, ERR or other reply, a read error or no reply; and the command   *)
(* payloads against the decoders a server applies to them.               *)
(***************************************************************************)
EXTENDS Handshake, MCCodecValues

CONSTANTS
    ServerCaps,   \* capability words servers announce
    Names,        \* user, password and database names
    Hosts,        \* follower hostnames
    Ports         \* follower ports

VARIABLE in

Salt1 == <<1, 2, 3, 4, 5, 6, 7, 8>>
Salt2 == <<11, 12, 13, 14, 15, 16, 17, 18, 19, 20, 21, 22>>
ConnId == 70000

\* The initial handshake packet (protocol 10): version, id, 8 salt bytes,
\* filler, lower capabilities, then from 4.1 on charset, status 2, upper
\* capabilities, auth-data length 21, 10 reserved bytes, the other 12
\* salt bytes with their zero, and the auth plugin name.
GreetingBytes(x) ==
    CASE x.greet = "err" -> <<255, 21, 4, 35>>
      [] x.greet = "v9" -> <<9>> \o x.version \o <<0>> \o LE32(ConnId) \o Salt1 \o <<0>>
      [] x.greet = "fail" -> ReadFailed
      [] OTHER ->
           <<10>> \o x.version \o <<0>> \o LE32(ConnId) \o Salt1 \o <<0>> \o LE16(x.cap % 65536)
           \o (IF x.greet = "v41"
               THEN <<33>> \o LE16(2) \o LE16(x.cap \div 65536) \o <<21>> \o Zeros(10) \o Salt2
                    \o <<0>> \o <<109, 110>> \o <<0>>
               ELSE <<>>)
\* OK: no rows, no insert id, status 3 (in transaction, autocommit).
ReplyBytes(r) ==
    CASE r = "ok" -> <<<<0, 0, 0, 3, 0, 0, 0>>>>
      [] r = "err" -> <<<<255, 21, 4>>>>
      [] r = "bad" -> <<<<254>>>>
      [] r = "fail" -> <<ReadFailed>>
      [] r = "none" -> <<>>

HandshakeInputs ==
    [kind : {"handshake"}, greet : {"v41", "pre41", "err", "v9", "fail"}, version : {<<>>, <<53, 46, 55>>},
     cap : ServerCaps, reply : {"ok", "err", "bad", "fail", "none"}, wrote : BOOLEAN,
     user : Names, password : Names, db : Names]
CommandInputs ==
    [kind : {"command"}, host : Hosts, user : Names, password : Names, port : Ports,
     id : {1, 2147483647}, file : Names, pos : {4, 2147483647}]
Inputs == HandshakeInputs \cup CommandInputs

\* Each input is an initial state; a step keeps it.
Init == in \in Inputs
Next == UNCHANGED in
Spec == Init /\ [][Next]_in

----------------------------------------------------------------------------
(* The server's side *)

\* The salt and capabilities the greeting carries.
SentSalt(x) == IF x.greet = "v41" THEN Salt1 \o Salt2 ELSE Salt1
SentCap(x) == IF x.greet = "v41" THEN x.cap ELSE x.cap % 65536
SentStatus(x) == IF x.greet = "v41" THEN 2 ELSE 0
\* Spec 4.3: PROTOCOL_41 | SECURE_CONNECTION | LONG_PASSWORD | TRANSACTIONS
\* | LONG_FLAG (0xA205) and the server's flags, plus CONNECT_WITH_DB (0x8)
\* when a database is named.
NegotiatedCap(x) == (41477 & SentCap(x)) | (IF x.db # <<>> THEN 8 ELSE 0)
\* The status the session holds after the OK: the OK's when PROTOCOL_41 or
\* TRANSACTIONS was negotiated, the greeting's otherwise.
HeldStatus(x) == IF (NegotiatedCap(x) & (512 | 8192)) # 0 THEN 3 ELSE SentStatus(x)

\* The bytes of p from index k up to the next zero, and its index.
ZeroAt(p, k) == CHOOSE j \in k..(Len(p) + 1) : (j > Len(p) \/ p[j] = 0) /\ \A i \in k..(j - 1) : p[i] # 0

\* HandshakeResponse41 as a server reads it: with SECURE_CONNECTION the
\* auth response is length-prefixed; with CONNECT_WITH_DB a zero-ended
\* database follows, and nothing is left after.
ServerReadsAuth(p) ==
    LET cap == LE(SubSeq(p, 1, 4))
        u == ZeroAt(p, 33)
        al == p[u + 1]
        d == u + 2 + al
        dz == ZeroAt(p, d)
    IN [capability |-> cap, maxPacket |-> LE(SubSeq(p, 5, 8)), charset |-> p[9],
        reserved |-> SubSeq(p, 10, 32), user |-> SubSeq(p, 33, u - 1), auth |-> SubSeq(p, u + 2, d - 1),
        db |-> IF (cap & CLIENT_CONNECT_WITH_DB) # 0 THEN SubSeq(p, d, dz - 1) ELSE <<>>,
        rest |-> IF (cap & CLIENT_CONNECT_WITH_DB) # 0 THEN SubSeq(p, dz + 1, Len(p)) ELSE SubSeq(p, d, Len(p))]

\* COM_REGISTER_SLAVE, COM_BINLOG_DUMP and the ACK as a server reads them.
ServerReadsRegister(p) ==
    LET h == 6 + p[6]
        u == h + 1 + p[h + 1]
        w == u + 1 + p[u + 1]
    IN [command |-> p[1], id |-> LE(SubSeq(p, 2, 5)), host |-> SubSeq(p, 7, h), user |-> SubSeq(p, h + 2, u),
        password |-> SubSeq(p, u + 2, w), port |-> LE(SubSeq(p, w + 1, w + 2)), rank |-> LE(SubSeq(p, w + 3, w + 6)),
        master |-> LE(SubSeq(p, w + 7, w + 10)), length |-> Len(p) - w - 10]
ServerReadsDump(p) ==
    [command |-> p[1], pos |-> LE(SubSeq(p, 2, 5)), flags |-> LE(SubSeq(p, 6, 7)),
     id |-> LE(SubSeq(p, 8, 11)), file |-> SubSeq(p, 12, Len(p))]
ServerReadsAck(p) == [indicator |-> p[1], pos |-> LE(SubSeq(p, 2, 9)), file |-> SubSeq(p, 10, Len(p))]

----------------------------------------------------------------------------

(***************************************************************************)
(* handshake succeeds exactly when a protocol-10 greeting is followed by  *)
(* OK: the connection then holds the id, the 20-byte salt (8 from a pre-  *)
(* 4.1 server), the negotiated capabilities, and the OK's status (the     *)
(* greeting's when neither PROTOCOL_41 nor TRANSACTIONS was negotiated,   *)
(* for then handleOKPacket does not read one); an ERR greeting, an old    *)
(* version, a failed write or read and an ERR or other reply are errors   *)
(* that close it, and with no reply it waits.                             *)
(***************************************************************************)
HandshakeCorrect ==
    in.kind = "handshake" =>
        LET r == handshake(<<GreetingBytes(in)>> \o ReplyBytes(in.reply), in.wrote, in.user, in.password, in.db)
        IN CASE in.greet \in {"err", "v9", "fail"} \/ ~in.wrote -> r.res = "err" /\ r.closed
             [] in.reply = "none" -> r.res = "blocked" /\ ~r.closed
             [] in.reply = "ok" ->
                  /\ r.res = "ok" /\ ~r.closed
                  /\ r.conn = [res |-> "ok", connectionID |-> ConnId, salt |-> SentSalt(in),
                               capability |-> NegotiatedCap(in), status |-> HeldStatus(in)]
             [] OTHER -> r.res = "err" /\ r.closed

(***************************************************************************)
(* The response writeAuthHandshake sends reads, on the server, as the     *)
(* client flags the server also has (plus CONNECT_WITH_DB when a database *)
(* is named), max packet 0, collation 33, zero reserved bytes, the user,   *)
(* the scramble of the password with the whole salt the greeting sent     *)
(* (none for no password), and the database, with nothing after it.       *)
(***************************************************************************)
AuthResponseCorrect ==
    in.kind = "handshake" /\ in.greet \in {"v41", "pre41"} /\ in.wrote =>
        ServerReadsAuth(handshake(<<GreetingBytes(in)>> \o ReplyBytes(in.reply), TRUE,
                                  in.user, in.password, in.db).sent) =
            [capability |-> NegotiatedCap(in), maxPacket |-> 0,
             charset |-> DEFAULT_COLLATION_ID, reserved |-> Zeros(23), user |-> in.user,
             auth |-> scramble41(SentSalt(in), in.password), db |-> in.db, rest |-> <<>>]

(***************************************************************************)
(* COM_REGISTER_SLAVE, COM_BINLOG_DUMP and the semi-sync ACK             *)
(* read, on the server, as the command byte and the fields the follower  *)
(* passed (rank 0, master id 0, flags NEVER_STOP), each string whole.     *)
(***************************************************************************)
CommandsCorrect ==
    in.kind = "command" =>
        /\ ServerReadsRegister(makeRegisterFollowerCommand(in.host, in.port, in.user, in.password, in.id, 0)) =
               [command |-> COM_REGISTER_SLAVE, id |-> in.id, host |-> in.host, user |-> in.user,
                password |-> in.password, port |-> in.port, rank |-> 0, master |-> 0, length |-> 0]
        /\ ServerReadsDump(makeBinlogDumpCommand([name |-> in.file, pos |-> in.pos], in.id)) =
               [command |-> COM_BINLOG_DUMP, pos |-> in.pos, flags |-> 0, id |-> in.id, file |-> in.file]
        /\ ServerReadsAck(makeSemiSyncAck([name |-> in.file, pos |-> in.pos])) =
               [indicator |-> SemiSyncIndicator, pos |-> in.pos, file |-> in.file]
=============================================================================
