------------------------------ MODULE Protocol ------------------------------
(***************************************************************************)
(* MySQL commands between clients, the listener and the databases: the     *)
(* handler of each client connection (listener/mysql.go), which shares the *)
(* listener's capabilities, schema and prepared statements with all the    *)
(* others, and the pooled connections to a database it borrows for a       *)
(* command (driver/client.go, driver/statement.go), each of which must     *)
(* have read the whole answer before it is put back.                       *)
(*                                                                         *)
(* Clients and the server are external: a client sends a command when the  *)
(* last one is answered, a server answers the commands of a connection in  *)
(* order, and a connection may be lost.                                    *)
(***************************************************************************)
EXTENDS Wire, BackendLogin, FiniteSets

CONSTANTS
  Clients,
  Scripts,            \* bound: s[c][n] is what client c may send as its n-th command, for some s in Scripts
  MaxLosses,          \* bound: connections the server loses
  DeprecateEOF,       \* the clients that negotiated CLIENT_DEPRECATE_EOF
  LongDataSize        \* a parameter this long is sent ahead

VARIABLES
  capabilities,  \* of the listener: does the last client to shake hands deprecate EOF,
  schemaName,    \*   the schema named last by any client,
  statementID,   \*   the last statement id,
  stmts,         \*   the prepared statements by id
  handler,       \* handler[c]: [stage, cmd, result, b]
  conn,          \* conn[c]: [seq, policy] of the client's connection
  toListener,    \* frames from client c
  toClient,      \* frames to client c since its last command
  client,        \* client[c]: [stage, sent, cmd, stmt, sql], what the client knows
  back,          \* back[b]: [seq, policy, lost] of a pooled connection
  toServer,      \* commands the server has not answered
  kernel,        \* frames from the server, not yet read from the socket
  buffered,      \*   and those in the buffered reader
  pool,          \* connections not borrowed
  losses,
  script,        \* the one of Scripts the clients follow
  torn,          \* history: clients whose framing another client's handshake changed,
  unread         \*   connections on which a command was sent that leaves an answer unread

shared == <<capabilities, schemaName, statementID, stmts>>
link == <<toServer, kernel, buffered>>
history == <<torn, unread>>
vars == <<shared, handler, conn, toListener, toClient, client, back, link, pool, losses, script, history, login>>

NoCmd == [type |-> "none"]
NoResult == [kind |-> "none"]
Idle == [stage |-> "idle", cmd |-> NoCmd, result |-> NoResult, b |-> {}]   \* b: the connection borrowed

Init ==
  /\ capabilities = FALSE /\ schemaName = "" /\ statementID = 0 /\ stmts = <<>>
  /\ handler = [c \in Clients |-> [Idle EXCEPT !.stage = "accepted"]]
  /\ conn = [c \in Clients |-> [seq |-> 0, policy |-> "unused"]]
  /\ toListener = [c \in Clients |-> <<>>]
  /\ toClient = [c \in Clients |-> <<>>]
  /\ client = [c \in Clients |-> [stage |-> "new", sent |-> 0, cmd |-> NoCmd, stmt |-> 0, sql |-> ""]]
  /\ back = [b \in Backends |-> [seq |-> 0, policy |-> "unused", lost |-> "no"]]
  /\ toServer = [b \in Backends |-> <<>>]
  /\ kernel = [b \in Backends |-> <<>>]
  /\ buffered = [b \in Backends |-> <<>>]
  /\ pool = {}
  /\ losses = 0 /\ script \in Scripts
  /\ torn = {} /\ unread = {}
  /\ LoginInit

(***************************************************************************)
(* Writing and reading packets.                                            *)
(***************************************************************************)
Pkt(kind) == [kind |-> kind, len |-> 1]
OK == Pkt("ok")
OKWithEOF == Pkt("okEOF")
EOF == Pkt("eof")
Err == Pkt("err")
ColumnCount == Pkt("count")
ColumnDefinition == Pkt("column")

Framed(packets, seq) ==
  FoldLeft(LAMBDA fs, p : fs \o WritePacket(p, p.len, (seq + Len(fs)) % SeqSize), <<>>, packets)

(* The packets handler c writes, in its next state s. *)
Answer(c, packets, s) ==
  LET fs == Framed(packets, conn[c].seq)
  IN  /\ toClient' = [toClient EXCEPT ![c] = @ \o fs]
      /\ conn' = [conn EXCEPT ![c].seq = (@ + Len(fs)) % SeqSize, ![c].policy = "unused"]
      /\ handler' = [handler EXCEPT ![c] = s]

(* With CLIENT_DEPRECATE_EOF a result ends with an OK that has the header of an
   EOF, and no EOF follows the columns. *)
EndResult == IF capabilities THEN OKWithEOF ELSE EOF
FieldsEOF == IF capabilities THEN <<>> ELSE <<EOF>>
WriteFields(n) == <<ColumnCount>> \o [i \in 1..n |-> ColumnDefinition] \o FieldsEOF

(***************************************************************************)
(* Clients.                                                                *)
(***************************************************************************)
(* The password of a client is hashed with the salt it was greeted with. *)
Users == [app |-> "secret", guest |-> ""]
newSalt(c) == c
writeHandshakeV10(salt) == [salt |-> salt]
scramblePassword(salt, password) == IF password = "" THEN <<>> ELSE <<salt, password>>
ValidateHash(user, salt, response) ==
  user \in DOMAIN Users /\ response = scramblePassword(salt, Users[user])

(* The capabilities and the schema are the listener's, and they are set before
   the packet is read to its end. *)
parseClientHandshakePacket(c, reply) ==
  IF ~reply.protocol41 THEN UNCHANGED <<capabilities, schemaName, torn>>
  ELSE /\ capabilities' = (c \in DeprecateEOF)
       /\ schemaName' = IF reply.whole THEN c ELSE schemaName
       /\ torn' = torn \cup {d \in Clients \ {c} : /\ handler[d].stage # "accepted"
                                                  /\ (d \in DeprecateEOF) # (c \in DeprecateEOF)}

Replies(c) ==
  [protocol41 : BOOLEAN, whole : BOOLEAN, user : DOMAIN Users \cup {"nobody"},
   response : {<<>>, <<c, "secret">>, <<c, "wrong">>, <<"", "secret">>}]

Handshake(c) ==
  /\ handler[c].stage = "accepted"
  /\ \E reply \in Replies(c) :
       LET greeting == writeHandshakeV10(newSalt(c))
           valid == reply.protocol41 /\ reply.whole /\ ValidateHash(reply.user, greeting.salt, reply.response)
       IN  /\ parseClientHandshakePacket(c, reply)
           /\ handler' = [handler EXCEPT ![c].stage = IF valid THEN "idle" ELSE "closed"]
           /\ client' = [client EXCEPT ![c].stage = IF valid THEN "ready" ELSE "refused"]
  /\ UNCHANGED <<statementID, stmts, conn, toListener, toClient, back, link, pool, losses, unread, login>>

(* A client sends a command once it has the whole answer to the last one, or
   right away after a command that has none; it names the statement it
   prepared. *)
SendCommand(c) ==
  /\ client[c].stage = "ready"
  /\ client[c].sent < Len(script[c])
  /\ handler[c].stage = "idle"
  /\ \E cmd \in script[c][client[c].sent + 1] :
       /\ toListener' = [toListener EXCEPT ![c] =
            WritePacket([cmd EXCEPT !.id = IF cmd.type \in {"execute", "stmtClose", "stmtReset", "longData"}
                                           THEN client[c].stmt ELSE 0], cmd.len, 0)]
       /\ client' = [client EXCEPT ![c].stage = "waiting", ![c].sent = @ + 1, ![c].cmd = cmd]
  /\ toClient' = [toClient EXCEPT ![c] = <<>>]
  /\ UNCHANGED <<shared, handler, conn, back, link, pool, losses, history, login>>

Kinds(c) == LET starts == SelectSeq(toClient[c], LAMBDA f : f.first)
            IN  [i \in DOMAIN starts |-> starts[i].data.kind]

(* The handler is done with the command: the client takes note of a statement
   it prepared, and may go on. *)
Receive(c) ==
  /\ client[c].stage = "waiting"
  /\ toListener[c] = <<>>
  /\ handler[c].stage \in {"idle", "closed"}
  /\ client' = [client EXCEPT ![c] =
       IF toClient[c] # <<>> /\ toClient[c][1].data.kind = "prepareOK"
       THEN [@ EXCEPT !.stage = "ready", !.stmt = toClient[c][1].data.id, !.sql = toClient[c][1].data.sql]
       ELSE [@ EXCEPT !.stage = "ready"]]
  /\ UNCHANGED <<shared, handler, conn, toListener, toClient, back, link, pool, losses, history, login>>

(***************************************************************************)
(* The loop of a handler: a command is read and recycled, then executed.   *)
(***************************************************************************)
Command(c) == ReadPacket(toListener[c], 0)

Got(c, type) ==
  /\ handler[c].stage = "idle"
  /\ conn[c].policy = "unused"
  /\ toListener[c] # <<>>
  /\ Command(c).status = "ok"
  /\ Command(c).data.type = type
  /\ toListener' = [toListener EXCEPT ![c] = Command(c).rest]

Closed == [Idle EXCEPT !.stage = "closed"]

(* The handler goes on to stage s with the command. *)
BeginWith(c, s, cmd) ==
  /\ handler' = [handler EXCEPT ![c] = [Idle EXCEPT !.stage = s, !.cmd = cmd]]
  /\ conn' = [conn EXCEPT ![c] = [seq |-> Command(c).seq, policy |-> "unused"]]
  /\ UNCHANGED <<toClient, client, back, link, pool, losses, login>>

Begin(c, s) == BeginWith(c, s, Command(c).data)

(* The handler answers at once. *)
Reply(c, packets, s) ==
  LET fs == Framed(packets, Command(c).seq)
  IN  /\ toClient' = [toClient EXCEPT ![c] = fs]
      /\ conn' = [conn EXCEPT ![c] = [seq |-> (Command(c).seq + Len(fs)) % SeqSize, policy |-> "unused"]]
      /\ handler' = [handler EXCEPT ![c] = s]
      /\ UNCHANGED <<client, back, link, pool, losses, login>>

ComQuit(c) ==
  /\ Got(c, "quit") /\ Reply(c, <<>>, Closed)
  /\ UNCHANGED <<shared, history>>

ComInitDB(c) ==
  /\ Got(c, "initDB") /\ Begin(c, "get")
  /\ schemaName' = c
  /\ UNCHANGED <<capabilities, statementID, stmts, history>>

(* A statement that does not parse is answered at once. *)
ComQuery(c) ==
  /\ Got(c, "query")
  /\ IF Command(c).data.sql = "bad" THEN Reply(c, <<Err>>, Idle) ELSE Begin(c, "get")
  /\ UNCHANGED <<shared, history>>

ComPing(c) ==
  /\ Got(c, "ping") /\ Reply(c, <<OK>>, Idle)
  /\ UNCHANGED <<shared, history>>

ComFieldList(c) ==
  /\ Got(c, "fieldList") /\ Begin(c, "get")
  /\ UNCHANGED <<shared, history>>

(* The id is taken in two steps: it is incremented, then read.  A statement
   that does not parse is answered by an error packet, and then its missing
   syntax tree makes the handler panic. *)
ComPrepare(c) ==
  /\ Got(c, "prepare") /\ Begin(c, "storeStmt")
  /\ statementID' = statementID + 1
  /\ UNCHANGED <<capabilities, schemaName, stmts, history>>

Params(sql) == IF sql = "read" THEN 1 ELSE 0

WritePrepare(sql) ==
  <<[kind |-> "prepareOK", len |-> 1, id |-> statementID, sql |-> sql]>>
  \o (IF Params(sql) > 0 THEN <<ColumnDefinition>> \o FieldsEOF ELSE <<>>)

StoreStmt(c) ==
  LET sql == handler[c].cmd.sql
  IN  /\ handler[c].stage = "storeStmt"
      /\ IF sql = "bad" THEN stmts' = stmts /\ Answer(c, <<Err>>, Closed)
         ELSE /\ stmts' = [i \in DOMAIN stmts \cup {statementID} |->
                             IF i = statementID THEN sql ELSE stmts[i]]
              /\ Answer(c, WritePrepare(sql), Idle)
      /\ UNCHANGED <<capabilities, schemaName, statementID, toListener, client, back, link, pool, losses, history, login>>

(* ParseComStmtExecute: the statement must be known and its parameter must
   parse. *)
Arg(cmd) == ParseStmtArgs(MySQLToType(cmd.param.typ, ParamFlags(cmd.param.unsigned)), Encode(cmd.param))

ComStmtExecute(c) ==
  LET cmd == Command(c).data
  IN  /\ Got(c, "execute")
      /\ IF cmd.id \notin DOMAIN stmts THEN Reply(c, <<Err>>, Idle)
         ELSE IF Params(stmts[cmd.id]) > 0 /\ Arg(cmd) = Malformed THEN Reply(c, <<Err>>, Idle)
         ELSE BeginWith(c, "get", [cmd EXCEPT !.sql = stmts[cmd.id]])
      /\ UNCHANGED <<shared, history>>

ComStmtClose(c) ==
  /\ Got(c, "stmtClose") /\ Reply(c, <<>>, Idle)
  /\ stmts' = [i \in DOMAIN stmts \ {Command(c).data.id} |-> stmts[i]]
  /\ UNCHANGED <<capabilities, schemaName, statementID, history>>

(* The id is read at the wrong place and looked up with the wrong type: it is
   never found, and the error ends the connection, buffer and all. *)
ComStmtSendLongData(c) ==
  /\ Got(c, "longData") /\ Reply(c, <<>>, Closed)
  /\ UNCHANGED <<shared, history>>

(* An unknown statement makes the handler panic. *)
ComStmtReset(c) ==
  /\ Got(c, "stmtReset")
  /\ IF Command(c).data.id \in DOMAIN stmts THEN Reply(c, <<OK>>, Idle) ELSE Reply(c, <<>>, Closed)
  /\ UNCHANGED <<shared, history>>

(* An operation that is not known is answered twice. *)
ComSetOption(c) ==
  /\ Got(c, "setOption")
  /\ CASE Command(c).data.sql = "short" -> Reply(c, <<Err>>, Idle)
       [] Command(c).data.sql = "other" -> Reply(c, <<Err, EndResult>>, Idle)
       [] OTHER -> Reply(c, <<EndResult>>, Idle)
  /\ UNCHANGED <<shared, history>>

ComResetConnection(c) ==
  /\ Got(c, "resetConnection") /\ Reply(c, <<OK>>, Idle)
  /\ UNCHANGED <<shared, history>>

(* A command the listener does not know is not recycled, nor answered. *)
UnknownCommand(c) ==
  /\ Got(c, "unknown")
  /\ conn' = [conn EXCEPT ![c] = [seq |-> Command(c).seq, policy |-> "read"]]
  /\ UNCHANGED <<shared, handler, toClient, client, back, link, pool, losses, history, login>>

(* ReadEphemeralPacket panics over a packet that was not recycled. *)
ReadPanics(c) ==
  /\ handler[c].stage = "idle"
  /\ conn[c].policy # "unused"
  /\ handler' = [handler EXCEPT ![c] = Closed]
  /\ toListener' = [toListener EXCEPT ![c] = <<>>]
  /\ UNCHANGED <<shared, conn, toClient, client, back, link, pool, losses, history, login>>

(***************************************************************************)
(* A pooled connection.                                                    *)
(***************************************************************************)
Tag(c) == <<c, client[c].sent>>
Holds(c, b) == handler[c].b = {b}

(* connCheck reads one byte of what the server sent when nothing is expected:
   the command fails, and what is left of the bytes makes the next one fail. *)
ConnCheck(b) == back[b].lost = "no" /\ kernel[b] = <<>>

(* The command fails, b is put back. *)
Fail(c, b) ==
  /\ handler' = [handler EXCEPT ![c].stage = "answer", ![c].b = {b},
                                ![c].result = [kind |-> "err", of |-> Tag(c), doubt |-> FALSE, rows |-> <<>>]]
  /\ pool' = pool \cup {b}

Wrote(b, type, sql, len, more) ==
  LET n == Len(WritePacket(type, len, 0))
  IN  /\ back' = [back EXCEPT ![b].seq = n % SeqSize]
      /\ toServer' = [toServer EXCEPT ![b] = Append(@, [type |-> type, sql |-> sql, seq |-> n % SeqSize] @@ more)]
      /\ UNCHANGED <<kernel, buffered>>

FrontVars == <<shared, conn, toListener, toClient, client, losses, torn, login>>

(* Send the first command on b. *)
SendFirst(c, b) ==
  LET cmd == handler[c].cmd
      type == IF cmd.type = "execute" THEN "prepare" ELSE cmd.type
  IN  /\ handler' = [handler EXCEPT ![c].stage = IF type = "query" THEN "first" ELSE type, ![c].b = {b},
                                    ![c].result = [kind |-> "none", of |-> Tag(c), doubt |-> FALSE, rows |-> <<>>,
                                                   sql |-> cmd.sql]]
      /\ Wrote(b, type, cmd.sql, cmd.len, [of |-> Tag(c), cmd |-> cmd])
      /\ unread' = IF cmd.sql = "call" THEN unread \cup {b} ELSE unread

\* Mutant: a connection is borrowed although another handler has it.
FirstCommandShared(c, b) ==
  /\ handler[c].stage = "get" /\ handler[c].cmd.type # "initDB"
  /\ SendFirst(c, b) /\ pool' = pool \ {b} /\ UNCHANGED FrontVars

(* Borrow a connection and send a command.  A buffer that was not recycled
   makes the handler panic. *)
FirstCommand(c, b) ==
  /\ handler[c].stage = "get" /\ handler[c].cmd.type # "initDB"
  /\ b \in pool
  /\ CASE back[b].policy # "unused" ->
             handler' = [handler EXCEPT ![c] = Closed] /\ UNCHANGED <<pool, back, link, unread>>
       [] back[b].policy = "unused" /\ ~ConnCheck(b) ->
             Fail(c, b) /\ (\E k \in {kernel[b], <<>>} : kernel' = [kernel EXCEPT ![b] = k])
             /\ UNCHANGED <<back, toServer, buffered, unread>>
       [] OTHER -> SendFirst(c, b) /\ pool' = pool \ {b}
  /\ UNCHANGED FrontVars

\* Mutant: COM_INIT_DB waits for nothing and the listener's OK is forgotten too.
UseDBSilent(c, b) ==
  /\ handler[c].stage = "get" /\ handler[c].cmd.type = "initDB"
  /\ b \in pool /\ back[b].policy = "unused" /\ ConnCheck(b)
  /\ Wrote(b, "initDB", "", 1, [of |-> Tag(c), cmd |-> handler[c].cmd])
  /\ unread' = unread \cup {b}
  /\ Answer(c, <<>>, Idle)
  /\ UNCHANGED <<shared, toListener, client, losses, torn, login, pool>>

(* UseDB writes COM_INIT_DB and puts the connection back without reading the
   answer; an error ends the connection of the client unanswered. *)
UseDB(c, b) ==
  /\ handler[c].stage = "get" /\ handler[c].cmd.type = "initDB"
  /\ b \in pool
  /\ IF back[b].policy = "unused" /\ ConnCheck(b)
     THEN /\ Wrote(b, "initDB", "", 1, [of |-> Tag(c), cmd |-> handler[c].cmd])
          /\ unread' = unread \cup {b}
          /\ Answer(c, <<OK>>, Idle)
     ELSE /\ \E k \in {kernel[b], <<>>} : kernel' = [kernel EXCEPT ![b] = k]
          /\ handler' = [handler EXCEPT ![c] = Closed]
          /\ UNCHANGED <<toServer, buffered, back, unread, conn, toClient>>
  /\ UNCHANGED <<shared, toListener, client, losses, torn, login, pool>>

(* After the answer to COM_PREPARE, the arguments are converted and sent; a
   long one first, in a packet the server does not understand. *)
Sent(cmd) == writeExecutePacket(ConvertValue(Arg(cmd)), LongDataSize)

SendExecute(c, b) ==
  LET cmd == handler[c].cmd
      sql == handler[c].result.sql
      more == [of |-> Tag(c), cmd |-> cmd]
      param == IF Params(sql) = 0 THEN [typ |-> "NULL", flags |-> {}, w |-> [size |-> 0]] ELSE Sent(cmd)
  IN  /\ handler[c].stage = "sendExecute" /\ Holds(c, b)
      /\ IF (Params(sql) > 0 /\ ConvertValue(Arg(cmd)) = Malformed) \/ ~ConnCheck(b)
         THEN Fail(c, b) /\ UNCHANGED <<back, link, unread>>
         ELSE /\ handler' = [handler EXCEPT ![c].stage = "first"]
              /\ IF param.typ = "LongData"
                 THEN /\ back' = [back EXCEPT ![b].seq = 1]
                      /\ toServer' = [toServer EXCEPT ![b] = @ \o <<[type |-> "sleep", sql |-> "", seq |-> 1] @@ more,
                                                        [type |-> "execute", sql |-> "fail", seq |-> 1] @@ more>>]
                      /\ unread' = unread \cup {b}
                      /\ UNCHANGED <<kernel, buffered>>
                 ELSE /\ Wrote(b, "execute", sql, 1, more @@ [param |-> param])
                      /\ unread' = IF sql = "call" THEN unread \cup {b} ELSE unread
              /\ pool' = pool
      /\ UNCHANGED FrontVars

(* The next packet: from the buffered reader, which takes all there is from
   the socket when it runs dry. *)
Peek(b) ==
  LET inBuffer == ReadPacket(buffered[b], back[b].seq)
  IN  IF buffered[b] # <<>> /\ inBuffer.status # "wait" THEN [r |-> inBuffer, kernel |-> kernel[b]]
      ELSE [r |-> ReadPacket(buffered[b] \o kernel[b], back[b].seq), kernel |-> <<>>]

Reading == {"first", "column", "fieldsEOF", "rows", "prepare", "params", "columns", "fieldList"}

Read(c, b, kind) ==
  /\ Holds(c, b) /\ handler[c].stage \in Reading
  /\ back[b].lost # "garbled"
  /\ Peek(b).r.status = "ok"
  /\ Peek(b).r.data.kind = kind
  /\ buffered' = [buffered EXCEPT ![b] = Peek(b).r.rest]
  /\ kernel' = [kernel EXCEPT ![b] = Peek(b).kernel]
  /\ back' = [back EXCEPT ![b].seq = Peek(b).r.seq]
  /\ UNCHANGED <<FrontVars, toServer, unread>>

Goto(c, stage) == handler' = [handler EXCEPT ![c].stage = stage] /\ pool' = pool
Done(c, b, kind) ==
  /\ handler' = [handler EXCEPT ![c].stage = "answer", ![c].result.kind = kind, ![c].result.of = Peek(b).r.data.of,
                                ![c].result.doubt = b \in unread]
  /\ pool' = pool \cup {b}

(* After the packets of COM_PREPARE.  columns: only a query has some. *)
AfterParams(c) == Goto(c, IF handler[c].result.sql \in {"read", "call"} THEN "columns" ELSE "sendExecute")

ReadOK(c, b) ==
  /\ Read(c, b, "ok")
  /\ CASE handler[c].stage = "first" -> Done(c, b, "ok")
       [] handler[c].stage = "prepare" -> Done(c, b, "err") \/ Goto(c, "params")
       [] handler[c].stage \in {"params", "columns"} -> Goto(c, handler[c].stage)
       [] OTHER -> Done(c, b, "err")

ReadErr(c, b) == Read(c, b, "err") /\ Done(c, b, "err")

ReadPrepareOK(c, b) ==
  /\ Read(c, b, "prepareOK")
  /\ CASE handler[c].stage = "prepare" ->
             IF Params(handler[c].result.sql) > 0 THEN Goto(c, "params") ELSE AfterParams(c)
       [] handler[c].stage \in {"params", "columns"} -> Goto(c, handler[c].stage)
       [] OTHER -> Done(c, b, "err")

ReadCount(c, b) ==
  /\ Read(c, b, "count")
  /\ CASE handler[c].stage = "first" -> handler' = [handler EXCEPT ![c].stage = "column", ![c].result.of = Peek(b).r.data.of,
                                                                      ![c].result.doubt = b \in unread]
                                        /\ pool' = pool
       [] handler[c].stage \in {"params", "columns"} -> Goto(c, handler[c].stage)
       [] OTHER -> Done(c, b, "err")

ReadColumn(c, b) ==
  /\ Read(c, b, "column")
  /\ CASE handler[c].stage = "column" -> Goto(c, "fieldsEOF")
       [] handler[c].stage \in {"params", "columns", "fieldList"} -> Goto(c, handler[c].stage)
       [] OTHER -> Done(c, b, "err")

\* Mutant: a result set is taken to end where its columns do.
ReadEOFEarly(c, b) ==
  /\ Read(c, b, "eof")
  /\ IF handler[c].stage = "params" THEN AfterParams(c) ELSE IF handler[c].stage = "columns" THEN Goto(c, "sendExecute")
     ELSE Done(c, b, "rows")

(* The fields are put in a slice that is too short: panic. *)
ReadFieldList(c, b) == handler' = [handler EXCEPT ![c] = Closed] /\ pool' = pool \cup {b}

ReadEOF(c, b) ==
  /\ Read(c, b, "eof")
  /\ CASE handler[c].stage = "fieldsEOF" -> Goto(c, "rows")
       [] handler[c].stage = "rows" -> Done(c, b, "rows")
       [] handler[c].stage = "params" -> AfterParams(c)
       [] handler[c].stage = "columns" -> Goto(c, "sendExecute")
       [] handler[c].stage = "fieldList" -> ReadFieldList(c, b)
       [] OTHER -> Done(c, b, "err")

(* Rows are decoded when the executor has them all (decodeResult). *)
ReadRow(c, b) ==
  /\ Read(c, b, "row")
  /\ CASE handler[c].stage = "rows" ->
             handler' = [handler EXCEPT ![c].result.rows = Append(@, Peek(b).r.data)] /\ pool' = pool
       [] handler[c].stage \in {"params", "columns"} -> Goto(c, handler[c].stage)
       [] OTHER -> Done(c, b, "err")

(* A frame with the wrong number: its header is consumed and its body is not,
   so that nothing read from this connection makes sense any more. *)
ReadOutOfSequence(c, b) ==
  /\ Holds(c, b) /\ handler[c].stage \in Reading
  /\ back[b].lost = "garbled" \/ Peek(b).r.status = "bad"
  /\ back' = [back EXCEPT ![b].lost = "garbled"]
  /\ Fail(c, b)
  /\ UNCHANGED <<FrontVars, link, unread>>

(* The server is gone.  When it went after a header, the packet was started
   and is not recycled, except where rows are read. *)
ReadLost(c, b) ==
  /\ Holds(c, b) /\ handler[c].stage \in Reading
  /\ back[b].lost \in {"clean", "mid"}
  /\ Peek(b).r.status = "wait"
  /\ back' = [back EXCEPT ![b].lost = "clean",
                          ![b].policy = IF back[b].lost = "mid" /\ handler[c].stage # "rows" THEN "read" ELSE @]
  /\ Fail(c, b)
  /\ UNCHANGED <<FrontVars, link, unread>>

(***************************************************************************)
(* The server and the pool.                                                *)
(***************************************************************************)
ResultSet(cmd) == <<ColumnCount, ColumnDefinition, EOF>>
                  \o [i \in 1..cmd.rows |-> [kind |-> "row", len |-> cmd.rowLen, value |-> cmd.value, last |-> cmd.last]]
                  \o <<EOF>>

ServerPackets(q) ==
  CASE q.sql = "fail" \/ q.type = "sleep" -> <<Err>>
    [] q.type = "initDB" -> <<OK>>
    [] q.type = "fieldList" -> <<ColumnDefinition, EOF>>
    [] q.type = "prepare" -> <<Pkt("prepareOK")>> \o (IF Params(q.sql) > 0 THEN <<ColumnDefinition, EOF>> ELSE <<>>)
                             \o (IF q.sql \in {"read", "call"} THEN <<ColumnDefinition, EOF>> ELSE <<>>)
    [] q.sql = "write" -> <<OK>>
    [] q.sql = "read" -> ResultSet(q.cmd)
    [] q.sql = "call" -> ResultSet(q.cmd) \o <<OK>>

ServerAnswers(b) ==
  /\ toServer[b] # <<>> /\ back[b].lost = "no"
  /\ LET q == Head(toServer[b])
         packets == [i \in DOMAIN ServerPackets(q) |-> [of |-> q.of] @@ ServerPackets(q)[i]]
     IN  kernel' = [kernel EXCEPT ![b] = @ \o Framed(packets, q.seq)]
  /\ toServer' = [toServer EXCEPT ![b] = Tail(@)]
  /\ UNCHANGED <<FrontVars, handler, back, buffered, pool, unread>>

(* The server goes away, between two packets or inside one. *)
ServerLost(b) ==
  /\ Up(b) /\ back[b].lost = "no" /\ losses < MaxLosses
  /\ losses' = losses + 1
  /\ \E how \in {"clean", "mid"} : back' = [back EXCEPT ![b].lost = how]
  /\ toServer' = [toServer EXCEPT ![b] = <<>>]
  /\ UNCHANGED <<shared, handler, conn, toListener, toClient, client, kernel, buffered, pool, history, login>>

(* A connection is made and logs in. *)
Login(b) ==
  /\ \/ Connect(b) \/ LoginStep(b)
  /\ pool' = IF login'[b].step = "up" THEN pool \cup {b} ELSE pool
  /\ UNCHANGED <<shared, handler, conn, toListener, toClient, client, back, link, losses, history>>

(* A connection that idles too long is replaced by one that has logged in. *)
Replace(b) ==
  /\ b \in pool /\ back[b].lost # "no"
  /\ back' = [back EXCEPT ![b] = [seq |-> 0, policy |-> "unused", lost |-> "no"]]
  /\ toServer' = [toServer EXCEPT ![b] = <<>>]
  /\ kernel' = [kernel EXCEPT ![b] = <<>>]
  /\ buffered' = [buffered EXCEPT ![b] = <<>>]
  /\ unread' = unread \ {b}
  /\ UNCHANGED <<shared, handler, conn, toListener, toClient, client, losses, pool, torn, login>>

(***************************************************************************)
(* The listener writes the result.                                         *)
(***************************************************************************)
BackVars == <<shared, toListener, client, back, link, pool, losses, history, login>>

(* The end of a COM_STMT_EXECUTE makes new bind variables for its statement:
   one that was closed by another client meanwhile makes the handler panic. *)
After(c) == IF handler[c].cmd.type = "execute" /\ handler[c].cmd.id \notin DOMAIN stmts THEN Closed ELSE Idle

TypeOf(v) == IF v.typ = "NULL" THEN "NULL" ELSE MySQLToType(v.typ, IF v.unsigned THEN {"unsigned"} ELSE {})

(* The rows of a prepared statement are binary. *)
Decoded(row) == BinaryDecode(TypeOf(row.value), Encode(row.value), row.last)
DecodePanics(c) == /\ handler[c].result.kind = "rows" /\ handler[c].cmd.type = "execute"
                   /\ \E i \in DOMAIN handler[c].result.rows : Decoded(handler[c].result.rows[i]) = Panics

(* The result, or what comes before its rows; then comes state s.  A row that
   cannot be decoded makes the handler panic before anything is written. *)
WriteTo(c, s) ==
  LET r == handler[c].result
  IN  /\ CASE r.kind = "ok" -> Answer(c, <<OK>>, s)
           [] r.kind = "err" -> Answer(c, <<Err>>, s)
           [] r.kind = "rows" -> IF DecodePanics(c) THEN Answer(c, <<>>, Closed)
                                 ELSE Answer(c, WriteFields(1), [handler[c] EXCEPT !.stage = "writeRows"])
      /\ UNCHANGED BackVars

(* After the error packet of a field list its columns follow all the same. *)
WriteResult(c) ==
  /\ handler[c].stage = "answer" /\ handler[c].cmd.type # "execute"
  /\ IF handler[c].cmd.type = "fieldList" THEN Answer(c, <<Err>> \o WriteFields(0), Idle) /\ UNCHANGED BackVars
     ELSE WriteTo(c, Idle)

WriteExecuteResult(c) ==
  handler[c].stage = "answer" /\ handler[c].cmd.type = "execute" /\ WriteTo(c, After(c))

(* A binary row is encoded again into a packet of the length that was computed
   for it.  What does not fit is cut off: the row is not whole. *)
writeBinaryRow(row) ==
  LET x == Decoded(row)
  IN  [kind |-> "row", len |-> row.len, sent |-> row.value, last |-> row.last, binary |-> TRUE,
       whole |-> Written(x) = BinaryVal2MySQLLen(x), w |-> BinaryVal2MySQL(x)]
WriteTextRow(row) ==
  [kind |-> "row", len |-> row.len, sent |-> row.value, last |-> row.last, binary |-> FALSE,
   head |-> writeTextRow(TextDecode(TextOf(row.value)))]

(* A packet that is not filled is an error: the connection ends, after the rows
   before. *)
WriteRows(c) ==
  LET rows == handler[c].result.rows
      binary == handler[c].cmd.type = "execute"
      written(row) == IF binary THEN writeBinaryRow(row) ELSE WriteTextRow(row)
      short == {i \in DOMAIN rows : binary /\ Written(Decoded(rows[i])) < BinaryVal2MySQLLen(Decoded(rows[i]))}
  IN  /\ handler[c].stage = "writeRows"
      /\ IF short = {}
         THEN Answer(c, [i \in DOMAIN rows |-> written(rows[i])] \o <<EndResult>>, After(c))
         ELSE Answer(c, [i \in 1..Min(short) - 1 |-> written(rows[i])], Closed)
      /\ UNCHANGED BackVars

(* Everything is said: no command can be sent or is under way. *)
Terminating ==
  /\ \A c \in Clients : \/ handler[c].stage = "closed"
                        \/ handler[c].stage = "idle" /\ client[c].stage = "ready" /\ client[c].sent = Len(script[c])
  /\ UNCHANGED vars

(* A login touches nothing but its own connection, which nobody can borrow yet:
   it commutes with all other steps and is taken first. *)
Next ==
  \/ \E c \in Clients :
       /\ \A b \in Backends : Up(b)
       /\ \/ Handshake(c) \/ SendCommand(c) \/ Receive(c)
          \/ ComQuit(c) \/ ComInitDB(c) \/ ComQuery(c) \/ ComPing(c) \/ ComFieldList(c) \/ ComPrepare(c) \/ StoreStmt(c)
          \/ ComStmtExecute(c) \/ ComStmtClose(c) \/ ComStmtSendLongData(c) \/ ComStmtReset(c) \/ ComSetOption(c)
          \/ ComResetConnection(c) \/ UnknownCommand(c) \/ ReadPanics(c)
          \/ WriteResult(c) \/ WriteExecuteResult(c) \/ WriteRows(c)
          \/ \E b \in Backends :
               \/ FirstCommand(c, b) \/ UseDB(c, b) \/ SendExecute(c, b)
               \/ ReadOK(c, b) \/ ReadErr(c, b) \/ ReadPrepareOK(c, b) \/ ReadCount(c, b) \/ ReadColumn(c, b)
               \/ ReadEOF(c, b) \/ ReadRow(c, b) \/ ReadOutOfSequence(c, b) \/ ReadLost(c, b)
  \/ \E b \in Backends :
       \/ Login(b)
       \/ (\A a \in Backends : Up(a)) /\ (ServerAnswers(b) \/ ServerLost(b) \/ Replace(b))
  \/ Terminating

Spec == Init /\ [][Next /\ UNCHANGED script]_vars

(***************************************************************************)
(* Properties.                                                             *)
(***************************************************************************)
(* What a client may read as the answer to its command. *)
Rows(n) == [i \in 1..n |-> "row"]
IsResult(kinds, deprecated) ==
  \/ kinds \in {<<"ok">>, <<"err">>}
  \/ \E n \in 0..Len(kinds) :
       kinds = <<"count", "column">> \o (IF deprecated THEN <<>> ELSE <<"eof">>) \o Rows(n)
               \o <<IF deprecated THEN "okEOF" ELSE "eof">>
IsAnswer(cmd, kinds, deprecated) ==
  CASE cmd.type \in {"query", "execute"} -> IsResult(kinds, deprecated)
    [] cmd.type = "prepare" -> kinds \in {<<"err">>, <<"prepareOK">>, <<"prepareOK", "column">>
                                           \o IF deprecated THEN <<>> ELSE <<"eof">>}
    [] cmd.type \in {"ping", "initDB", "stmtReset", "resetConnection"} -> kinds = <<"ok">>
    [] cmd.type = "setOption" -> kinds \in {<<"err">>, <<IF deprecated THEN "okEOF" ELSE "eof">>}
    [] OTHER -> kinds = <<>>

(* When a command is done, its client has the whole answer and nothing else, in
   frames that carry consecutive numbers from the command's on (ExecuteCommand,
   WritePacket).  Known to fail, and left out: COM_FIELD_LIST and an unknown
   COM_SET_OPTION are answered twice, and a client is answered in the framing
   of whoever shook hands last (capabilities is a field of the listener). *)
AnswersAreWhole ==
  \A c \in Clients :
    LET cmd == client[c].cmd
        fs == toClient[c]
        asked == Len(WritePacket(cmd, cmd.len, 0))
    IN  (/\ client[c].stage = "waiting" /\ toListener[c] = <<>>
         /\ handler[c].stage = "idle" /\ conn[c].policy = "unused"
         /\ c \notin torn
         /\ cmd.type # "fieldList" /\ ~(cmd.type = "setOption" /\ cmd.sql = "other"))
        => /\ IsAnswer(cmd, Kinds(c), c \in DeprecateEOF)
           /\ \A i \in DOMAIN fs :
                /\ fs[i].seq = (asked + i - 1) % SeqSize
                /\ (i = Len(fs) \/ fs[i + 1].first) => fs[i].len < MaxPacketSize

(* A result that is handed to a client is the server's answer to that client's
   command (ReadQueryResult, prepare), unless the connection was left with an
   answer to read: by COM_INIT_DB, whose OK nobody reads, by the second result
   of a CALL, and by a long parameter. *)
AnswersAreOwn ==
  \A c \in Clients :
    handler[c].stage \in {"answer", "writeRows"} => handler[c].result.of = Tag(c) \/ handler[c].result.doubt

(* A connection in the pool was let in by the server: no path through plugins,
   switches and keys ends early (handleAuthResult).  It goes back to the pool
   with every answer read to its end and its buffer recycled, on every path of reading and every error the server sends;
   the exceptions are those three commands and a lost connection. *)
PutBackClean ==
  \A b \in pool :
    /\ login[b].serverOK
    /\ \/ toServer[b] = <<>> /\ kernel[b] = <<>> /\ buffered[b] = <<>> /\ back[b].policy = "unused"
       \/ b \in unread
       \/ back[b].lost # "no"

(* The answer has the framing its client negotiated when it connected. *)
NegotiatedFraming ==
  \A c \in Clients :
    /\ client[c].stage = "waiting" /\ toListener[c] = <<>> /\ handler[c].stage = "idle"
    /\ client[c].cmd.type \in {"query", "prepare", "execute"}
    => IsAnswer(client[c].cmd, Kinds(c), c \in DeprecateEOF)

(* ReadQueryResult: the result that is read is the one of the command written
   last on the connection. *)
ResultOfLastCommand ==
  \A c \in Clients :
    handler[c].stage \in {"answer", "writeRows"} => handler[c].result.of = Tag(c)

(* A client executes the statement it prepared, although all clients share the
   counter of statement ids and the table of statements (ComPrepare). *)
StatementIsOwn ==
  \A c \in Clients :
    handler[c].stage = "get" /\ handler[c].cmd.type = "execute"
      => handler[c].cmd.sql = client[c].sql

(* The values that do not survive ParseStmtArgs and writeExecutePacket: unsigned
   numbers beyond the signed range, whose flag is looked for in the wrong bit,
   and the zero date, which is sent as a blank. *)
LossyParam(v) == \/ v.typ \in IntTypes /\ v.unsigned /\ v.v >= 2^(Bits[v.typ] - 1)
                 \/ v.typ = "DateTime" /\ v.v = Zero

\* What the server reads is the parameter the client sent.
ParamsArrive ==
  \A b \in Backends : \A i \in DOMAIN toServer[b] :
    LET q == toServer[b][i]
        got == CASE q.param.typ = "LongLong" -> Signed(q.param.w.n, Bits["LongLong"])
                 [] q.param.typ = "Text" -> q.param.w
                 [] q.param.typ = "String" -> Decode("String", FALSE, q.param.w).v
                 [] OTHER -> "NULL"
    IN  q.type = "execute" /\ q.sql = "read"
          => LossyParam(q.cmd.param) \/ got = IF q.cmd.param.typ = "NULL" THEN "NULL" ELSE q.cmd.param.v

(* The values of a binary row that do not survive: a date with a time of day,
   for which more is computed than written, so that the connection ends, or
   whose fraction is divided; midnight with a fraction, which is cut off; the
   zero date, which becomes 0001-01-01; a time, of which the sign is left; and
   a zero date or time in the last column, which makes the handler panic. *)
LossyValue(v, last) ==
  \/ v.typ = "DateTime" /\ (v.v = Zero \/ v.v.clock # 0 \/ v.v.micro # 0)
  \/ v.typ = "Time" /\ (last \/ v.v.clock # 0 \/ v.v.micro # 0)

\* What a client reads is the value the server sent, and the whole of it.
ValuesArrive ==
  \A c \in Clients : \A i \in DOMAIN toClient[c] :
    LET row == toClient[c][i].data
    IN  /\ row.kind = "row" /\ ~row.binary => row.head = TextOf(row.sent)
        /\ row.kind = "row" /\ row.binary /\ ~LossyValue(row.sent, row.last)
             => /\ row.whole
                /\ (IF row.sent.typ = "NULL" THEN NULL
                      ELSE LET t == TypeToMySQL(TypeOf(row.sent))
                           IN  Decode(t.typ, "unsigned" \in t.flags, row.w)) = row.sent

\* A query is answered, unless an unknown command or a lost connection before
\* it left a buffer that makes the handler panic, and its result has as many
\* rows as the server sent.
RowsArrive ==
  \A c \in Clients :
    LET cmd == client[c].cmd
        kinds == Kinds(c)
    IN  /\ client[c].stage = "waiting" /\ toListener[c] = <<>> /\ handler[c].stage \in {"idle", "closed"}
        /\ cmd.type = "query" \/ (cmd.type = "execute" /\ ~LossyValue(cmd.value, cmd.last))
        => /\ kinds # <<>> \/ conn[c].policy # "unused" \/ losses > 0
           /\ kinds # <<>> /\ kinds[1] = "count" => Cardinality({i \in DOMAIN kinds : kinds[i] = "row"}) = cmd.rows

(* Values survive both conversions: apart from LossyParam every parameter
   reaches the server as the client sent it (ParseStmtArgs, writeExecutePacket),
   and apart from LossyValue every value the server sent reaches the client,
   unchanged and in a row that is not cut off: in binary rows (BinaryRow.Decode,
   BinaryVal2MySQL, BinaryVal2MySQLLen, writeBinaryRows) and in text rows
   (TextRow.Decode, writeTextRow). *)
ValuesSurvive == ParamsArrive /\ ValuesArrive /\ RowsArrive
=============================================================================
