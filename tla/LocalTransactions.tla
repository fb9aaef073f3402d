------------------------- MODULE LocalTransactions -------------------------
(***************************************************************************)
(* Local transactions of the MySQL proxy: the listener runs one handler    *)
(* goroutine per client connection, the executor keeps the transaction of  *)
(* each connection in localTransactionMap, and a transaction owns a        *)
(* backend connection taken from the pool of its database until it ends.   *)
(*                                                                         *)
(*   listener/mysql.go            accepted, Accept, Quit, Drop, Leave      *)
(*   executor/single_db.go        localTransactionMap, what a statement is *)
(*   sql/db.go, sql/tx.go         tx, BEGIN, COMMIT, ROLLBACK, statements  *)
(*   third_party/pools            pool, Get, Put                           *)
(*   the MySQL server             session, outcome (external)              *)
(*                                                                         *)
(* A handler is a goroutine: h[c] holds what it keeps between two accesses *)
(* to what it shares with the others.                                      *)
(***************************************************************************)
EXTENDS Naturals, Sequences, FiniteSets, SequencesExt

CONSTANTS N,         \* client connections opened: 1 .. N
          MaxTx,     \* bound: transactions begun: 1 .. MaxTx
          Backend,   \* connections of the pool, at its full capacity
          MaxCap,    \* length of the pool's channel, max_capacity
          None, Broken,
          Faults     \* what may happen, see FaultNames

Client == 1 .. N
Tx == 1 .. MaxTx

(***************************************************************************)
(*   overlap   a connection ends while others are open or opened           *)
(*   nested    a client sends BEGIN inside a transaction                   *)
(*   dbError   a backend connection breaks                                 *)
(***************************************************************************)
FaultNames == {"overlap", "nested", "dbError"}

ASSUME LocalAssumption ==
  /\ N \in Nat /\ MaxTx \in Nat
  /\ IsFiniteSet(Backend)
  /\ MaxCap \in Nat /\ MaxCap >= Cardinality(Backend)
  /\ {None, Broken} \cap (Backend \cup Tx) = {} /\ None # Broken
  /\ Faults \subseteq FaultNames

VARIABLES accepted,             \* l.connectionID
          localTransactionMap,  \* transaction of a connection, or None
          tx,                   \* tx[t].conn: None before BEGIN, after Close
          pool,                 \* the channel of free connections
          h,                    \* the handlers
          session,              \* open transaction of a backend session
          outcome,              \* what the server did with a transaction
          asked,                \* transactions whose client sent COMMIT
          crashed               \* a panic nobody recovers from

lvars == <<accepted, localTransactionMap, tx, pool, h, session, outcome,
           asked, crashed>>
server == <<session, outcome>>

\* A handler at pc that ends transaction t of connection key for op, or
\* holds connection b.
At(pc, op, key, t, b) ==
  [pc |-> pc, op |-> op, key |-> key, t |-> t, b |-> b]

Plain(pc) == At(pc, "none", None, None, None)
Reading == Plain("read")
Leaving == Plain("leaving")
Gone == Plain("gone")

Init ==
  /\ accepted = 0
  /\ localTransactionMap = [c \in Client |-> None]
  /\ tx = [t \in Tx |-> None]
  /\ pool \in Bijection(1 .. Cardinality(Backend), Backend)
  /\ h = [c \in Client |-> Plain("none")]
  /\ session = [b \in Backend |-> None]
  /\ outcome = [t \in Tx |-> "none"]
  /\ asked = {}
  /\ crashed = FALSE

---------------------------------------------------------------------------
(***************************************************************************)
(* Helpers.  A handler that panics is recovered in handle, which closes    *)
(* its connection; but the ConnectionClose of that same deferred function  *)
(* runs after recover() and nobody recovers its panic.                     *)
(***************************************************************************)
Become(c, r) == h' = [h EXCEPT ![c] = r]
Goto(c, pc) == Become(c, At(pc, h[c].op, h[c].key, h[c].t, h[c].b))

\* Mutant: a nil transaction is stored instead.
StoreNil(k) ==
  localTransactionMap' = [localTransactionMap EXCEPT ![k] = Broken]

DeleteTx(k) == localTransactionMap' = [localTransactionMap EXCEPT ![k] = None]

\* A COMMIT or ROLLBACK statement deletes its map entry in a deferred call.
Panic(c) ==
  IF h[c].op = "closing"
    THEN /\ crashed' = TRUE
         /\ UNCHANGED <<h, localTransactionMap>>
    ELSE /\ Become(c, Leaving)
         /\ IF h[c].op \in {"commit", "rollback"}
              THEN DeleteTx(h[c].key)
              ELSE UNCHANGED localTransactionMap
         /\ UNCHANGED crashed

\* The server ends the transaction open in a session, if any.
Settle(b, how) ==
  outcome' = IF session[b] \in Tx THEN [outcome EXCEPT ![session[b]] = how]
                                  ELSE outcome

\* The connection breaks; the server rolls back what was open in it.
Break(b) ==
  /\ "dbError" \in Faults
  /\ session' = [session EXCEPT ![b] = Broken]
  /\ Settle(b, "rolledback")

\* A session that a goroutine expected to be a transaction's may be free.
Up(b) == session[b] # Broken

---------------------------------------------------------------------------
(***************************************************************************)
(* BEGIN.  db.Begin takes a connection from the pool (and waits for one),  *)
(* sends START TRANSACTION, which commits what was open in that session,   *)
(* and the executor stores the transaction for the client connection.      *)
(***************************************************************************)
Full == Len(pool) >= MaxCap

\* pool.Put: panics if the channel is full, else goes on with r.
PutAnd(c, b, r) ==
  IF Full THEN Become(c, Leaving) /\ UNCHANGED pool
          ELSE Become(c, r) /\ pool' = Append(pool, b)

Unused == {t \in Tx : outcome[t] = "none"}

\* The third conjunct keeps within the bound MaxTx.
BeginStmt(c) ==
  /\ h[c].pc = "read"
  /\ "nested" \in Faults \/ localTransactionMap[c] = None
  /\ Cardinality(Unused) > Cardinality({d \in Client : h[d].pc = "begin"})
  /\ pool # <<>>
  /\ pool' = Tail(pool)
  /\ Become(c, At("begin", "none", None, None, Head(pool)))
  /\ UNCHANGED <<accepted, localTransactionMap, tx, server, asked, crashed>>

\* What Begin makes of transaction t, the next one, on connection b.
Started(c, t, b) ==
  /\ \A u \in Unused : t <= u
  /\ session' = [session EXCEPT ![b] = t]
  /\ outcome' = [u \in Tx |-> IF u = t THEN "open"
                              ELSE IF u = session[b] THEN "committed"
                              ELSE outcome[u]]
  /\ tx' = [tx EXCEPT ![t] = b]
  /\ localTransactionMap' = [localTransactionMap EXCEPT ![c] = t]

\* Mutant: Begin puts its connection back, as the other methods of DB do.
StartAndPut(c) ==
  /\ h[c].pc = "begin"
  /\ Up(h[c].b)
  /\ \E t \in Unused : Started(c, t, h[c].b)
  /\ PutAnd(c, h[c].b, Reading)
  /\ UNCHANGED <<accepted, asked, crashed>>

StartTransaction(c) ==
  /\ h[c].pc = "begin"
  /\ Up(h[c].b)
  /\ \E t \in Unused : Started(c, t, h[c].b)
  /\ Become(c, Reading)
  /\ UNCHANGED <<accepted, pool, asked, crashed>>

\* START TRANSACTION fails: the connection goes back to the pool.
BeginFails(c) ==
  LET b == h[c].b
  IN  /\ h[c].pc = "begin"
      /\ \/ ~Up(b) /\ UNCHANGED server
         \/ Up(b) /\ Break(b)
      /\ PutAnd(c, b, Reading)
      /\ UNCHANGED <<accepted, localTransactionMap, tx, asked, crashed>>

---------------------------------------------------------------------------
(***************************************************************************)
(* Other statements: in the transaction of the connection if it has one,   *)
(* on any connection of the pool if not.  tx.Query reads tx.db.name first, *)
(* which is a nil dereference once the transaction is closed.              *)
(***************************************************************************)
TxQuery(c) ==
  LET t == localTransactionMap[c]
  IN  /\ h[c].pc = "read"
      /\ t # None
      /\ IF tx[t] = None
           THEN Become(c, Leaving)
           ELSE Become(c, At("stmt", "none", None, t, tx[t]))
      /\ UNCHANGED <<accepted, localTransactionMap, tx, pool, server, asked,
                     crashed>>

\* A result is given to the filters of tx.db, which panics if the transaction
\* was closed meanwhile; an error is returned before that.
TxQueryDone(c) ==
  LET b == h[c].b
  IN  /\ h[c].pc = "stmt"
      /\ \/ Become(c, Reading) /\ UNCHANGED server
         \/ Become(c, Reading) /\ Up(b) /\ Break(b)
         \/ /\ Up(b) /\ tx[h[c].t] = None
            /\ Become(c, Leaving)
            /\ UNCHANGED server
      /\ UNCHANGED <<accepted, localTransactionMap, tx, pool, asked, crashed>>

DBQuery(c) ==
  /\ h[c].pc = "read"
  /\ localTransactionMap[c] = None
  /\ pool # <<>>
  /\ pool' = Tail(pool)
  /\ Become(c, At("query", "none", None, None, Head(pool)))
  /\ UNCHANGED <<accepted, localTransactionMap, tx, server, asked, crashed>>

DBQueryDone(c) ==
  /\ h[c].pc = "query"
  /\ UNCHANGED server \/ (Up(h[c].b) /\ Break(h[c].b))
  /\ PutAnd(c, h[c].b, Reading)
  /\ UNCHANGED <<accepted, localTransactionMap, tx, asked, crashed>>

---------------------------------------------------------------------------
(***************************************************************************)
(* The end of a transaction, by COMMIT, ROLLBACK or ConnectionClose:       *)
(* load it, send the statement, put the connection back, close the         *)
(* transaction object, delete the map entry.                               *)
(***************************************************************************)
End(c, op, key) ==
  /\ localTransactionMap[key] # None
  /\ Become(c, At("end", op, key, localTransactionMap[key], None))

EndStmt(c) ==
  /\ h[c].pc = "read"
  /\ \/ End(c, "commit", c) /\ asked' = asked \cup {localTransactionMap[c]}
     \/ End(c, "rollback", c) /\ UNCHANGED asked
  /\ UNCHANGED <<accepted, localTransactionMap, tx, pool, server, crashed>>

\* Mutant: nothing is sent when a connection is closed.
EndSilently(c) ==
  /\ h[c].pc = "end"
  /\ tx[h[c].t] # None
  /\ h[c].op \in {"quit", "closing"}
  /\ Goto(c, "put")
  /\ UNCHANGED <<accepted, localTransactionMap, tx, pool, server, asked,
                 crashed>>

\* The statement is sent on tx.conn, and its error is returned at the end.
EndExecute(c) ==
  LET b == tx[h[c].t]
      commits == h[c].op = "commit"
  IN  /\ h[c].pc = "end"
      /\ b # None
      /\ \/ /\ Up(b)
            /\ session' = [session EXCEPT ![b] = None]
            /\ Settle(b, IF commits THEN "committed" ELSE "rolledback")
         \/ ~Up(b) /\ UNCHANGED server
         \/ Up(b) /\ Break(b)
         \/ /\ Up(b) /\ commits /\ "dbError" \in Faults
            /\ session' = [session EXCEPT ![b] = Broken]
            /\ Settle(b, "committed")
      /\ Goto(c, "put")
      /\ UNCHANGED <<accepted, localTransactionMap, tx, pool, asked, crashed>>

\* Mutant: the connection of a transaction that ended stays out of the pool.
EndKeep(c) ==
  /\ h[c].pc = "put"
  /\ Goto(c, "close")
  /\ UNCHANGED <<accepted, localTransactionMap, tx, pool, server, asked,
                 crashed>>

\* tx.db.pool.Put(tx.conn): tx.db is nil if another goroutine closed it, and
\* Put panics if the pool is full.
EndPut(c) ==
  LET b == tx[h[c].t]
  IN  /\ h[c].pc = "put"
      /\ IF b # None /\ ~Full
           THEN /\ pool' = Append(pool, b)
                /\ Goto(c, "close")
                /\ UNCHANGED <<localTransactionMap, crashed>>
           ELSE /\ Panic(c)
                /\ UNCHANGED pool
      /\ UNCHANGED <<accepted, tx, server, asked>>

EndClose(c) ==
  /\ h[c].pc = "close"
  /\ tx' = [tx EXCEPT ![h[c].t] = None]
  /\ Goto(c, "delete")
  /\ UNCHANGED <<accepted, localTransactionMap, pool, server, asked, crashed>>

\* The transaction was closed by another goroutine: tx.db is nil and reading
\* its name panics.  Between the two assignments of Close it is only marked
\* closed, and the call returns ErrTransactionClosed.
EndClosed(c) ==
  /\ h[c].pc = "end"
  /\ tx[h[c].t] = None
  /\ \/ Panic(c)
     \/ Goto(c, "delete") /\ UNCHANGED <<localTransactionMap, crashed>>
  /\ UNCHANGED <<accepted, tx, pool, server, asked>>

EndDelete(c) ==
  /\ h[c].pc = "delete"
  /\ DeleteTx(h[c].key)
  /\ \/ h[c].op = "closing" /\ Become(c, Gone)
     \/ h[c].op = "quit" /\ Become(c, Leaving)
     \/ h[c].op \in {"commit", "rollback"} /\ Become(c, Reading)
  /\ UNCHANGED <<accepted, tx, pool, server, asked, crashed>>

---------------------------------------------------------------------------
(***************************************************************************)
(* Client connections.  COM_QUIT closes the transaction of the connection. *)
(* Whatever ended the connection, the deferred function of handle closes   *)
(* the transaction of l.connectionID, the connection accepted last.        *)
(***************************************************************************)
Calm ==
  \/ "overlap" \in Faults
  \/ \A c \in Client : h[c].pc # "leaving" /\ h[c].op \notin {"closing", "quit"}

MayEnd(c) == "overlap" \in Faults \/ c = accepted

Accept ==
  /\ accepted < N
  /\ Calm
  /\ accepted' = accepted + 1
  /\ Become(accepted + 1, Reading)
  /\ UNCHANGED <<localTransactionMap, tx, pool, server, asked, crashed>>

\* ComQuit: ConnectionClose of the connection itself.
Quit(c) ==
  /\ h[c].pc = "read"
  /\ MayEnd(c)
  /\ \/ End(c, "quit", c)
     \/ localTransactionMap[c] = None /\ Become(c, Leaving)
  /\ UNCHANGED <<accepted, localTransactionMap, tx, pool, server, asked,
                 crashed>>

\* The next read from the client fails.
Drop(c) ==
  /\ h[c].pc = "read"
  /\ MayEnd(c)
  /\ Become(c, Leaving)
  /\ UNCHANGED <<accepted, localTransactionMap, tx, pool, server, asked,
                 crashed>>

\* Mutant: the deferred function leaves the transaction alone.
LeaveOpen(c) ==
  /\ h[c].pc = "leaving"
  /\ Become(c, Gone)
  /\ UNCHANGED <<accepted, localTransactionMap, tx, pool, server, asked,
                 crashed>>

\* Mutant: it closes the transaction of the connection accepted first.
LeaveFirst(c) ==
  /\ h[c].pc = "leaving"
  /\ \/ End(c, "closing", 1)
     \/ /\ localTransactionMap[1] = None
        /\ Become(c, Gone)
  /\ UNCHANGED <<accepted, localTransactionMap, tx, pool, server, asked,
                 crashed>>

\* The deferred function of handle: ConnectionClose(l.connectionID).
Leave(c) ==
  /\ h[c].pc = "leaving"
  /\ \/ End(c, "closing", accepted)
     \/ /\ localTransactionMap[accepted] = None
        /\ Become(c, Gone)
  /\ UNCHANGED <<accepted, localTransactionMap, tx, pool, server, asked,
                 crashed>>

\* closeIdleResources replaces an idle connection.
CloseIdle(b) ==
  /\ b \in ToSet(pool)
  /\ session[b] # None
  /\ session' = [session EXCEPT ![b] = None]
  /\ Settle(b, "rolledback")
  /\ UNCHANGED <<accepted, localTransactionMap, tx, pool, h, asked, crashed>>

---------------------------------------------------------------------------
Statement(c) ==
  BeginStmt(c) \/ StartTransaction(c) \/ BeginFails(c) \/ TxQuery(c)
    \/ TxQueryDone(c) \/ DBQuery(c) \/ DBQueryDone(c)

Ending(c) ==
  EndStmt(c) \/ EndExecute(c) \/ EndPut(c) \/ EndClose(c) \/ EndClosed(c)
    \/ EndDelete(c)

Next ==
  /\ ~crashed
  /\ \/ Accept
     \/ \E c \in Client : Statement(c) \/ Ending(c) \/ Quit(c) \/ Drop(c)
                            \/ Leave(c)
     \/ \E b \in Backend : CloseIdle(b)

Spec == Init /\ [][Next]_lvars

---------------------------------------------------------------------------
(***************************************************************************)
(* Properties.                                                             *)
(***************************************************************************)
Handler ==
  [pc : {"none", "read", "begin", "stmt", "query", "end", "put", "close",
         "delete", "leaving", "gone"},
   op : {"none", "commit", "rollback", "quit", "closing"},
   t : Tx \cup {None}, key : Client \cup {None}, b : Backend \cup {None}]

\* Types of the listener's, the executor's and the server's state.
LocalTypeOK ==
  /\ accepted \in 0 .. N
  /\ localTransactionMap \in [Client -> Tx \cup {None}]
  /\ tx \in [Tx -> Backend \cup {None}]
  /\ pool \in Seq(Backend)
  /\ h \in [Client -> Handler]
  /\ session \in [Backend -> Tx \cup {None, Broken}]
  /\ outcome \in [Tx -> {"none", "open", "committed", "rolledback"}]
  /\ asked \subseteq Tx
  /\ crashed \in BOOLEAN

\* Somebody who will put it back has connection b: a statement that took it
\* from the pool, a handler that is ending the transaction that owns it, or
\* a client that is still connected and can end its transaction.
Held(b) ==
  \E c \in Client :
    \/ h[c].pc \in {"begin", "query"} /\ h[c].b = b
    \/ h[c].pc \in {"end", "put"} /\ tx[h[c].t] = b
    \/ /\ h[c].pc \notin {"none", "gone"}
       /\ localTransactionMap[c] # None
       /\ tx[localTransactionMap[c]] = b

\* Every Get of the pool has its Put: a connection that is neither in the
\* pool nor held by somebody is lost (third_party/pools, Put).
EveryGetIsPut == \A b \in Backend : b \in ToSet(pool) \/ Held(b)

\* A statement of a client in a transaction runs in the server transaction
\* that its BEGIN opened, and one outside a transaction runs in a session
\* without an open transaction, whoever used the connection before.
RunsInItsTransaction ==
  \A c \in Client :
    /\ h[c].pc = "stmt" => session[h[c].b] \in {h[c].t, Broken}
    /\ h[c].pc = "query" => session[h[c].b] \in {None, Broken}

\* The server commits only transactions whose own client sent COMMIT: none
\* is committed by the COMMIT of another client, or by a START TRANSACTION
\* on a connection that came back to the pool with an open transaction.
CommittedOnlyIfAsked ==
  \A t \in Tx : outcome[t] = "committed" => t \in asked

\* A COMMIT that the server answered without an error has committed the
\* transaction of the client, and not whatever its session was left with.
CommitAnswersTruly ==
  \A c \in Client :
    h[c].pc = "put" /\ h[c].op = "commit" /\ tx[h[c].t] # None
      => outcome[h[c].t] = "committed" \/ ~Up(tx[h[c].t])

\* Whatever other connections do, the connection accepted last leaves no
\* transaction behind when its handler has returned.
NewestLeavesNothing ==
  accepted > 0 /\ h[accepted].pc = "gone" => localTransactionMap[accepted] = None

\* What connection c has: its transaction, and that one's backend connection.
Mine(c) ==
  LET t == localTransactionMap[c] IN <<t, IF t = None THEN None ELSE tx[t]>>

\* A newer connection was accepted, and no other handler is closing the
\* transaction of c.
Sheltered(c) ==
  /\ c < accepted
  /\ \A d \in Client \ {c} : ~(h[d].op = "closing" /\ h[d].key = c)

\* The deferred function of handle closes the transaction of l.connectionID,
\* whoever leaves.  That can hit the newest connection only: once a newer one
\* is accepted and no such call is under way, a client keeps its transaction,
\* and the transaction its backend connection, until its own handler ends it,
\* whatever connections overlap, break or nest their transactions.
OlderKeepTheirs ==
  [][\A c \in Client :
       Sheltered(c) => /\ Sheltered(c)'
                       /\ Mine(c)' # Mine(c) => h'[c] # h[c]]_lvars

=============================================================================
