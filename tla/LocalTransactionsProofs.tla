---------------------- MODULE LocalTransactionsProofs ----------------------
(***************************************************************************)
(* Theorems about LocalTransactions, for any number of clients and         *)
(* transactions and any pool: the first three with any faults, the others  *)
(* when clients are served one at a time (Orderly).                        *)
(***************************************************************************)
EXTENDS LocalTransactions, FiniteSetTheorems, TLAPS

\* A handler that holds a connection or a transaction knows which one.
Knows ==
  \A c \in Client :
    /\ h[c].pc \in {"begin", "query"} => h[c].b \in Backend
    /\ h[c].pc \in {"end", "put", "close"} => h[c].t \in Tx

\* A handler belongs to an accepted connection; the connection whose
\* transaction the deferred function of handle closes is not an older one.
Order ==
  \A c \in Client :
    /\ h[c].pc # "none" => c <= accepted
    /\ h[c].op = "closing" => /\ h[c].key \in Client
                              /\ c <= h[c].key /\ h[c].key <= accepted

\* A handler has an op exactly while it ends a transaction.
OpEnds ==
  \A c \in Client :
    h[c].op # "none" => h[c].pc \in {"end", "put", "close", "delete"}

LocalInv ==
  LocalTypeOK /\ Knows /\ Order /\ OpEnds /\ NewestLeavesNothing

\* What the invariant asks of a handler c that is in state r.
Fits(c, r) ==
  /\ r \in Handler
  /\ r.pc \in {"begin", "query"} => r.b \in Backend
  /\ r.pc \in {"end", "put", "close"} => r.t \in Tx
  /\ r.op # "none" => r.pc \in {"end", "put", "close", "delete"}
  /\ r.op = "closing" => r.key \in Client /\ c <= r.key /\ r.key <= accepted

\* A step of handler c leaves it in such a state.
Moves(c) == \E r : Fits(c, r) /\ h' = [h EXCEPT ![c] = r]

\* LocalTypeOK without the handlers.
RestTyped ==
  /\ accepted \in 0 .. N
  /\ localTransactionMap \in [Client -> Tx \cup {None}]
  /\ tx \in [Tx -> Backend \cup {None}]
  /\ pool \in Seq(Backend)
  /\ session \in [Backend -> Tx \cup {None, Broken}]
  /\ outcome \in [Tx -> {"none", "open", "committed", "rolledback"}]
  /\ asked \subseteq Tx
  /\ crashed \in BOOLEAN

---------------------------------------------------------------------------
\* Before the first request, all the connections of a database are idle.
LEMMA PoolStart ==
  ASSUME NEW p \in Bijection(1 .. Cardinality(Backend), Backend)
  PROVE  p \in Seq(Backend)
<1>1. Cardinality(Backend) \in Nat
  BY LocalAssumption, FS_CardinalityType
<1>2. p \in [1 .. Cardinality(Backend) -> Backend]
  BY DEF Bijection, Injection
<1> QED
  BY <1>1, <1>2

\* The invariant holds before the first connection is accepted.
LEMMA InitInv == Init => LocalInv
<1> SUFFICES ASSUME Init PROVE LocalInv
  OBVIOUS
<1>1. pool \in Seq(Backend)
  BY PoolStart DEF Init
<1>2. crashed \in BOOLEAN
  BY Zenon DEF Init
<1>3. h \in [Client -> Handler]
  BY DEF Init, Plain, At, Handler
<1>4. LocalTypeOK
  BY <1>1, <1>2, <1>3, LocalAssumption DEF Init, LocalTypeOK
<1>5. Knows /\ Order /\ OpEnds
  BY DEF Init, Knows, Order, OpEnds, Plain, At
<1>6. NewestLeavesNothing
  BY DEF Init, NewestLeavesNothing
<1> QED
  BY <1>4, <1>5, <1>6 DEF LocalInv

\* A step of one handler that leaves it in a state that fits keeps the
\* part of the invariant that is about handlers.
LEMMA Moved ==
  ASSUME LocalInv, NEW c \in Client, h[c].pc # "none",
         Moves(c), accepted' = accepted, RestTyped'
  PROVE  LocalTypeOK' /\ Knows' /\ Order' /\ OpEnds'
<1>1. PICK r : Fits(c, r) /\ h' = [h EXCEPT ![c] = r]
  BY DEF Moves
<1>2. h \in [Client -> Handler]
  BY DEF LocalInv, LocalTypeOK
<1>3. h' \in [Client -> Handler] /\ h'[c] = r
        /\ \A d \in Client : d # c => h'[d] = h[d]
  BY <1>1, <1>2 DEF Fits
<1>4. LocalTypeOK'
  BY <1>3 DEF LocalTypeOK, RestTyped
<1>5. Knows' /\ OpEnds'
  BY <1>1, <1>3 DEF Knows, OpEnds, Fits, LocalInv
<1>6. Order'
  BY <1>1, <1>3 DEF Order, Fits, LocalInv
<1> QED
  BY <1>4, <1>5, <1>6

\* A handler that advances within the end of a transaction.
LEMMA Advances ==
  ASSUME LocalInv, NEW c \in Client, NEW pc \in {"put", "close", "delete"},
         h[c].pc \in {"end", "put", "close"}, Goto(c, pc)
  PROVE  Moves(c)
<1> DEFINE r == At(pc, h[c].op, h[c].key, h[c].t, h[c].b)
<1>1. h[c] \in Handler
  BY DEF LocalInv, LocalTypeOK
<1>2. h' = [h EXCEPT ![c] = r]
  BY DEF Goto, Become
<1>3. Fits(c, r)
  BY <1>1 DEF Fits, At, Handler, LocalInv, Knows, Order
<1> QED
  BY <1>2, <1>3 DEF Moves

\* A handler that stops reading, or reads again, holds nothing.
LEMMA HoldsNothing ==
  ASSUME NEW c \in Client, NEW pc \in {"read", "leaving", "gone"},
         Become(c, Plain(pc))
  PROVE  Moves(c)
<1>1. Fits(c, Plain(pc))
  BY DEF Fits, Plain, At, Handler
<1> QED
  BY <1>1 DEF Moves, Become

\* A handler that begins to end a transaction it found in the map.
LEMMA BeginsToEnd ==
  ASSUME LocalInv, NEW c \in Client, NEW key \in Client,
         NEW op \in {"commit", "rollback", "quit", "closing"},
         op = "closing" => c <= key /\ key <= accepted,
         End(c, op, key)
  PROVE  Moves(c)
<1>1. localTransactionMap[key] \in Tx
  BY DEF End, LocalInv, LocalTypeOK
<1>2. Fits(c, At("end", op, key, localTransactionMap[key], None))
  BY <1>1 DEF Fits, At, Handler
<1> QED
  BY <1>2 DEF End, Moves, Become

\* A panic leaves the handler with nothing, or the process is gone.
LEMMA Panics ==
  ASSUME LocalInv, NEW c \in Client, h[c].pc # "none", Panic(c)
  PROVE  /\ Moves(c)
         /\ localTransactionMap' \in [Client -> Tx \cup {None}]
         /\ crashed' \in BOOLEAN
<1>1. CASE h[c].op = "closing"
  <2>1. Fits(c, h[c]) /\ h' = [h EXCEPT ![c] = h[c]]
    BY <1>1 DEF Panic, Fits, LocalInv, LocalTypeOK, Knows, Order, OpEnds
  <2>2. localTransactionMap' \in [Client -> Tx \cup {None}] /\ crashed' = TRUE
    BY <1>1 DEF Panic, LocalInv, LocalTypeOK
  <2> QED
    BY <2>1, <2>2 DEF Moves
<1>2. CASE h[c].op # "closing"
  <2>1. Moves(c)
    BY <1>2, HoldsNothing DEF Panic, Leaving
  <2>2. localTransactionMap' \in [Client -> Tx \cup {None}]
    BY <1>2 DEF Panic, DeleteTx, LocalInv, LocalTypeOK
  <2>3. crashed' \in BOOLEAN
    BY <1>2 DEF Panic, LocalInv, LocalTypeOK
  <2> QED
    BY <2>1, <2>2, <2>3
<1> QED
  BY <1>1, <1>2

\* A step that is not the end of a handler and puts nothing into the map
\* leaves nothing behind.
LEMMA NothingAdded ==
  ASSUME LocalInv, NEW c \in Client, NEW r,
         h' = [h EXCEPT ![c] = r], r.pc # "gone" \/ h[c].pc = "gone",
         accepted' = accepted,
         \A k \in Client : localTransactionMap'[k] \in {localTransactionMap[k], None}
  PROVE  NewestLeavesNothing'
  BY LocalAssumption DEF LocalInv, LocalTypeOK, NewestLeavesNothing, Client

\* The server's part of the type invariant.
LEMMA ServerTyped ==
  ASSUME LocalInv, NEW b \in Backend,
         NEW how \in {"committed", "rolledback"},
         NEW s \in {None, Broken},
         session' = [session EXCEPT ![b] = s], Settle(b, how)
  PROVE  /\ session' \in [Backend -> Tx \cup {None, Broken}]
         /\ outcome' \in [Tx -> {"none", "open", "committed", "rolledback"}]
  BY DEF Settle, LocalInv, LocalTypeOK

---------------------------------------------------------------------------
\* A handler that took a connection from the pool.
LEMMA Took ==
  ASSUME LocalInv, NEW c \in Client, NEW pc \in {"begin", "query"},
         pool # <<>>, Become(c, At(pc, "none", None, None, Head(pool)))
  PROVE  Moves(c)
<1>1. Head(pool) \in Backend
  BY DEF LocalInv, LocalTypeOK
<1>2. Fits(c, At(pc, "none", None, None, Head(pool)))
  BY <1>1 DEF Fits, At, Handler
<1> QED
  BY <1>2 DEF Moves, Become

\* A handler that gives a connection back and reads on, or panics.
LEMMA GaveBack ==
  ASSUME LocalInv, NEW c \in Client, NEW b \in Backend, PutAnd(c, b, Reading)
  PROVE  Moves(c) /\ pool' \in Seq(Backend)
<1>1. Moves(c)
  BY HoldsNothing DEF PutAnd, Leaving, Reading
<1>2. pool' \in Seq(Backend)
  BY DEF PutAnd, LocalInv, LocalTypeOK
<1> QED
  BY <1>1, <1>2

\* Statements: BEGIN, and statements in and out of a transaction.
LEMMA StatementInv ==
  ASSUME LocalInv, NEW c \in Client, Statement(c)
  PROVE  LocalInv'
<1> USE DEF server
<1>1. CASE BeginStmt(c)
  <2>1. Moves(c) /\ h[c].pc # "none"
    BY <1>1, Took DEF BeginStmt
  <2>2. RestTyped' /\ accepted' = accepted
    BY <1>1 DEF BeginStmt, RestTyped, LocalInv, LocalTypeOK
  <2>3. NewestLeavesNothing'
    BY <1>1, NothingAdded DEF BeginStmt, Become, At
  <2> QED
    BY <2>1, <2>2, <2>3, Moved DEF LocalInv
<1>2. CASE StartTransaction(c)
  <2>1. Moves(c) /\ h[c].pc # "none" /\ h[c].b \in Backend
    BY <1>2, HoldsNothing DEF StartTransaction, Reading, LocalInv, Knows
  <2>2. PICK t \in Unused : Started(c, t, h[c].b)
    BY <1>2 DEF StartTransaction
  <2>3. RestTyped' /\ accepted' = accepted
    BY <1>2, <2>1, <2>2 DEF StartTransaction, Started, Unused, RestTyped,
                            LocalInv, LocalTypeOK
  <2>4. NewestLeavesNothing'
    BY <1>2, <2>2, LocalAssumption
    DEF StartTransaction, Started, Unused, Become, Reading, Plain, At,
        NewestLeavesNothing, LocalInv, LocalTypeOK, Client
  <2> QED
    BY <2>1, <2>3, <2>4, Moved DEF LocalInv
<1>3. CASE BeginFails(c)
  <2>1. h[c].pc # "none" /\ h[c].b \in Backend
    BY <1>3 DEF BeginFails, LocalInv, Knows
  <2>2. Moves(c) /\ pool' \in Seq(Backend)
    BY <1>3, <2>1, GaveBack DEF BeginFails
  <2>3. /\ session' \in [Backend -> Tx \cup {None, Broken}]
        /\ outcome' \in [Tx -> {"none", "open", "committed", "rolledback"}]
    BY <1>3, <2>1, ServerTyped DEF BeginFails, Break, LocalInv, LocalTypeOK
  <2>4. RestTyped' /\ accepted' = accepted
    BY <1>3, <2>2, <2>3 DEF BeginFails, RestTyped, LocalInv, LocalTypeOK
  <2>5. NewestLeavesNothing'
    BY <1>3, NothingAdded
    DEF BeginFails, PutAnd, Become, Reading, Leaving, Plain, At
  <2> QED
    BY <2>1, <2>2, <2>4, <2>5, Moved DEF LocalInv
<1>4. CASE TxQuery(c)
  <2> DEFINE t == localTransactionMap[c]
  <2>1. t \in Tx
    BY <1>4 DEF TxQuery, LocalInv, LocalTypeOK
  <2>2. Fits(c, At("stmt", "none", None, t, tx[t]))
    BY <2>1 DEF Fits, At, Handler, LocalInv, LocalTypeOK
  <2>3. Moves(c) /\ h[c].pc # "none"
    BY <1>4, <2>2, HoldsNothing DEF TxQuery, Moves, Become, Leaving
  <2>4. RestTyped' /\ accepted' = accepted
    BY <1>4 DEF TxQuery, RestTyped, LocalInv, LocalTypeOK
  <2>5. NewestLeavesNothing'
    BY <1>4, NothingAdded DEF TxQuery, Become, Leaving, Plain, At
  <2> QED
    BY <2>3, <2>4, <2>5, Moved DEF LocalInv
<1>5. CASE TxQueryDone(c)
  <2>1. Moves(c) /\ h[c].pc # "none"
    BY <1>5, HoldsNothing DEF TxQueryDone, Reading, Leaving
  <2>2. /\ session' \in [Backend -> Tx \cup {None, Broken}]
        /\ outcome' \in [Tx -> {"none", "open", "committed", "rolledback"}]
    BY <1>5 DEF TxQueryDone, Break, Settle, LocalInv, LocalTypeOK
  <2>3. RestTyped' /\ accepted' = accepted
    BY <1>5, <2>2 DEF TxQueryDone, RestTyped, LocalInv, LocalTypeOK
  <2>4. NewestLeavesNothing'
    BY <1>5, NothingAdded DEF TxQueryDone, Become, Reading, Leaving, Plain,
      At
  <2> QED
    BY <2>1, <2>3, <2>4, Moved DEF LocalInv
<1>6. CASE DBQuery(c)
  <2>1. Moves(c) /\ h[c].pc # "none"
    BY <1>6, Took DEF DBQuery
  <2>2. RestTyped' /\ accepted' = accepted
    BY <1>6 DEF DBQuery, RestTyped, LocalInv, LocalTypeOK
  <2>3. NewestLeavesNothing'
    BY <1>6, NothingAdded DEF DBQuery, Become, At
  <2> QED
    BY <2>1, <2>2, <2>3, Moved DEF LocalInv
<1>7. CASE DBQueryDone(c)
  <2>1. h[c].pc # "none" /\ h[c].b \in Backend
    BY <1>7 DEF DBQueryDone, LocalInv, Knows
  <2>2. Moves(c) /\ pool' \in Seq(Backend)
    BY <1>7, <2>1, GaveBack DEF DBQueryDone
  <2>3. /\ session' \in [Backend -> Tx \cup {None, Broken}]
        /\ outcome' \in [Tx -> {"none", "open", "committed", "rolledback"}]
    BY <1>7, <2>1, ServerTyped DEF DBQueryDone, Break, LocalInv, LocalTypeOK
  <2>4. RestTyped' /\ accepted' = accepted
    BY <1>7, <2>2, <2>3 DEF DBQueryDone, RestTyped, LocalInv, LocalTypeOK
  <2>5. NewestLeavesNothing'
    BY <1>7, NothingAdded
    DEF DBQueryDone, PutAnd, Become, Reading, Leaving, Plain, At
  <2> QED
    BY <2>1, <2>2, <2>4, <2>5, Moved DEF LocalInv
<1> QED
  BY <1>1, <1>2, <1>3, <1>4, <1>5, <1>6, <1>7 DEF Statement

\* The end of a transaction, step by step.
LEMMA EndingInv ==
  ASSUME LocalInv, NEW c \in Client, Ending(c)
  PROVE  LocalInv'
<1> USE DEF server
<1>1. CASE EndStmt(c)
  <2>1. Moves(c) /\ h[c].pc # "none"
    BY <1>1, BeginsToEnd DEF EndStmt
  <2>2. localTransactionMap[c] \in Tx
    BY <1>1 DEF EndStmt, End, LocalInv, LocalTypeOK
  <2>3. RestTyped' /\ accepted' = accepted
    BY <1>1, <2>2 DEF EndStmt, RestTyped, LocalInv, LocalTypeOK
  <2>4. NewestLeavesNothing'
    BY <1>1, NothingAdded DEF EndStmt, End, Become, At
  <2> QED
    BY <2>1, <2>3, <2>4, Moved DEF LocalInv
<1>2. CASE EndExecute(c)
  <2>1. Moves(c) /\ h[c].pc # "none"
    BY <1>2, Advances DEF EndExecute
  <2>2. tx[h[c].t] \in Backend
    BY <1>2 DEF EndExecute, LocalInv, LocalTypeOK, Knows
  <2>3. /\ session' \in [Backend -> Tx \cup {None, Broken}]
        /\ outcome' \in [Tx -> {"none", "open", "committed", "rolledback"}]
    BY <1>2, <2>2, ServerTyped DEF EndExecute, Break, LocalInv, LocalTypeOK
  <2>4. RestTyped' /\ accepted' = accepted
    BY <1>2, <2>3 DEF EndExecute, RestTyped, LocalInv, LocalTypeOK
  <2>5. NewestLeavesNothing'
    BY <1>2, NothingAdded DEF EndExecute, Goto, Become, At
  <2> QED
    BY <2>1, <2>4, <2>5, Moved DEF LocalInv
<1>3. CASE EndPut(c)
  <2>1. h[c].pc # "none" /\ tx[h[c].t] \in Backend \cup {None}
    BY <1>3 DEF EndPut, LocalInv, LocalTypeOK, Knows
  <2>2. CASE tx[h[c].t] # None /\ ~Full
    <3>1. Moves(c)
      BY <1>3, <2>2, Advances DEF EndPut
    <3>2. pool' \in Seq(Backend)
      BY <1>3, <2>1, <2>2 DEF EndPut, LocalInv, LocalTypeOK
    <3>3. UNCHANGED <<accepted, localTransactionMap, tx, session, outcome,
                      asked, crashed>>
      BY <1>3, <2>2 DEF EndPut
    <3>4. RestTyped' /\ accepted' = accepted
      BY <3>2, <3>3 DEF RestTyped, LocalInv, LocalTypeOK
    <3>5. NewestLeavesNothing'
      BY <1>3, <2>2, NothingAdded DEF EndPut, Goto, Become, At
    <3> QED
      BY <2>1, <3>1, <3>4, <3>5, Moved DEF LocalInv
  <2>3. CASE ~(tx[h[c].t] # None /\ ~Full)
    <3>1. Panic(c)
      BY <1>3, <2>3 DEF EndPut
    <3>2. /\ localTransactionMap' \in [Client -> Tx \cup {None}]
          /\ crashed' \in BOOLEAN
      BY <2>1, <3>1, Panics
    <3>3. UNCHANGED <<accepted, tx, pool, session, outcome, asked>>
      BY <1>3, <2>3 DEF EndPut
    <3>4. RestTyped' /\ accepted' = accepted
      BY <3>2, <3>3 DEF RestTyped, LocalInv, LocalTypeOK
    <3>5. NewestLeavesNothing'
      BY <3>1, <3>4, LocalAssumption
      DEF Panic, DeleteTx, Become, Leaving, Plain, At, NewestLeavesNothing,
          LocalInv, LocalTypeOK, Client
    <3> QED
      BY <2>1, <3>1, <3>4, <3>5, Panics, Moved DEF LocalInv
  <2> QED
    BY <2>2, <2>3
<1>4. CASE EndClose(c)
  <2>1. Moves(c) /\ h[c].pc # "none"
    BY <1>4, Advances DEF EndClose
  <2>2. RestTyped' /\ accepted' = accepted
    BY <1>4 DEF EndClose, RestTyped, LocalInv, LocalTypeOK
  <2>3. NewestLeavesNothing'
    BY <1>4, NothingAdded DEF EndClose, Goto, Become, At
  <2> QED
    BY <2>1, <2>2, <2>3, Moved DEF LocalInv
<1>5. CASE EndClosed(c)
  <2>1. h[c].pc # "none"
    BY <1>5 DEF EndClosed
  <2>2. CASE Panic(c)
    <3>1. RestTyped' /\ accepted' = accepted
      BY <1>5, <2>1, <2>2, Panics
      DEF EndClosed, RestTyped, LocalInv, LocalTypeOK
    <3>2. NewestLeavesNothing'
      BY <2>2, <3>1, LocalAssumption
      DEF Panic, DeleteTx, Become, Leaving, Plain, At, NewestLeavesNothing,
          LocalInv, LocalTypeOK, Client
    <3> QED
      BY <2>1, <2>2, <3>1, <3>2, Panics, Moved DEF LocalInv
  <2>3. CASE Goto(c, "delete") /\ UNCHANGED <<localTransactionMap, crashed>>
    <3>1. Moves(c)
      BY <1>5, <2>3, Advances DEF EndClosed
    <3>2. RestTyped' /\ accepted' = accepted
      BY <1>5, <2>3 DEF EndClosed, RestTyped, LocalInv, LocalTypeOK
    <3>3. NewestLeavesNothing'
      BY <1>5, <2>3, NothingAdded DEF EndClosed, Goto, Become, At
    <3> QED
      BY <2>1, <3>1, <3>2, <3>3, Moved DEF LocalInv
  <2> QED
    BY <1>5, <2>2, <2>3 DEF EndClosed
<1>6. CASE EndDelete(c)
  <2>1. Moves(c) /\ h[c].pc # "none"
    BY <1>6, HoldsNothing DEF EndDelete, Gone, Leaving, Reading
  <2>2. RestTyped' /\ accepted' = accepted
    BY <1>6 DEF EndDelete, DeleteTx, RestTyped, LocalInv, LocalTypeOK
  \* A handler that is done with "closing" has deleted an entry at least as
  \* new as its own: if its connection is the newest, its own.
  <2>3. NewestLeavesNothing'
    BY <1>6, LocalAssumption
    DEF EndDelete, DeleteTx, Become, Gone, Leaving, Reading, Plain, At,
        NewestLeavesNothing, Order, LocalInv, LocalTypeOK, Client
  <2> QED
    BY <2>1, <2>2, <2>3, Moved DEF LocalInv
<1> QED
  BY <1>1, <1>2, <1>3, <1>4, <1>5, <1>6 DEF Ending

\* Client connections that end.
LEMMA LeavingInv ==
  ASSUME LocalInv, NEW c \in Client, Quit(c) \/ Drop(c) \/ Leave(c)
  PROVE  LocalInv'
<1> USE DEF server
<1>1. CASE Quit(c)
  <2>1. Moves(c) /\ h[c].pc # "none"
    BY <1>1, BeginsToEnd, HoldsNothing DEF Quit, Leaving
  <2>2. RestTyped' /\ accepted' = accepted
    BY <1>1 DEF Quit, RestTyped, LocalInv, LocalTypeOK
  <2>3. NewestLeavesNothing'
    BY <1>1, NothingAdded DEF Quit, End, Become, Leaving, Plain, At
  <2> QED
    BY <2>1, <2>2, <2>3, Moved DEF LocalInv
<1>2. CASE Drop(c)
  <2>1. Moves(c) /\ h[c].pc # "none"
    BY <1>2, HoldsNothing DEF Drop, Leaving
  <2>2. RestTyped' /\ accepted' = accepted
    BY <1>2 DEF Drop, RestTyped, LocalInv, LocalTypeOK
  <2>3. NewestLeavesNothing'
    BY <1>2, NothingAdded DEF Drop, Become, Leaving, Plain, At
  <2> QED
    BY <2>1, <2>2, <2>3, Moved DEF LocalInv
<1>3. CASE Leave(c)
  <2>1. h[c].pc # "none" /\ c <= accepted /\ accepted \in Client
    BY <1>3, LocalAssumption DEF Leave, Order, LocalInv, LocalTypeOK, Client
  <2>2. Moves(c)
    BY <1>3, <2>1, BeginsToEnd, HoldsNothing, LocalAssumption
    DEF Leave, Gone, LocalInv, LocalTypeOK, Client
  <2>3. RestTyped' /\ accepted' = accepted
    BY <1>3 DEF Leave, RestTyped, LocalInv, LocalTypeOK
  <2>4. NewestLeavesNothing'
    BY <1>3, <2>1 DEF Leave, End, Become, Gone, Plain, At,
                      NewestLeavesNothing, LocalInv, LocalTypeOK
  <2> QED
    BY <2>1, <2>2, <2>3, <2>4, Moved DEF LocalInv
<1> QED
  BY <1>1, <1>2, <1>3

\* A connection that is accepted.
LEMMA AcceptInv == LocalInv /\ Accept => LocalInv'
<1> SUFFICES ASSUME LocalInv, Accept PROVE LocalInv'
  OBVIOUS
<1> DEFINE c == accepted + 1
<1>1. c \in Client /\ accepted' = c /\ h' = [h EXCEPT ![c] = Reading]
  BY LocalAssumption DEF Accept, Become, LocalInv, LocalTypeOK, Client
<1>2. Reading \in Handler /\ Reading.pc = "read" /\ Reading.op = "none"
  BY DEF Reading, Plain, At, Handler
<1>3. LocalTypeOK'
  BY <1>1, <1>2, LocalAssumption
  DEF Accept, server, LocalInv, LocalTypeOK, Client
<1>4. Knows' /\ OpEnds'
  BY <1>1, <1>2 DEF Knows, OpEnds, LocalInv, LocalTypeOK
<1>5. Order'
  BY <1>1, <1>2, LocalAssumption DEF Order, LocalInv, LocalTypeOK, Client
<1>6. NewestLeavesNothing'
  BY <1>1, <1>2 DEF NewestLeavesNothing, LocalInv, LocalTypeOK
<1> QED
  BY <1>3, <1>4, <1>5, <1>6 DEF LocalInv

\* An idle connection that is replaced.
LEMMA IdleInv ==
  ASSUME LocalInv, NEW b \in Backend, CloseIdle(b)
  PROVE  LocalInv'
<1>1. /\ session' \in [Backend -> Tx \cup {None, Broken}]
      /\ outcome' \in [Tx -> {"none", "open", "committed", "rolledback"}]
  BY ServerTyped DEF CloseIdle
<1>2. LocalTypeOK'
  BY <1>1 DEF CloseIdle, LocalInv, LocalTypeOK
<1> QED
  BY <1>2 DEF CloseIdle, LocalInv, Knows, Order, OpEnds, NewestLeavesNothing

\* Every step keeps the invariant.
LEMMA NextInv == LocalInv /\ [Next]_lvars => LocalInv'
<1> SUFFICES ASSUME LocalInv, [Next]_lvars PROVE LocalInv'
  OBVIOUS
<1>1. CASE Next
  BY <1>1, AcceptInv, StatementInv, EndingInv, LeavingInv, IdleInv DEF Next
<1>2. CASE UNCHANGED lvars
  BY <1>2 DEF lvars, LocalInv, LocalTypeOK, Knows, Order, OpEnds,
              NewestLeavesNothing
<1> QED
  BY <1>1, <1>2

\* The variables of the listener, the executor and the pool keep their
\* types, in particular only connections of the pool are put into it,
\* whatever connections overlap, break or nest their transactions.
THEOREM LocalTypeCorrect == Spec => []LocalTypeOK
<1>1. LocalInv => LocalTypeOK
  BY DEF LocalInv
<1> QED
  BY <1>1, InitInv, NextInv, PTL DEF Spec

\* The connection accepted last leaves no local transaction behind when its
\* handler has returned, for any number of clients and any faults.
THEOREM NewestIsClean == Spec => []NewestLeavesNothing
<1>1. LocalInv => NewestLeavesNothing
  BY DEF LocalInv
<1> QED
  BY <1>1, InitInv, NextInv, PTL DEF Spec

---------------------------------------------------------------------------
(***************************************************************************)
(* Whose transaction a handler ends.  A transaction is in the map once, a  *)
(* handler that is ending it works for the connection it is stored for,    *)
(* and only the deferred function of handle works for another connection.  *)
(***************************************************************************)
AtEnd == {"end", "put", "close", "delete"}

\* Handler d, in state r, ends a transaction that no connection other than
\* r.key has.
EndsFor(d, r) ==
  r.pc \in AtEnd =>
    /\ r.op # "none" /\ r.key \in Client /\ r.t \in Tx
    /\ r.op # "closing" => r.key = d
    /\ outcome[r.t] # "none"
    /\ \A c \in Client : localTransactionMap[c] = r.t => c = r.key

Stored ==
  \A c \in Client : localTransactionMap[c] # None =>
    /\ outcome[localTransactionMap[c]] # "none"
    /\ \A d \in Client : localTransactionMap[d] = localTransactionMap[c] => d = c

OwnInv == Stored /\ \A d \in Client : EndsFor(d, h[d])

\* What the server does to a transaction leaves it begun.
LEMMA StaysBegun ==
  ASSUME LocalInv, NEW b \in Backend, NEW how \in {"committed", "rolledback"},
         Settle(b, how), NEW t \in Tx, outcome[t] # "none"
  PROVE  outcome'[t] # "none"
BY DEF Settle, LocalInv, LocalTypeOK

\* A step that only moves handler c, begins no transaction and stores none.
LEMMA OwnKept ==
  ASSUME LocalInv, OwnInv, NEW c \in Client, NEW r, h' = [h EXCEPT ![c] = r],
         \A d \in Client : localTransactionMap'[d] \in {localTransactionMap[d], None},
         \A t \in Tx : outcome[t] # "none" => outcome'[t] # "none",
         r.pc \in AtEnd => \/ r.t = h[c].t /\ r.key = h[c].key /\ r.op = h[c].op
                              /\ h[c].pc \in AtEnd
                           \/ EndsFor(c, r)
  PROVE  OwnInv'
<1>1. /\ h \in [Client -> Handler] /\ localTransactionMap \in [Client -> Tx \cup {None}]
      /\ None \notin Tx
  BY LocalAssumption DEF LocalInv, LocalTypeOK
<1>2. h'[c] = r /\ \A d \in Client : d # c => h'[d] = h[d]
  BY <1>1
<1>3. Stored'
  BY <1>1 DEF OwnInv, Stored
<1>4. EndsFor(c, r)'
  BY <1>1 DEF OwnInv, EndsFor
<1>5. \A d \in Client : d # c => EndsFor(d, h[d])'
  BY <1>1, <1>2 DEF OwnInv, EndsFor
<1> QED
  BY <1>2, <1>3, <1>4, <1>5 DEF OwnInv

\* A handler that begins to end the transaction it found in the map.
LEMMA FoundItsOwn ==
  ASSUME LocalInv, OwnInv, NEW c \in Client, NEW key \in Client, NEW op,
         op # "none", op # "closing" => key = c, localTransactionMap[key] # None
  PROVE  EndsFor(c, At("end", op, key, localTransactionMap[key], None))
BY DEF LocalInv, LocalTypeOK, OwnInv, Stored, EndsFor, At

\* The statements of clients.
LEMMA StatementOwn ==
  ASSUME LocalInv, OwnInv, NEW c \in Client, Statement(c)
  PROVE  OwnInv'
<1>0. /\ h \in [Client -> Handler] /\ localTransactionMap \in [Client -> Tx \cup {None}]
      /\ tx \in [Tx -> Backend \cup {None}]
      /\ outcome \in [Tx -> {"none", "open", "committed", "rolledback"}]
      /\ None \notin Tx
  BY LocalAssumption DEF LocalInv, LocalTypeOK
<1>1. CASE BeginStmt(c) \/ TxQuery(c) \/ DBQuery(c)
  <2>1. \E r : r.pc \notin AtEnd /\ h' = [h EXCEPT ![c] = r]
    BY <1>1 DEF BeginStmt, TxQuery, DBQuery, Become, At, AtEnd, Leaving, Plain
  <2> QED
    BY <1>1, <2>1, OwnKept DEF BeginStmt, TxQuery, DBQuery, server
<1>2. CASE BeginFails(c) \/ TxQueryDone(c) \/ DBQueryDone(c)
  <2>1. \E r : r.pc \notin AtEnd /\ h' = [h EXCEPT ![c] = r]
    BY <1>2 DEF BeginFails, TxQueryDone, DBQueryDone, PutAnd, Become, At, AtEnd,
                Leaving, Reading, Plain
  <2>2. \A t \in Tx : outcome[t] # "none" => outcome'[t] # "none"
    <3>1. CASE UNCHANGED outcome
      BY <3>1
    <3>2. CASE \E b : Break(b) /\ session[b] \in Tx
      BY <1>0, <3>2 DEF Break, Settle
    <3>3. CASE \E b : Break(b) /\ session[b] \notin Tx
      BY <3>3 DEF Break, Settle
    <3> QED
      BY <1>2, <3>1, <3>2, <3>3 DEF BeginFails, TxQueryDone, DBQueryDone, server
  <2> QED
    BY <1>2, <2>1, <2>2, OwnKept DEF BeginFails, TxQueryDone, DBQueryDone
<1>3. CASE StartTransaction(c)
  <2>1. PICK t \in Tx : outcome[t] = "none" /\ Started(c, t, h[c].b)
    BY <1>3 DEF StartTransaction, Unused
  <2>2. /\ localTransactionMap' = [localTransactionMap EXCEPT ![c] = t]
        /\ \A u \in Tx : outcome[u] # "none" => outcome'[u] # "none"
        /\ outcome'[t] # "none"
    BY <2>1 DEF Started
  <2>3. h'[c].pc \notin AtEnd /\ \A d \in Client : d # c => h'[d] = h[d]
    BY <1>0, <1>3 DEF StartTransaction, Become, Reading, Plain, At, AtEnd
  <2>4. Stored'
    BY <1>0, <2>1, <2>2 DEF OwnInv, Stored
  <2>5. \A d \in Client : EndsFor(d, h[d])'
    BY <1>0, <2>1, <2>2, <2>3 DEF OwnInv, EndsFor
  <2> QED
    BY <2>4, <2>5 DEF OwnInv
<1> QED
  BY <1>1, <1>2, <1>3 DEF Statement

\* The end of a transaction.
LEMMA EndingOwn ==
  ASSUME LocalInv, OwnInv, NEW c \in Client, Ending(c)
  PROVE  OwnInv'
<1>0. /\ h \in [Client -> Handler] /\ localTransactionMap \in [Client -> Tx \cup {None}]
      /\ outcome \in [Tx -> {"none", "open", "committed", "rolledback"}]
  BY DEF LocalInv, LocalTypeOK
<1>1. CASE EndStmt(c)
  <2>1. PICK op \in {"commit", "rollback"} : End(c, op, c)
    BY <1>1 DEF EndStmt
  <2>2. EndsFor(c, At("end", op, c, localTransactionMap[c], None))
    BY <2>1, FoundItsOwn DEF End
  <2> QED
    BY <1>1, <2>1, <2>2, OwnKept DEF EndStmt, End, Become, server
<1>2. CASE EndExecute(c)
  <2>1. \A t \in Tx : outcome[t] # "none" => outcome'[t] # "none"
    BY <1>0, <1>2 DEF EndExecute, Break, Settle, server
  <2> QED
    BY <1>0, <1>2, <2>1, OwnKept DEF EndExecute, Goto, Become, At, AtEnd
<1>3. CASE EndPut(c) \/ EndClosed(c) \/ EndDelete(c)
  <2>1. \A d \in Client : localTransactionMap'[d] \in {localTransactionMap[d], None}
    BY <1>0, <1>3 DEF EndPut, EndClosed, EndDelete, Panic, DeleteTx
  <2>2. outcome' = outcome
    BY <1>3 DEF EndPut, EndClosed, EndDelete, server
  <2>3. h[c].pc \in AtEnd
    BY <1>3 DEF EndPut, EndClosed, EndDelete, AtEnd
  <2>4. CASE h' = h
    <3>1. h' = [h EXCEPT ![c] = h[c]]
      BY <1>0, <2>4
    <3> QED
      BY <2>1, <2>2, <2>3, <3>1, OwnKept
  <2>5. CASE Goto(c, "close") \/ Goto(c, "delete")
    BY <2>1, <2>2, <2>3, <2>5, OwnKept DEF Goto, Become, At
  <2>6. CASE Become(c, Leaving) \/ Become(c, Reading) \/ Become(c, Gone)
    BY <2>1, <2>2, <2>6, OwnKept DEF Become, Leaving, Reading, Gone, Plain, At, AtEnd
  <2> QED
    BY <1>3, <2>4, <2>5, <2>6 DEF EndPut, EndClosed, EndDelete, Panic
<1>4. CASE EndClose(c)
  BY <1>0, <1>4, OwnKept DEF EndClose, Goto, Become, At, AtEnd, server
<1> QED
  BY <1>1, <1>2, <1>3, <1>4 DEF Ending

\* Connections that end.
LEMMA LeavingOwn ==
  ASSUME LocalInv, OwnInv, NEW c \in Client, Quit(c) \/ Drop(c) \/ Leave(c)
  PROVE  OwnInv'
<1>1. CASE Become(c, Leaving) \/ Become(c, Gone)
  BY <1>1, OwnKept DEF Quit, Drop, Leave, Become, Leaving, Gone, Plain, At, AtEnd, server
<1>2. CASE Quit(c) /\ End(c, "quit", c)
  <2>1. EndsFor(c, At("end", "quit", c, localTransactionMap[c], None))
    BY <1>2, FoundItsOwn DEF End
  <2> QED
    BY <1>2, <2>1, OwnKept DEF Quit, End, Become, server
<1>3. CASE Leave(c) /\ End(c, "closing", accepted)
  <2>1. accepted \in Client
    BY <1>3 DEF LocalInv, Order, Leave, Client, LocalTypeOK
  <2>2. EndsFor(c, At("end", "closing", accepted, localTransactionMap[accepted], None))
    BY <1>3, <2>1, FoundItsOwn DEF End
  <2> QED
    BY <1>3, <2>2, OwnKept DEF Leave, End, Become, server
<1> QED
  BY <1>1, <1>2, <1>3 DEF Quit, Drop, Leave

LEMMA NextOwn == LocalInv /\ OwnInv /\ [Next]_lvars => OwnInv'
<1> SUFFICES ASSUME LocalInv, OwnInv, [Next]_lvars PROVE OwnInv'
  OBVIOUS
<1>1. CASE Accept
  <2>1. accepted + 1 \in Client
    BY <1>1, LocalAssumption DEF Accept, LocalInv, LocalTypeOK, Client
  <2> QED
    BY <1>1, <2>1, OwnKept DEF Accept, Become, Reading, Plain, At, AtEnd, server
<1>2. ASSUME NEW b \in Backend, CloseIdle(b) PROVE OwnInv'
  <2>1. \A t \in Tx : outcome[t] # "none" => outcome'[t] # "none"
    BY <1>2, StaysBegun DEF CloseIdle
  <2> QED
    BY <1>2, <2>1, LocalAssumption
    DEF CloseIdle, OwnInv, Stored, EndsFor, LocalInv, LocalTypeOK
<1>3. CASE UNCHANGED lvars
  BY <1>3 DEF lvars, OwnInv, Stored, EndsFor
<1> QED
  BY <1>1, <1>2, <1>3, StatementOwn, EndingOwn, LeavingOwn DEF Next

\* Only a handler's own steps start a transaction for its connection; only a
\* handler that works for a connection ends what that connection has.
LEMMA OnlyItsHandler ==
  ASSUME LocalInv, OwnInv, Next, NEW c \in Client, Sheltered(c), Mine(c)' # Mine(c)
  PROVE  h'[c] # h[c]
<1>0. /\ h \in [Client -> Handler] /\ localTransactionMap \in [Client -> Tx \cup {None}]
      /\ tx \in [Tx -> Backend \cup {None}] /\ None \notin Tx
  BY LocalAssumption DEF LocalInv, LocalTypeOK
<1>1. PICK d \in Client : \/ StartTransaction(d) \/ EndPut(d) \/ EndClosed(d)
                          \/ EndDelete(d) \/ EndClose(d)
  BY DEF Mine, Next, Accept, Statement, Ending, Quit, Drop, Leave, CloseIdle, BeginStmt,
         BeginFails, TxQuery, TxQueryDone, DBQuery, DBQueryDone, EndStmt, EndExecute
<1>2. EndsFor(d, h[d])
  BY DEF OwnInv
<1>3. d = c
  <2>1. CASE StartTransaction(d)
    <3>1. PICK t \in Tx : outcome[t] = "none" /\ Started(d, t, h[d].b)
      BY <2>1 DEF StartTransaction, Unused
    <3>2. localTransactionMap[c] # t
      BY <1>0, <3>1 DEF OwnInv, Stored
    <3> QED
      BY <1>0, <3>1, <3>2 DEF Started, Mine
  <2>2. CASE EndClose(d)
    <3>1. h[d].t \in Tx /\ localTransactionMap' = localTransactionMap
      BY <1>2, <2>2 DEF EndClose, EndsFor, AtEnd
    <3>2. localTransactionMap[c] = h[d].t
      BY <1>0, <2>2, <3>1 DEF EndClose, Mine
    <3> QED
      BY <1>2, <2>2, <3>2 DEF EndClose, EndsFor, AtEnd, Sheltered
  <2>3. CASE EndPut(d) \/ EndClosed(d) \/ EndDelete(d)
    <3>1. tx' = tx /\ localTransactionMap'[c] # localTransactionMap[c]
      BY <2>3 DEF EndPut, EndClosed, EndDelete, Mine
    <3>2. h[d].pc \in AtEnd /\ h[d].key = c
      BY <1>0, <2>3, <3>1 DEF EndPut, EndClosed, EndDelete, Panic, DeleteTx, AtEnd
    <3> QED
      BY <1>2, <3>2 DEF EndsFor, Sheltered
  <2> QED
    BY <1>1, <2>1, <2>2, <2>3
<1>4. h'[c].pc # h[c].pc \/ h' = h
  BY <1>0, <1>1, <1>3 DEF StartTransaction, EndPut, EndClosed, EndDelete, EndClose,
     Panic, Goto, Become, Reading, Leaving, Gone, Plain, At
<1>5. h' # h
  BY <1>0, <1>1, <1>3 DEF StartTransaction, EndPut, EndClosed, EndDelete, EndClose,
     Panic, Goto, Become, Reading, Leaving, Gone, Plain, At, Mine
<1> QED
  BY <1>4, <1>5

\* Nobody begins to close the transaction of a connection that is not the
\* newest.
LEMMA StaysSheltered ==
  ASSUME LocalInv, Next, NEW c \in Client, Sheltered(c)
  PROVE  Sheltered(c)'
<1>0. h \in [Client -> Handler] /\ accepted \in Nat /\ c \in Nat
  BY DEF LocalInv, LocalTypeOK, Client
<1>1. c < accepted'
  <2>1. CASE Accept
    BY <1>0, <2>1 DEF Accept, Sheltered
  <2>2. CASE ~Accept
    <3>1. accepted' = accepted
      BY <2>2 DEF Next, Statement, Ending, Quit, Drop, Leave, CloseIdle, BeginStmt,
         StartTransaction, BeginFails, TxQuery, TxQueryDone, DBQuery, DBQueryDone,
         EndStmt, EndExecute, EndPut, EndClose, EndClosed, EndDelete
    <3> QED
      BY <3>1 DEF Sheltered
  <2> QED
    BY <2>1, <2>2
<1>2. ASSUME NEW d \in Client \ {c}, h'[d].op = "closing", h'[d].key = c PROVE FALSE
  <2>1. ~(h[d].op = "closing" /\ h[d].key = c)
    BY DEF Sheltered
  <2>2. CASE \E e \in Client : Leave(e)
    BY <1>0, <1>2, <2>1, <2>2
    DEF Sheltered, Leave, End, Become, Gone, Plain, At
  <2>3. CASE ~\E e \in Client : Leave(e)
    <3>1. CASE Accept
      BY <1>0, <1>2, <2>1, <3>1 DEF Accept, Become, Reading, Plain, At
    <3>2. ASSUME NEW e \in Client, Statement(e) PROVE FALSE
      BY <1>0, <1>2, <2>1, <3>2
      DEF Statement, BeginStmt, StartTransaction, BeginFails, TxQuery, TxQueryDone,
          DBQuery, DBQueryDone, PutAnd, Become, Reading, Leaving, Plain, At
    <3>3. ASSUME NEW e \in Client, Ending(e) PROVE FALSE
      BY <1>0, <1>2, <2>1, <3>3
      DEF Ending, EndStmt, EndExecute, EndPut, EndClose, EndClosed, EndDelete, End,
          Goto, Panic, Become, Reading, Leaving, Gone, Plain, At
    <3>4. ASSUME NEW e \in Client, Quit(e) \/ Drop(e) PROVE FALSE
      BY <1>0, <1>2, <2>1, <3>4 DEF Quit, Drop, End, Become, Leaving, Plain, At
    <3>5. ASSUME NEW b \in Backend, CloseIdle(b) PROVE FALSE
      BY <1>2, <2>1, <3>5 DEF CloseIdle
    <3> QED
      BY <2>3, <3>1, <3>2, <3>3, <3>4, <3>5 DEF Next
  <2> QED
    BY <2>2, <2>3
<1> QED
  BY <1>1, <1>2 DEF Sheltered

\* A client that is no longer the newest keeps its transaction, with the
\* backend connection it runs on, until its own handler ends it: whatever
\* connections overlap, break or nest their transactions, the wrong id in the
\* deferred function of handle reaches only the newest connection.
THEOREM OlderAreKept == Spec => OlderKeepTheirs
<1> DEFINE Keeps(c) ==
             Sheltered(c) => /\ Sheltered(c)'
                             /\ Mine(c)' # Mine(c) => h'[c] # h[c]
<1>1. ASSUME LocalInv, OwnInv, [Next]_lvars
      PROVE  [\A c \in Client : Keeps(c)]_lvars
  BY <1>1, OnlyItsHandler, StaysSheltered
<1>2. Init => LocalInv /\ OwnInv
  BY InitInv DEF Init, OwnInv, Stored, EndsFor, AtEnd, Plain, At
<1>3. LocalInv /\ OwnInv /\ [Next]_lvars => (LocalInv /\ OwnInv)'
  BY NextInv, NextOwn
<1> QED
  BY <1>1, <1>2, <1>3, PTL DEF Spec, OlderKeepTheirs

---------------------------------------------------------------------------
(***************************************************************************)
(* Clients one at a time.  What follows is about the behaviours in which a *)
(* connection ends only while it is the newest one and no client nests its *)
(* transactions.  Backend connections may break at any time.               *)
(***************************************************************************)
Orderly == Faults \cap {"overlap", "nested"} = {}

\* Connection b is in the hands of handler c.
Owns(c, b) ==
  \/ h[c].pc \in {"begin", "query"} /\ h[c].b = b
  \/ /\ h[c].pc \notin {"close", "delete"}
     /\ localTransactionMap[c] # None
     /\ tx[localTransactionMap[c]] = b

\* Handler c works on its own transaction, in the session it was begun in.
Good(c) ==
  LET t == localTransactionMap[c]
  IN  /\ h[c].pc \in {"none", "gone", "begin", "query"} => t = None
      /\ h[c].pc \in {"stmt", "end", "put", "close", "delete"}
           => t \in Tx /\ h[c].t = t
      /\ h[c].pc \in {"end", "put", "close", "delete"} => h[c].key = c
      /\ h[c].pc = "stmt" => h[c].b = tx[t]
      /\ t # None => outcome[t] # "none"
      /\ t # None /\ h[c].pc # "delete" => tx[t] \in Backend
      /\ h[c].pc = "leaving" \/ h[c].op \in {"quit", "closing"}
           => c = accepted
      /\ h[c].op = "commit" => h[c].t \in asked
      /\ h[c].pc \in {"begin", "query"} => session[h[c].b] \in {None, Broken}
      /\ t # None /\ h[c].pc \in {"read", "stmt", "end", "leaving"}
           => session[tx[t]] \in {t, Broken}
      /\ h[c].pc = "put" => session[tx[t]] \in {None, Broken}
      /\ h[c].pc = "put" /\ h[c].op = "commit"
           => outcome[t] = "committed" \/ session[tx[t]] = Broken

\* No two handlers share a transaction or a connection.
Apart ==
  \A c, d \in Client : c # d =>
    /\ localTransactionMap[c] # None
         => localTransactionMap[c] # localTransactionMap[d]
    /\ \A b \in Backend : ~(Owns(c, b) /\ Owns(d, b))

\* No connection is in the pool twice.
PoolOnce == \A i, j \in 1 .. Len(pool) : pool[i] = pool[j] => i = j

\* Nobody holds a connection of the pool, and nothing is open in it.
PoolFree ==
  \A b \in ToSet(pool) : /\ session[b] \in {None, Broken}
                         /\ \A c \in Client : ~Owns(c, b)

\* Every connection is in the pool or in the hands of somebody.
NoneLost == \A b \in Backend : b \in ToSet(pool) \/ \E c \in Client : Owns(c, b)

OrderlyInv ==
  /\ \A c \in Client : Good(c)
  /\ Apart
  /\ PoolOnce
  /\ PoolFree
  /\ NoneLost
  /\ CommittedOnlyIfAsked

---------------------------------------------------------------------------
\* Get takes the connection at the head of the pool out of it.
LEMMA TakeHead ==
  ASSUME pool \in Seq(Backend), PoolOnce, pool # <<>>, pool' = Tail(pool)
  PROVE  /\ Head(pool) \in ToSet(pool)
         /\ ToSet(pool') = ToSet(pool) \ {Head(pool)}
         /\ PoolOnce'
<1>1. Len(pool) \in Nat /\ Len(pool) > 0 /\ DOMAIN pool = 1 .. Len(pool)
  OBVIOUS
<1>2. /\ Len(pool') = Len(pool) - 1
      /\ DOMAIN pool' = 1 .. Len(pool) - 1
      /\ \A i \in 1 .. Len(pool) - 1 : pool'[i] = pool[i + 1]
  BY <1>1
<1>3. Head(pool) = pool[1]
  BY <1>1
<1>4. PoolOnce'
  BY <1>1, <1>2 DEF PoolOnce
<1>5. ASSUME NEW b PROVE b \in ToSet(pool') <=> b \in ToSet(pool) /\ b # pool[1]
  <2>1. ASSUME b \in ToSet(pool') PROVE b \in ToSet(pool) /\ b # pool[1]
    <3>1. PICK i \in 1 .. Len(pool) - 1 : b = pool[i + 1]
      BY <1>2, <2>1 DEF ToSet
    <3> QED
      BY <1>1, <3>1 DEF ToSet, PoolOnce
  <2>2. ASSUME b \in ToSet(pool), b # pool[1] PROVE b \in ToSet(pool')
    <3>1. PICK i \in 1 .. Len(pool) : b = pool[i]
      BY <1>1, <2>2 DEF ToSet
    <3>2. i - 1 \in 1 .. Len(pool) - 1 /\ pool'[i - 1] = b
      BY <1>1, <1>2, <2>2, <3>1
    <3> QED
      BY <1>2, <3>2 DEF ToSet
  <2> QED
    BY <2>1, <2>2
<1>6. Head(pool) \in ToSet(pool)
  BY <1>1, <1>3 DEF ToSet
<1> QED
  BY <1>3, <1>4, <1>5, <1>6

\* Put appends a connection that is not in the pool.
LEMMA PutLast ==
  ASSUME pool \in Seq(Backend), PoolOnce, NEW b \in Backend,
         b \notin ToSet(pool), pool' = Append(pool, b)
  PROVE  ToSet(pool') = ToSet(pool) \cup {b} /\ PoolOnce'
<1>1. Len(pool) \in Nat /\ DOMAIN pool = 1 .. Len(pool)
  OBVIOUS
<1>2. /\ Len(pool') = Len(pool) + 1
      /\ DOMAIN pool' = 1 .. Len(pool) + 1
      /\ pool'[Len(pool) + 1] = b
      /\ \A i \in 1 .. Len(pool) : pool'[i] = pool[i]
  BY <1>1
<1>3. PoolOnce'
  BY <1>1, <1>2 DEF PoolOnce, ToSet
<1>4. ToSet(pool') = ToSet(pool) \cup {b}
  BY <1>1, <1>2 DEF ToSet
<1> QED
  BY <1>3, <1>4

\* Put never finds the pool full when it is given a connection that is not
\* in it: there are more connections than the pool holds.
LEMMA NotFull ==
  ASSUME pool \in Seq(Backend), PoolOnce, NEW b \in Backend, b \notin ToSet(pool)
  PROVE  ~Full
<1> DEFINE T == Backend \ {b}
<1>1. IsFiniteSet(T) /\ Cardinality(T) = Cardinality(Backend) - 1
  BY LocalAssumption, FS_RemoveElement
<1>2. Len(pool) \in Nat /\ Cardinality(Backend) \in Nat
  BY LocalAssumption, FS_CardinalityType
<1>3. IsFiniteSet(1 .. Len(pool)) /\ Cardinality(1 .. Len(pool)) = Len(pool)
  <2>1. Len(pool) \in Int /\ 1 \in Int
    BY <1>2
  <2>2. /\ IsFiniteSet(1 .. Len(pool))
        /\ Cardinality(1 .. Len(pool)) =
             IF 1 > Len(pool) THEN 0 ELSE Len(pool) - 1 + 1
    BY <2>1, FS_Interval, Zenon
  <2> QED
    BY <1>2, <2>2
<1>4. pool \in [1 .. Len(pool) -> T]
  BY DEF ToSet
<1>5. ~(Cardinality(T) < Len(pool))
  <2> SUFFICES ASSUME Cardinality(T) < Cardinality(1 .. Len(pool)) PROVE FALSE
    BY <1>3
  <2>1. \E i, j \in 1 .. Len(pool) : i # j /\ pool[i] = pool[j]
    <3> HIDE DEF T
    <3> QED BY <1>1, <1>3, <1>4, FS_PigeonHole
  <2> QED
    BY <2>1 DEF PoolOnce
<1>6. Cardinality(T) \in Int
  BY <1>1, <1>2
<1> QED
  BY <1>1, <1>2, <1>5, <1>6, LocalAssumption DEF Full

---------------------------------------------------------------------------
\* A step of handler c that leaves the others, their transactions and their
\* sessions alone.
Private(c) ==
  /\ accepted' = accepted
  /\ asked \subseteq asked'
  /\ \A d \in Client \ {c} :
       LET t == localTransactionMap[d]
       IN  /\ h'[d] = h[d]
           /\ localTransactionMap'[d] = t
           /\ t # None => tx'[t] = tx[t] /\ outcome'[t] = outcome[t]
           /\ \A b \in Backend : Owns(d, b) => session'[b] = session[b]

\* The others are as well off as before, and own what they owned.
LEMMA OthersKeep ==
  ASSUME LocalInv, OrderlyInv, NEW c \in Client, Private(c)
  PROVE  \A d \in Client \ {c} :
           Good(d)' /\ \A b \in Backend : Owns(d, b)' <=> Owns(d, b)
<1> SUFFICES ASSUME NEW d \in Client \ {c}
             PROVE  Good(d)' /\ \A b \in Backend : Owns(d, b)' <=> Owns(d, b)
  OBVIOUS
<1> DEFINE t == localTransactionMap[d]
<1>1. /\ h'[d] = h[d] /\ localTransactionMap'[d] = t
      /\ t # None => tx'[t] = tx[t] /\ outcome'[t] = outcome[t]
      /\ accepted' = accepted
      /\ asked \subseteq asked'
  BY DEF Private
<1>2. \A b \in Backend : Owns(d, b)' <=> Owns(d, b)
  BY <1>1 DEF Owns
<1>3. Good(d) /\ h[d] \in Handler
  BY DEF OrderlyInv, LocalInv, LocalTypeOK
<1>4. h[d].pc \in {"begin", "query"} => session'[h[d].b] = session[h[d].b]
  <2> SUFFICES ASSUME h[d].pc \in {"begin", "query"}
               PROVE  session'[h[d].b] = session[h[d].b]
    OBVIOUS
  <2>1. h[d].b \in Backend /\ Owns(d, h[d].b)
    BY DEF LocalInv, Knows, Owns
  <2> QED
    BY <2>1 DEF Private
<1>5. t # None /\ h[d].pc \notin {"close", "delete"}
        => session'[tx[t]] = session[tx[t]]
  <2> SUFFICES ASSUME t # None, h[d].pc \notin {"close", "delete"}
               PROVE  session'[tx[t]] = session[tx[t]]
    OBVIOUS
  <2>1. tx[t] \in Backend /\ Owns(d, tx[t])
    BY <1>3 DEF Good, Owns
  <2> QED
    BY <2>1 DEF Private
<1>6. Good(d)'
  <2>1. h[d].pc \in {"stmt", "put"} => t # None
    BY <1>3, LocalAssumption DEF Good
  <2> QED
    BY <1>1, <1>3, <1>4, <1>5, <2>1 DEF Good
<1> QED
  BY <1>2, <1>6

\* What handler c may do with the pool: what it owns afterwards it owned
\* before or took from the pool, what it no longer owns is in the pool.
Exchange(c) ==
  /\ \A b \in Backend :
       /\ Owns(c, b)' => Owns(c, b) \/ b \in ToSet(pool)
       /\ Owns(c, b)' => b \notin ToSet(pool')
       /\ Owns(c, b) => Owns(c, b)' \/ b \in ToSet(pool')
       /\ b \in ToSet(pool) => b \in ToSet(pool') \/ Owns(c, b)'
       /\ b \in ToSet(pool') =>
            /\ b \in ToSet(pool) \/ Owns(c, b)
            /\ session'[b] \in {None, Broken}
  /\ localTransactionMap'[c] # None =>
       \A d \in Client \ {c} : localTransactionMap[d] # localTransactionMap'[c]

\* A private step of c after which c is well off keeps the invariant.
LEMMA Kept ==
  ASSUME LocalInv, OrderlyInv, pool' \in Seq(Backend), NEW c \in Client,
         Private(c), Good(c)', Exchange(c), PoolOnce', CommittedOnlyIfAsked'
  PROVE  OrderlyInv'
<1>1. \A d \in Client \ {c} :
        /\ Good(d)'
        /\ localTransactionMap'[d] = localTransactionMap[d]
        /\ \A b \in Backend : Owns(d, b)' <=> Owns(d, b)
  BY OthersKeep DEF Private
<1>2. \A b \in ToSet(pool') : b \in Backend
  BY DEF ToSet
<1>3. \A b \in ToSet(pool) : b \in Backend
  BY DEF ToSet, LocalInv, LocalTypeOK
<1>4. Apart'
  <2> SUFFICES ASSUME NEW d \in Client, NEW e \in Client, d # e
               PROVE  /\ localTransactionMap'[d] # None
                           => localTransactionMap'[d] # localTransactionMap'[e]
                      /\ \A b \in Backend : ~(Owns(d, b)' /\ Owns(e, b)')
    BY DEF Apart
  <2>1. CASE d # c /\ e # c
    BY <1>1, <2>1 DEF OrderlyInv, Apart
  <2>2. CASE d = c \/ e = c
    BY <1>1, <2>2 DEF OrderlyInv, Apart, PoolFree, Exchange
  <2> QED
    BY <2>1, <2>2
<1>5. PoolFree'
  <2> SUFFICES ASSUME NEW b \in ToSet(pool')
               PROVE  /\ session'[b] \in {None, Broken}
                      /\ \A d \in Client : ~Owns(d, b)'
    BY DEF PoolFree
  <2> QED
    BY <1>1, <1>2 DEF OrderlyInv, Apart, PoolFree, Exchange
<1>6. NoneLost'
  <2> SUFFICES ASSUME NEW b \in Backend, b \notin ToSet(pool')
               PROVE  \E d \in Client : Owns(d, b)'
    BY DEF NoneLost
  <2> QED
    BY <1>1 DEF OrderlyInv, NoneLost, Exchange
<1> QED
  BY <1>1, <1>4, <1>5, <1>6 DEF OrderlyInv

---------------------------------------------------------------------------
\* A step in which nothing comes to or from the pool.
LEMMA SameHands ==
  ASSUME LocalInv, OrderlyInv, NEW c \in Client, pool' = pool,
         \A b \in Backend : Owns(c, b)' <=> Owns(c, b),
         \A b \in Backend : session'[b] # session[b] => Owns(c, b),
         localTransactionMap'[c] \in {localTransactionMap[c], None}
  PROVE  Exchange(c) /\ PoolOnce' /\ pool' \in Seq(Backend)
<1>1. \A b \in ToSet(pool) : b \in Backend
  BY DEF ToSet, LocalInv, LocalTypeOK
<1>2. PoolOnce' /\ pool' \in Seq(Backend)
  BY DEF OrderlyInv, PoolOnce, LocalInv, LocalTypeOK
<1>3. Exchange(c)
  BY <1>1 DEF OrderlyInv, PoolFree, Apart, Exchange
<1> QED
  BY <1>2, <1>3

\* The server ends at most the transaction of c when c ends a session it owns,
\* and nothing when c is not in a transaction.
LEMMA SettlesOwn ==
  ASSUME LocalInv, OrderlyInv, NEW c \in Client, NEW b \in Backend, Owns(c, b)
  PROVE  /\ session[b] \in Tx => session[b] = localTransactionMap[c]
                                 /\ h[c].pc \in {"read", "stmt", "end", "leaving"}
         /\ \A d \in Client \ {c} : ~Owns(d, b)
<1>1. Good(c) /\ h[c] \in Handler
  BY DEF OrderlyInv, LocalInv, LocalTypeOK
<1>2. \A d \in Client \ {c} : ~Owns(d, b)
  BY DEF OrderlyInv, Apart
<1>3. session[b] \in Tx => session[b] = localTransactionMap[c]
                           /\ h[c].pc \in {"read", "stmt", "end", "leaving"}
  BY <1>1, LocalAssumption DEF Good, Owns, Handler
<1> QED
  BY <1>2, <1>3

\* A handler breaks its own session, or ends what is open in it.
LEMMA ServerPrivate ==
  ASSUME LocalInv, OrderlyInv, NEW c \in Client, NEW b \in Backend, Owns(c, b),
         NEW s, NEW how, session' = [session EXCEPT ![b] = s], Settle(b, how)
  PROVE  /\ \A d \in Client \ {c} :
              /\ localTransactionMap[d] # None
                   => outcome'[localTransactionMap[d]] = outcome[localTransactionMap[d]]
              /\ \A e \in Backend : Owns(d, e) => session'[e] = session[e]
         /\ \A e \in Backend : session'[e] # session[e] => Owns(c, e)
         /\ session'[b] = s
         /\ \A t \in Tx : outcome'[t] = IF t = session[b] THEN how ELSE outcome[t]
<1>1. session \in [Backend -> Tx \cup {None, Broken}]
      /\ outcome \in [Tx -> {"none", "open", "committed", "rolledback"}]
      /\ localTransactionMap \in [Client -> Tx \cup {None}]
  BY DEF LocalInv, LocalTypeOK
<1>2. \A t \in Tx : outcome'[t] = IF t = session[b] THEN how ELSE outcome[t]
  BY <1>1 DEF Settle
<1>3. ASSUME NEW d \in Client \ {c}, localTransactionMap[d] # None
      PROVE  outcome'[localTransactionMap[d]] = outcome[localTransactionMap[d]]
  <2>1. localTransactionMap[d] \in Tx /\ localTransactionMap[c] # localTransactionMap[d]
    BY <1>1, <1>3 DEF OrderlyInv, Apart
  <2> QED
    BY <1>2, <2>1, SettlesOwn
<1>4. \A d \in Client \ {c}, e \in Backend : Owns(d, e) => session'[e] = session[e]
  BY <1>1, SettlesOwn
<1> QED
  BY <1>1, <1>2, <1>3, <1>4

\* A handler that takes a connection from the pool.
LEMMA Takes ==
  ASSUME LocalInv, OrderlyInv, NEW c \in Client, NEW pc \in {"begin", "query"},
         h[c].pc = "read", localTransactionMap[c] = None, pool # <<>>,
         pool' = Tail(pool), Become(c, At(pc, "none", None, None, Head(pool))),
         UNCHANGED <<accepted, localTransactionMap, tx, server, asked>>
  PROVE  OrderlyInv'
<1> USE DEF server
<1>1. pool \in Seq(Backend) /\ PoolOnce /\ h \in [Client -> Handler]
  BY DEF LocalInv, LocalTypeOK, OrderlyInv
<1>2. /\ Head(pool) \in ToSet(pool)
      /\ ToSet(pool') = ToSet(pool) \ {Head(pool)}
      /\ PoolOnce'
  BY <1>1, TakeHead
<1>3. pool' \in Seq(Backend)
  BY <1>1
<1>4. /\ h'[c].pc = pc /\ h'[c].op = "none" /\ h'[c].b = Head(pool)
      /\ \A d \in Client \ {c} : h'[d] = h[d]
  BY <1>1 DEF Become, At
<1>5. Private(c)
  BY <1>4 DEF Private
<1>6. \A b \in Backend : ~Owns(c, b) /\ (Owns(c, b)' <=> b = Head(pool))
  BY <1>4 DEF Owns
<1>7. \A b \in ToSet(pool) : b \in Backend /\ session[b] \in {None, Broken}
  BY <1>1 DEF ToSet, OrderlyInv, PoolFree
<1>8. Good(c)'
  BY <1>2, <1>4, <1>7 DEF Good
<1>9. Exchange(c)
  BY <1>2, <1>6, <1>7 DEF Exchange
<1>10. CommittedOnlyIfAsked'
  BY DEF OrderlyInv, CommittedOnlyIfAsked
<1> QED
  BY <1>2, <1>3, <1>5, <1>8, <1>9, <1>10, Kept

\* The server is left alone, or breaks session b, which c owns.
LEMMA MayBreak ==
  ASSUME LocalInv, OrderlyInv, NEW c \in Client, NEW b \in Backend, Owns(c, b),
         UNCHANGED server \/ Break(b), asked \subseteq asked'
  PROVE  /\ \A d \in Client \ {c} :
              /\ localTransactionMap[d] # None
                   => outcome'[localTransactionMap[d]] = outcome[localTransactionMap[d]]
              /\ \A e \in Backend : Owns(d, e) => session'[e] = session[e]
         /\ \A e \in Backend : session'[e] # session[e] => Owns(c, e)
         /\ session'[b] \in {session[b], Broken}
         /\ \A t \in Tx : outcome[t] # "none" => outcome'[t] # "none"
         /\ CommittedOnlyIfAsked'
<1>1. CASE UNCHANGED server
  BY <1>1 DEF server, OrderlyInv, CommittedOnlyIfAsked
<1>2. CASE Break(b)
  <2>1. session' = [session EXCEPT ![b] = Broken] /\ Settle(b, "rolledback")
    BY <1>2 DEF Break
  <2>2. \A t \in Tx : outcome'[t] = IF t = session[b] THEN "rolledback" ELSE outcome[t]
    BY <2>1 DEF Settle, LocalInv, LocalTypeOK
  <2>3. CommittedOnlyIfAsked'
    BY <2>2 DEF OrderlyInv, CommittedOnlyIfAsked
  <2> QED
    BY <2>1, <2>2, <2>3, ServerPrivate
<1> QED
  BY <1>1, <1>2

\* A handler outside a transaction that gives a connection back.
LEMMA Gives ==
  ASSUME LocalInv, OrderlyInv, NEW c \in Client, h[c].pc \in {"begin", "query"},
         UNCHANGED server \/ Break(h[c].b), PutAnd(c, h[c].b, Reading),
         UNCHANGED <<accepted, localTransactionMap, tx, asked>>
  PROVE  OrderlyInv'
<1> DEFINE b == h[c].b
<1>1. pool \in Seq(Backend) /\ PoolOnce /\ h \in [Client -> Handler]
  BY DEF LocalInv, LocalTypeOK, OrderlyInv
<1>2. /\ b \in Backend /\ Good(c) /\ localTransactionMap[c] = None
      /\ \A e \in Backend : Owns(c, e) <=> e = b
  BY DEF LocalInv, Knows, OrderlyInv, Good, Owns
<1>3. b \notin ToSet(pool)
  BY <1>2 DEF OrderlyInv, PoolFree
<1>4. ~Full
  BY <1>1, <1>2, <1>3, NotFull
<1>5. /\ pool' = Append(pool, b) /\ pool' \in Seq(Backend)
      /\ h'[c].pc = "read" /\ h'[c].op = "none"
      /\ \A d \in Client \ {c} : h'[d] = h[d]
  BY <1>1, <1>2, <1>4 DEF PutAnd, Become, Reading, Plain, At
<1>6. ToSet(pool') = ToSet(pool) \cup {b} /\ PoolOnce'
  BY <1>1, <1>2, <1>3, <1>5, PutLast
<1>7. /\ \A d \in Client \ {c} :
           /\ localTransactionMap[d] # None
                => outcome'[localTransactionMap[d]] = outcome[localTransactionMap[d]]
           /\ \A e \in Backend : Owns(d, e) => session'[e] = session[e]
      /\ \A e \in Backend : session'[e] # session[e] => Owns(c, e)
      /\ session'[b] \in {session[b], Broken}
      /\ CommittedOnlyIfAsked'
  BY <1>2, MayBreak
<1>8. Private(c)
  BY <1>5, <1>7 DEF Private
<1>9. Good(c)'
  BY <1>2, <1>5 DEF Good
<1>10. \A e \in Backend : ~Owns(c, e)'
  BY <1>2, <1>5 DEF Owns
<1>11. session[b] \in {None, Broken}
  BY <1>2 DEF Good
<1>12. \A e \in ToSet(pool) : e \in Backend /\ session[e] \in {None, Broken}
                              /\ ~Owns(c, e)
  BY <1>1 DEF ToSet, OrderlyInv, PoolFree
<1>13. Exchange(c)
  <2> HIDE DEF b
  <2> QED BY <1>2, <1>6, <1>7, <1>10, <1>11, <1>12 DEF Exchange
<1> QED
  BY <1>5, <1>6, <1>7, <1>8, <1>9, <1>13, Kept

\* BEGIN succeeds: the connection becomes the one of the new transaction.
LEMMA Starts ==
  ASSUME LocalInv, OrderlyInv, NEW c \in Client, StartTransaction(c)
  PROVE  OrderlyInv'
<1> DEFINE b == h[c].b
<1>1. PICK t \in Unused : Started(c, t, b)
  BY DEF StartTransaction
<1>2. /\ h \in [Client -> Handler] /\ session \in [Backend -> Tx \cup {None, Broken}]
      /\ tx \in [Tx -> Backend \cup {None}]
      /\ localTransactionMap \in [Client -> Tx \cup {None}]
  BY DEF LocalInv, LocalTypeOK
<1>3. /\ b \in Backend /\ Good(c) /\ localTransactionMap[c] = None
      /\ \A e \in Backend : Owns(c, e) <=> e = b
      /\ h[c].pc = "begin" /\ session[b] = None
  BY DEF LocalInv, Knows, OrderlyInv, Good, Owns, StartTransaction, Up
<1>4. t \in Tx /\ outcome[t] = "none" /\ None \notin Tx
  BY LocalAssumption DEF Unused
<1>5. \A d \in Client : localTransactionMap[d] # t
  BY <1>4 DEF OrderlyInv, Good
<1>6. /\ \A u \in Tx : outcome'[u] = IF u = t THEN "open" ELSE outcome[u]
      /\ session'[b] = t
      /\ \A e \in Backend : e # b => session'[e] = session[e]
      /\ tx'[t] = b
      /\ \A u \in Tx : u # t => tx'[u] = tx[u]
      /\ localTransactionMap'[c] = t
      /\ \A d \in Client : d # c => localTransactionMap'[d] = localTransactionMap[d]
  BY <1>1, <1>2, <1>3, <1>4 DEF Started
<1>7. /\ h'[c].pc = "read" /\ h'[c].op = "none"
      /\ \A d \in Client \ {c} : h'[d] = h[d]
      /\ UNCHANGED <<accepted, pool, asked>>
  BY <1>2 DEF StartTransaction, Become, Reading, Plain, At
<1>8. \A d \in Client \ {c}, e \in Backend : Owns(d, e) => e # b
  BY <1>3 DEF OrderlyInv, Apart
<1>9. Private(c)
  <2> HIDE DEF b
  <2> QED BY <1>2, <1>5, <1>6, <1>7, <1>8 DEF Private
<1>10. Good(c)'
  BY <1>3, <1>4, <1>6, <1>7 DEF Good
<1>11. \A e \in Backend : Owns(c, e)' <=> e = b
  BY <1>4, <1>6, <1>7 DEF Owns
<1>12. b \notin ToSet(pool) /\ \A e \in ToSet(pool) : e \in Backend
                              /\ session[e] \in {None, Broken}
  BY <1>3 DEF OrderlyInv, PoolFree, ToSet, LocalInv, LocalTypeOK
<1>13. Exchange(c)
  <2> HIDE DEF b
  <2> QED BY <1>3, <1>5, <1>6, <1>7, <1>11, <1>12 DEF Exchange
<1>14. CommittedOnlyIfAsked'
  BY <1>6, <1>7 DEF OrderlyInv, CommittedOnlyIfAsked
<1>15. PoolOnce' /\ pool' \in Seq(Backend)
  BY <1>7 DEF OrderlyInv, PoolOnce, LocalInv, LocalTypeOK
<1> QED
  BY <1>9, <1>10, <1>13, <1>14, <1>15, Kept

\* A step of c, with nothing but its handler and possibly its own session.
LEMMA Goes ==
  ASSUME LocalInv, OrderlyInv, NEW c \in Client, NEW r, Become(c, r),
         h[c].pc \notin {"close", "delete"}, r.pc \notin {"close", "delete"},
         h[c].pc \notin {"begin", "query"}, r.pc \notin {"begin", "query"},
         \/ UNCHANGED server
         \/ \E b \in Backend : Owns(c, b) /\ Break(b),
         Good(c)', asked \subseteq asked', UNCHANGED <<accepted, localTransactionMap, tx, pool>>
  PROVE  OrderlyInv'
<1>1. h \in [Client -> Handler]
  BY DEF LocalInv, LocalTypeOK
<1>2. h'[c] = r /\ \A d \in Client \ {c} : h'[d] = h[d]
  BY <1>1 DEF Become
<1>3. \A b \in Backend : Owns(c, b)' <=> Owns(c, b)
  BY <1>2 DEF Owns
<1>4. /\ \A d \in Client \ {c} :
           /\ localTransactionMap[d] # None
                => outcome'[localTransactionMap[d]] = outcome[localTransactionMap[d]]
           /\ \A e \in Backend : Owns(d, e) => session'[e] = session[e]
      /\ \A e \in Backend : session'[e] # session[e] => Owns(c, e)
      /\ CommittedOnlyIfAsked'
  <2>1. CASE UNCHANGED server
    BY <2>1 DEF server, OrderlyInv, CommittedOnlyIfAsked
  <2>2. CASE \E b \in Backend : Owns(c, b) /\ Break(b)
    <3>1. PICK b \in Backend : Owns(c, b) /\ Break(b)
      BY <2>2
    <3> QED
      BY <3>1, MayBreak
  <2> QED
    BY <2>1, <2>2
<1>5. Private(c)
  BY <1>2, <1>4 DEF Private
<1> QED
  BY <1>3, <1>4, <1>5, SameHands, Kept

---------------------------------------------------------------------------
\* What the invariants say of a single handler.
LEMMA GoodHandler ==
  ASSUME LocalInv, OrderlyInv, NEW c \in Client
  PROVE  /\ Good(c) /\ h[c] \in Handler /\ h \in [Client -> Handler]
         /\ localTransactionMap[c] \in Tx \cup {None}
         /\ None \notin Tx /\ Broken \notin Tx /\ None # Broken
         /\ None \notin Backend
         /\ h[c].pc \in {"read", "stmt", "end", "put", "leaving"}
              => \A b \in Backend :
                   Owns(c, b) <=> localTransactionMap[c] # None
                                  /\ b = tx[localTransactionMap[c]]
BY LocalAssumption DEF OrderlyInv, LocalInv, LocalTypeOK, Owns

\* Statements keep the invariant.
LEMMA StatementOrderly ==
  ASSUME Orderly, LocalInv, OrderlyInv, NEW c \in Client, Statement(c)
  PROVE  OrderlyInv'
<1> DEFINE t == localTransactionMap[c]
<1>0. /\ Good(c) /\ h[c] \in Handler /\ h \in [Client -> Handler]
      /\ t \in Tx \cup {None} /\ None \notin Tx /\ Broken \notin Tx
      /\ None # Broken /\ None \notin Backend
  BY GoodHandler
<1>1. CASE BeginStmt(c)
  <2>1. t = None
    BY <1>1 DEF BeginStmt, Orderly
  <2> QED
    BY <1>1, <2>1, Takes DEF BeginStmt
<1>2. CASE StartTransaction(c)
  BY <1>2, Starts
<1>3. CASE BeginFails(c)
  BY <1>3, Gives DEF BeginFails
<1>4. CASE TxQuery(c)
  <2> DEFINE r == At("stmt", "none", None, t, tx[t])
  <2>1. h[c].pc = "read" /\ t # None /\ tx[t] \in Backend
    BY <1>0, <1>4 DEF TxQuery, Good
  <2>2. Become(c, r) /\ UNCHANGED <<accepted, localTransactionMap, tx, pool, server, asked>>
    BY <1>0, <1>4, <2>1 DEF TxQuery
  <2>3. h'[c] = r
    BY <1>0, <2>2 DEF Become
  <2>4. Good(c)'
    BY <1>0, <2>1, <2>2, <2>3 DEF Good, At, server
  <2> QED
    BY <2>1, <2>2, <2>4, Goes DEF At
<1>5. CASE TxQueryDone(c)
  <2>1. h[c].pc = "stmt" /\ t # None /\ h[c].b = tx[t] /\ tx[t] \in Backend
        /\ h[c].t = t
    BY <1>0, <1>5 DEF TxQueryDone, Good
  <2>2. /\ Become(c, Reading)
        /\ UNCHANGED server \/ Break(tx[t])
        /\ UNCHANGED <<accepted, localTransactionMap, tx, pool, asked>>
    BY <1>0, <1>5, <2>1 DEF TxQueryDone
  <2>3. Owns(c, tx[t])
    BY <2>1 DEF Owns
  <2>4. h'[c] = Reading
    BY <1>0, <2>2 DEF Become
  <2>5. session'[tx[t]] \in {session[tx[t]], Broken} /\ outcome'[t] # "none"
    BY <1>0, <2>1, <2>2, <2>3, MayBreak DEF Good
  <2>6. Good(c)'
    BY <1>0, <2>1, <2>2, <2>4, <2>5 DEF Good, Reading, Plain, At
  <2> QED
    BY <2>1, <2>2, <2>3, <2>6, Goes DEF Reading, Plain, At
<1>6. CASE DBQuery(c)
  BY <1>6, Takes DEF DBQuery
<1>7. CASE DBQueryDone(c)
  BY <1>7, Gives DEF DBQueryDone
<1> QED
  BY <1>1, <1>2, <1>3, <1>4, <1>5, <1>6, <1>7 DEF Statement

\* The end of a transaction, up to the answer of the server.
LEMMA EndOrderly ==
  ASSUME LocalInv, OrderlyInv, NEW c \in Client, EndStmt(c) \/ EndExecute(c)
  PROVE  OrderlyInv'
<1> DEFINE t == localTransactionMap[c]
           b == tx[t]
<1>0. /\ Good(c) /\ h[c] \in Handler /\ h \in [Client -> Handler]
      /\ t \in Tx \cup {None} /\ None \notin Tx /\ Broken \notin Tx
      /\ None # Broken /\ None \notin Backend
  BY GoodHandler
<1>1. CASE EndStmt(c)
  <2>1. h[c].pc = "read" /\ t # None
    BY <1>1 DEF EndStmt, End
  <2>2. PICK op \in {"commit", "rollback"} :
          /\ Become(c, At("end", op, c, t, None))
          /\ asked' = IF op = "commit" THEN asked \cup {t} ELSE asked
    BY <1>1 DEF EndStmt, End
  <2>3. UNCHANGED <<accepted, localTransactionMap, tx, pool, server>>
    BY <1>1 DEF EndStmt
  <2>4. h'[c] = At("end", op, c, t, None)
    BY <1>0, <2>2 DEF Become
  <2>5. Good(c)'
    BY <1>0, <2>1, <2>2, <2>3, <2>4 DEF Good, At, server
  <2> QED
    BY <2>1, <2>2, <2>3, <2>5, Goes DEF At
<1>2. CASE EndExecute(c)
  <2> DEFINE r == At("put", h[c].op, h[c].key, h[c].t, h[c].b)
  <2>1. /\ h[c].pc = "end" /\ t # None /\ b \in Backend /\ h[c].t = t
        /\ h[c].key = c /\ session[b] \in {t, Broken} /\ Owns(c, b)
    BY <1>0, <1>2 DEF EndExecute, Good, Owns
  <2>2. Become(c, r) /\ UNCHANGED <<accepted, localTransactionMap, tx, pool, asked>>
    BY <1>2 DEF EndExecute, Goto
  <2>3. h'[c] = r /\ \A d \in Client \ {c} : h'[d] = h[d]
    BY <1>0, <2>2 DEF Become
  <2>4. CASE UNCHANGED server /\ ~Up(b)
    <3>1. Good(c)'
      BY <1>0, <2>1, <2>2, <2>3, <2>4 DEF Good, At, server, Up
    <3> QED
      BY <2>1, <2>2, <2>4, <3>1, Goes DEF At
  <2>5. CASE Break(b) /\ Up(b)
    <3>1. session'[b] = Broken /\ outcome'[t] # "none"
      BY <1>0, <2>1, <2>2, <2>5, MayBreak DEF Good, Break, LocalInv, LocalTypeOK
    <3>2. Good(c)'
      BY <1>0, <2>1, <2>2, <2>3, <3>1 DEF Good, At
    <3> QED
      BY <2>1, <2>2, <2>5, <3>2, Goes DEF At
  <2>6. ASSUME NEW s \in {None, Broken}, NEW how \in {"committed", "rolledback"},
               how = "committed" <=> h[c].op = "commit",
               Up(b), session' = [session EXCEPT ![b] = s], Settle(b, how)
        PROVE  OrderlyInv'
    <3>1. session[b] = t
      BY <2>1, <2>6 DEF Up
    <3>2. /\ \A d \in Client \ {c} :
               /\ localTransactionMap[d] # None
                    => outcome'[localTransactionMap[d]] = outcome[localTransactionMap[d]]
               /\ \A e \in Backend : Owns(d, e) => session'[e] = session[e]
          /\ \A e \in Backend : session'[e] # session[e] => Owns(c, e)
          /\ session'[b] = s
      <4> HIDE DEF b
      <4> QED BY <2>1, <2>6, ServerPrivate
    <3>3. \A u \in Tx : outcome'[u] = IF u = t THEN how ELSE outcome[u]
      BY <3>1, <2>6, <1>0, <2>1 DEF Settle, LocalInv, LocalTypeOK
    <3>4. Private(c)
      BY <2>2, <2>3, <3>2 DEF Private
    <3>5. Good(c)'
      BY <1>0, <2>1, <2>2, <2>3, <3>2, <3>3, <2>6 DEF Good, At
    <3>6. CommittedOnlyIfAsked'
      BY <1>0, <2>1, <2>2, <3>3, <2>6 DEF Good, OrderlyInv, CommittedOnlyIfAsked
    <3>7. \A e \in Backend : Owns(c, e)' <=> Owns(c, e)
      BY <2>1, <2>2, <2>3 DEF Owns, At
    <3> QED
      BY <2>2, <3>2, <3>4, <3>5, <3>6, <3>7, SameHands, Kept
  <2> QED
    BY <1>2, <2>1, <2>4, <2>5, <2>6 DEF EndExecute
<1> QED
  BY <1>1, <1>2

\* The rest of it: the connection goes back to the pool, the transaction is
\* closed and forgotten.
LEMMA EndedOrderly ==
  ASSUME LocalInv, OrderlyInv, NEW c \in Client,
         EndPut(c) \/ EndClose(c) \/ EndClosed(c) \/ EndDelete(c)
  PROVE  OrderlyInv'
<1> DEFINE t == localTransactionMap[c]
           b == tx[t]
<1>0. /\ Good(c) /\ h[c] \in Handler /\ h \in [Client -> Handler]
      /\ t \in Tx \cup {None} /\ None \notin Tx /\ Broken \notin Tx
      /\ None # Broken /\ None \notin Backend
      /\ pool \in Seq(Backend) /\ PoolOnce
      /\ localTransactionMap \in [Client -> Tx \cup {None}]
      /\ tx \in [Tx -> Backend \cup {None}]
  BY GoodHandler DEF OrderlyInv, LocalInv, LocalTypeOK
<1>1. CASE EndPut(c)
  <2> DEFINE r == At("close", h[c].op, h[c].key, h[c].t, h[c].b)
  <2>1. /\ h[c].pc = "put" /\ t \in Tx /\ b \in Backend /\ h[c].t = t
        /\ h[c].key = c /\ Owns(c, b) /\ session[b] \in {None, Broken}
    BY <1>0, <1>1 DEF EndPut, Good, Owns
  <2>2. b \notin ToSet(pool)
    BY <2>1 DEF OrderlyInv, PoolFree
  <2>3. ~Full
    <3> HIDE DEF b
    <3> QED BY <1>0, <2>1, <2>2, NotFull
  <2>4. /\ pool' = Append(pool, b) /\ Become(c, r)
        /\ UNCHANGED <<accepted, localTransactionMap, tx, server, asked>>
    BY <1>0, <1>1, <2>1, <2>3 DEF EndPut, Goto
  <2>5. /\ h'[c] = r /\ \A d \in Client \ {c} : h'[d] = h[d]
        /\ pool' \in Seq(Backend)
    BY <1>0, <2>1, <2>4 DEF Become
  <2>6. ToSet(pool') = ToSet(pool) \cup {b} /\ PoolOnce'
    <3> HIDE DEF b
    <3> QED BY <1>0, <2>1, <2>2, <2>4, PutLast
  <2>7. Private(c) /\ CommittedOnlyIfAsked'
    BY <2>4, <2>5 DEF Private, server, OrderlyInv, CommittedOnlyIfAsked
  <2>8. Good(c)'
    BY <1>0, <2>1, <2>4, <2>5 DEF Good, At, server
  <2>9. \A e \in Backend : ~Owns(c, e)' /\ (Owns(c, e) <=> e = b)
    BY <2>1, <2>5 DEF Owns, At
  <2>10. \A e \in ToSet(pool) : e \in Backend /\ session[e] \in {None, Broken}
    BY <1>0 DEF OrderlyInv, PoolFree, ToSet
  <2>11. Exchange(c)
    <3>1. UNCHANGED session /\ localTransactionMap'[c] = t
      BY <2>4 DEF server
    <3>2. \A d \in Client \ {c} : localTransactionMap[d] # t
      BY <1>0, <2>1 DEF OrderlyInv, Apart
    <3> HIDE DEF b
    <3> QED BY <2>1, <2>6, <2>9, <2>10, <3>1, <3>2 DEF Exchange
  <2> QED
    BY <2>5, <2>6, <2>7, <2>8, <2>11, Kept
<1>2. CASE EndClose(c)
  <2> DEFINE r == At("delete", h[c].op, h[c].key, h[c].t, h[c].b)
  <2>1. h[c].pc = "close" /\ t \in Tx /\ h[c].t = t /\ h[c].key = c
    BY <1>0, <1>2 DEF EndClose, Good
  <2>2. /\ tx' = [tx EXCEPT ![t] = None] /\ Become(c, r)
        /\ UNCHANGED <<accepted, localTransactionMap, pool, server, asked>>
    BY <1>2, <2>1 DEF EndClose, Goto
  <2>3. h'[c] = r /\ \A d \in Client \ {c} : h'[d] = h[d]
    BY <1>0, <2>2 DEF Become
  <2>4. \A d \in Client \ {c} : localTransactionMap[d] # None
          => tx'[localTransactionMap[d]] = tx[localTransactionMap[d]]
    BY <1>0, <2>1, <2>2 DEF OrderlyInv, Apart
  <2>5. Private(c) /\ CommittedOnlyIfAsked'
    BY <2>2, <2>3, <2>4 DEF Private, server, OrderlyInv, CommittedOnlyIfAsked
  <2>6. Good(c)'
    BY <1>0, <2>1, <2>2, <2>3 DEF Good, At, server
  <2>7. \A e \in Backend : ~Owns(c, e)' /\ ~Owns(c, e)
    BY <2>1, <2>3 DEF Owns, At
  <2> QED
    BY <2>2, <2>5, <2>6, <2>7, SameHands, Kept DEF server
<1>3. CASE EndClosed(c)
  BY <1>0, <1>3 DEF EndClosed, Good
<1>4. CASE EndDelete(c)
  <2>1. h[c].pc = "delete" /\ t \in Tx /\ h[c].t = t /\ h[c].key = c
    BY <1>0, <1>4 DEF EndDelete, Good
  <2>2. PICK r \in {Gone, Leaving, Reading} :
          /\ Become(c, r)
          /\ r = Leaving => h[c].op = "quit"
    <3>1. Leaving # Gone /\ Leaving # Reading
      BY DEF Leaving, Gone, Reading, Plain, At
    <3> QED BY <1>4, <3>1 DEF EndDelete
  <2>3. /\ localTransactionMap' = [localTransactionMap EXCEPT ![c] = None]
        /\ UNCHANGED <<accepted, tx, pool, server, asked>>
    BY <1>4, <2>1 DEF EndDelete, DeleteTx
  <2>4. /\ h'[c] = r /\ \A d \in Client \ {c} : h'[d] = h[d]
        /\ localTransactionMap'[c] = None
        /\ \A d \in Client \ {c} : localTransactionMap'[d] = localTransactionMap[d]
    BY <1>0, <2>2, <2>3 DEF Become
  <2>5. Private(c) /\ CommittedOnlyIfAsked'
    BY <2>3, <2>4 DEF Private, server, OrderlyInv, CommittedOnlyIfAsked
  <2>6. Good(c)'
    BY <1>0, <2>2, <2>3, <2>4 DEF Good, Gone, Leaving, Reading, Plain, At
  <2>7. \A e \in Backend : ~Owns(c, e)' /\ ~Owns(c, e)
    BY <2>1, <2>4 DEF Owns, Gone, Leaving, Reading, Plain, At
  <2> QED
    BY <2>3, <2>4, <2>5, <2>6, <2>7, SameHands, Kept DEF server
<1> QED
  BY <1>1, <1>2, <1>3, <1>4

\* Connections that end, in order.
LEMMA LeaveOrderly ==
  ASSUME Orderly, LocalInv, OrderlyInv, NEW c \in Client,
         Quit(c) \/ Drop(c) \/ Leave(c)
  PROVE  OrderlyInv'
<1> DEFINE t == localTransactionMap[c]
<1>0. /\ Good(c) /\ h[c] \in Handler /\ h \in [Client -> Handler]
      /\ t \in Tx \cup {None} /\ None \notin Tx /\ Broken \notin Tx
      /\ None # Broken /\ None \notin Backend
  BY GoodHandler
<1>1. /\ h[c].pc \in {"read", "leaving"} /\ c = accepted
      /\ UNCHANGED <<accepted, localTransactionMap, tx, pool, server, asked>>
  BY <1>0 DEF Quit, Drop, Leave, MayEnd, Orderly, Good
<1>2. PICK r : /\ Become(c, r)
               /\ \/ r = Leaving
                  \/ r = Gone /\ t = None
                  \/ \E op \in {"quit", "closing"} :
                       t # None /\ r = At("end", op, c, t, None)
  BY <1>1 DEF Quit, Drop, Leave, End
<1>3. h'[c] = r
  BY <1>0, <1>2 DEF Become
<1>4. Good(c)'
  BY <1>0, <1>1, <1>2, <1>3 DEF Good, Leaving, Gone, Plain, At, server
<1>5. r.pc \in {"leaving", "gone", "end"}
  BY <1>2 DEF Leaving, Gone, Plain, At
<1> QED
  BY <1>1, <1>2, <1>4, <1>5, Goes

\* A connection that is accepted.
LEMMA AcceptOrderly ==
  ASSUME Orderly, LocalInv, OrderlyInv, Accept
  PROVE  OrderlyInv'
<1> DEFINE c == accepted + 1
<1>1. /\ c \in Client /\ accepted' = c /\ h' = [h EXCEPT ![c] = Reading]
      /\ h \in [Client -> Handler]
      /\ UNCHANGED <<localTransactionMap, tx, pool, server, asked>>
  BY LocalAssumption DEF Accept, Become, LocalInv, LocalTypeOK, Client
<1>2. h[c].pc = "none"
  BY <1>1, LocalAssumption DEF LocalInv, LocalTypeOK, Order, Client
<1>3. \A d \in Client : h[d].pc # "leaving" /\ h[d].op \notin {"closing", "quit"}
  BY DEF Accept, Calm, Orderly
<1>4. h'[c].pc = "read" /\ h'[c].op = "none" /\ \A d \in Client \ {c} : h'[d] = h[d]
  BY <1>1 DEF Reading, Plain, At
<1>5. localTransactionMap[c] = None
  BY <1>1, <1>2 DEF OrderlyInv, Good
<1>6. \A d \in Client : Good(d)'
  BY <1>1, <1>3, <1>4, <1>5 DEF OrderlyInv, Good, server
<1>7. \A d \in Client, b \in Backend : Owns(d, b)' <=> Owns(d, b)
  BY <1>1, <1>2, <1>4, <1>5 DEF Owns
<1>8. Apart' /\ NoneLost'
  BY <1>1, <1>7 DEF OrderlyInv, Apart, NoneLost
<1>9. \A b \in ToSet(pool) : b \in Backend
  BY DEF ToSet, LocalInv, LocalTypeOK
<1>10. PoolFree'
  BY <1>1, <1>7, <1>9 DEF OrderlyInv, PoolFree, server
<1> QED
  BY <1>1, <1>6, <1>8, <1>10 DEF OrderlyInv, PoolOnce, CommittedOnlyIfAsked, server

\* An idle connection that is replaced was broken: nothing is open in it.
LEMMA IdleOrderly ==
  ASSUME LocalInv, OrderlyInv, NEW b \in Backend, CloseIdle(b)
  PROVE  OrderlyInv'
<1>1. /\ b \in ToSet(pool) /\ session' = [session EXCEPT ![b] = None]
      /\ session \in [Backend -> Tx \cup {None, Broken}]
      /\ UNCHANGED <<accepted, localTransactionMap, tx, pool, h, asked>>
  BY DEF CloseIdle, LocalInv, LocalTypeOK
<1>2. session[b] = Broken
  BY <1>1 DEF CloseIdle, OrderlyInv, PoolFree
<1>3. UNCHANGED outcome
  BY <1>2, LocalAssumption DEF CloseIdle, Settle
<1>4. \A c \in Client : ~Owns(c, b)
  BY <1>1 DEF OrderlyInv, PoolFree
<1>5. \A c \in Client, e \in Backend : Owns(c, e)' <=> Owns(c, e)
  BY <1>1 DEF Owns
<1>6. ASSUME NEW c \in Client PROVE Good(c)'
  <2>1. Good(c) /\ h[c] \in Handler
    BY GoodHandler
  <2>2. h[c].pc \in {"begin", "query"} => h[c].b # b
    BY <1>4 DEF Owns
  <2>3. /\ localTransactionMap[c] # None /\ h[c].pc \notin {"close", "delete"}
             => tx[localTransactionMap[c]] # b
        /\ h[c].pc = "put" => localTransactionMap[c] # None
    BY <1>4, <2>1, LocalAssumption DEF Owns, Good
  <2>4. \A e : e # b => session'[e] = session[e]
    BY <1>1
  <2> QED
    BY <1>1, <1>3, <2>1, <2>2, <2>3, <2>4 DEF Good
<1>7. Apart' /\ NoneLost'
  BY <1>1, <1>5 DEF OrderlyInv, Apart, NoneLost
<1>8. \A e \in ToSet(pool) : e \in Backend
  BY DEF ToSet, LocalInv, LocalTypeOK
<1>9. PoolFree'
  BY <1>1, <1>5, <1>8 DEF OrderlyInv, PoolFree
<1> QED
  BY <1>1, <1>3, <1>6, <1>7, <1>9 DEF OrderlyInv, PoolOnce, CommittedOnlyIfAsked

\* At the start all connections are in the pool, once.
LEMMA InitOrderly == Init => OrderlyInv
<1> SUFFICES ASSUME Init PROVE OrderlyInv
  OBVIOUS
<1>1. Cardinality(Backend) \in Nat
  BY LocalAssumption, FS_CardinalityType
<1>2. /\ pool \in [1 .. Cardinality(Backend) -> Backend]
      /\ \A b \in Backend : \E i \in 1 .. Cardinality(Backend) : pool[i] = b
      /\ \A i, j \in 1 .. Cardinality(Backend) : pool[i] = pool[j] => i = j
  BY DEF Init, Bijection, Injection, IsInjective, Surjection
<1>3. PoolOnce /\ ToSet(pool) = Backend
  BY <1>1, <1>2 DEF PoolOnce, ToSet
<1>4. /\ \A c \in Client : h[c].pc = "none" /\ h[c].op = "none"
                           /\ localTransactionMap[c] = None
      /\ \A b \in Backend : session[b] = None
      /\ \A t \in Tx : outcome[t] = "none"
  BY DEF Init, Plain, At
<1>5. \A c \in Client, b \in Backend : ~Owns(c, b)
  BY <1>4 DEF Owns
<1>6. \A c \in Client : Good(c)
  BY <1>4 DEF Good
<1> QED
  BY <1>3, <1>4, <1>5, <1>6
  DEF OrderlyInv, Apart, PoolFree, NoneLost, CommittedOnlyIfAsked

---------------------------------------------------------------------------
\* Every step keeps the invariant.
LEMMA NextOrderly ==
  Orderly /\ LocalInv /\ OrderlyInv /\ [Next]_lvars => OrderlyInv'
<1> SUFFICES ASSUME Orderly, LocalInv, OrderlyInv, [Next]_lvars
             PROVE  OrderlyInv'
  OBVIOUS
<1>1. CASE Accept
  BY <1>1, AcceptOrderly
<1>2. ASSUME NEW c \in Client, Statement(c) PROVE OrderlyInv'
  BY <1>2, StatementOrderly
<1>3. ASSUME NEW c \in Client, Ending(c) PROVE OrderlyInv'
  BY <1>3, EndOrderly, EndedOrderly DEF Ending
<1>4. ASSUME NEW c \in Client, Quit(c) \/ Drop(c) \/ Leave(c) PROVE OrderlyInv'
  BY <1>4, LeaveOrderly
<1>5. ASSUME NEW b \in Backend, CloseIdle(b) PROVE OrderlyInv'
  BY <1>5, IdleOrderly
<1>6. CASE UNCHANGED lvars
  BY <1>6 DEF lvars, OrderlyInv, Good, Apart, PoolOnce, PoolFree, NoneLost, Owns,
              CommittedOnlyIfAsked
<1> QED
  BY <1>1, <1>2, <1>3, <1>4, <1>5, <1>6 DEF Next

\* The invariant of orderly connections holds, with the one of the types.
LEMMA OrderlyHolds ==
  ASSUME Orderly PROVE Spec => [](LocalInv /\ OrderlyInv)
<1>1. LocalInv /\ OrderlyInv /\ [Next]_lvars => (LocalInv /\ OrderlyInv)'
  BY NextInv, NextOrderly
<1>2. Init => LocalInv /\ OrderlyInv
  BY InitInv, InitOrderly
<1> QED
  BY <1>1, <1>2, PTL DEF Spec

\* Every connection that was taken from the pool is held by somebody who will
\* put it back (db.Begin, db.Query, tx.Commit, tx.Rollback, ConnectionClose).
THEOREM PoolConserved ==
  ASSUME Orderly PROVE Spec => []EveryGetIsPut
<1>1. LocalInv /\ OrderlyInv => EveryGetIsPut
  <2> SUFFICES ASSUME OrderlyInv, NEW b \in Backend, b \notin ToSet(pool)
               PROVE  Held(b)
    BY DEF EveryGetIsPut
  <2>1. PICK c \in Client : Owns(c, b)
    BY DEF OrderlyInv, NoneLost
  <2>2. Good(c)
    BY DEF OrderlyInv
  <2> QED
    BY <2>1, <2>2 DEF Owns, Good, Held
<1> QED
  BY <1>1, OrderlyHolds, PTL

\* A statement in a transaction runs in the session of that transaction, any
\* other in a session where nothing is open (tx.Query, db.Query).
THEOREM StatementsRunAtHome ==
  ASSUME Orderly PROVE Spec => []RunsInItsTransaction
<1>1. LocalInv /\ OrderlyInv => RunsInItsTransaction
  <2> SUFFICES ASSUME OrderlyInv, NEW c \in Client
               PROVE  /\ h[c].pc = "stmt" => session[h[c].b] \in {h[c].t, Broken}
                      /\ h[c].pc = "query" => session[h[c].b] \in {None, Broken}
    BY DEF RunsInItsTransaction
  <2> QED
    BY LocalAssumption DEF OrderlyInv, Good
<1> QED
  BY <1>1, OrderlyHolds, PTL

\* The server commits nothing its own client did not ask it to commit.
THEOREM CommitsAreAsked ==
  ASSUME Orderly PROVE Spec => []CommittedOnlyIfAsked
<1>1. LocalInv /\ OrderlyInv => CommittedOnlyIfAsked
  BY DEF OrderlyInv
<1> QED
  BY <1>1, OrderlyHolds, PTL

\* A COMMIT that was answered without an error committed the transaction of
\* its client (tx.Commit).
THEOREM CommitsAreTrue ==
  ASSUME Orderly PROVE Spec => []CommitAnswersTruly
<1>1. LocalInv /\ OrderlyInv => CommitAnswersTruly
  BY DEF OrderlyInv, Good, CommitAnswersTruly, Up
<1> QED
  BY <1>1, OrderlyHolds, PTL

=============================================================================
