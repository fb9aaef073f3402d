---------------------------- MODULE MCUndoImages ----------------------------
(* Two global transactions and another client on a table of three keys: each *)
(* transaction alone with every script, beside each of a few scripts of the  *)
(* other, and beside a writer with and without the GlobalLock hint.          *)
EXTENDS UndoImages, TLC

x1 == "x1"
x2 == "x2"
w1 == "w1"
MCTables == {<<1, 2, 0>>, <<4, 3, 0>>}

Up(S, V, v) == [op |-> "update", rows |-> S, vals |-> V, set |-> "v" :> v, binary |-> FALSE, limit |-> 0, limitParam |-> FALSE]
Rekey(p, q) == [Up({p}, Values, 1) EXCEPT !.set = "id" :> q]
Del(S) == [op |-> "delete", rows |-> S, vals |-> Values, binary |-> FALSE, limit |-> 0, limitParam |-> FALSE]
Prepared(s) == [s EXCEPT !.binary = TRUE]
Limited(s, n, param) == [s EXCEPT !.limit = n, !.limitParam = param]
Ins(b, cols, lists, dup) == [op |-> "insert", binary |-> b, cols |-> cols, lists |-> lists, dup |-> dup]
Sel(S) == [op |-> "select", rows |-> S, vals |-> Values, forUpdate |-> TRUE]
Plain == [Sel({}) EXCEPT !.forUpdate = FALSE]
InTx1(stmts) == [auto |-> FALSE, stmts |-> stmts]
Auto(stmt) == [auto |-> TRUE, stmts |-> <<stmt>>]
By(s, hint) == [hint |-> hint] @@ s

IdV == <<"id", "v">>
VId == <<"v", "id">>
Few == {<<InTx1(<<Up({1}, Values, 2)>>)>>, <<InTx1(<<Up({1, 2}, {1, 2}, 2), Del({1})>>)>>,
        <<InTx1(<<Ins(FALSE, IdV, <<<<3, 1>>>>, "error")>>)>>,
        <<Auto(Up({1}, {1}, 2))>>, <<InTx1(<<Sel({1, 2}), Up({2}, {2}, 1)>>)>>}
Scripts == Few \cup
  {<<InTx1(<<Up({1}, Values, 2), Up({1, 2}, {2}, 1)>>)>>,
   <<InTx1(<<Up({1}, Values, 2)>>), InTx1(<<Del({1, 2})>>)>>,
   <<InTx1(<<Del({1})>>), InTx1(<<Ins(FALSE, <<>>, <<<<1, 4>>, <<3, 2>>>>, "error")>>)>>,
   <<InTx1(<<Ins(TRUE, IdV, <<<<3, 1>>>>, "error"), Up({1, 3}, Values, 2)>>), InTx1(<<Del({3})>>)>>,
   <<InTx1(<<Up({1}, {1}, 4)>>), InTx1(<<Up({1}, Values, 3)>>)>>,
   <<InTx1(<<Up({2}, {2, 3}, 4)>>)>>,
   <<InTx1(<<Plain, Up({1, 2}, {1, 2}, 2)>>)>>,
   <<InTx1(<<Up({2}, Values, 3), Limited(Up({1, 2}, Values, 2), 1, FALSE)>>)>>,
   <<InTx1(<<Rekey(1, 3)>>)>>,
   <<InTx1(<<Ins(FALSE, <<"v">>, <<<<2>>>>, "error")>>)>>,
   <<InTx1(<<Ins(FALSE, VId, <<<<2, 3>>>>, "error")>>)>>,
   <<InTx1(<<Ins(TRUE, VId, <<<<2, 3>>>>, "error")>>)>>,
   <<InTx1(<<Ins(TRUE, <<>>, <<<<3, 2>>>>, "error")>>)>>,
   <<InTx1(<<Ins(FALSE, IdV, <<<<1, 2>>>>, "update")>>)>>,
   <<InTx1(<<Prepared(Up({2}, Values, 1)), Limited(Up({1, 2}, Values, 3), 1, FALSE)>>)>>,
   <<InTx1(<<Limited(Prepared(Up({2}, Values, 3)), 1, TRUE)>>)>>,
   <<InTx1(<<Limited(Del({1, 2}), 1, FALSE)>>), InTx1(<<Prepared(Del({2}))>>)>>,
   <<Auto(Del({1})), Auto(Ins(FALSE, IdV, <<<<1, 3>>>>, "error"))>>}
Others == {By(Up({1}, Values, 2), TRUE), By(Up({1, 2}, {1, 2}, 1), FALSE), By(Prepared(Del({1})), TRUE)}
Quiet == By(Up({}, Values, 1), FALSE)

Runs(a, b, c) == x1 :> a @@ x2 :> b @@ w1 :> c
MCWorkloads == {Runs(a, b, Quiet) : a \in Scripts, b \in Few} \cup {Runs(a, <<>>, c) : a \in Scripts, c \in Others}
=============================================================================
