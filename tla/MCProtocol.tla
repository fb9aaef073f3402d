----------------------------- MODULE MCProtocol -----------------------------
(* Two clients that negotiate differently and a pool of one connection.  In  *)
(* three scripts a client prepares a statement and executes it with each     *)
(* value, alone in its row or before another column; a client sends any two  *)
(* commands beside one that only shakes hands; and both send commands that   *)
(* can be in each other's way.                                               *)
EXTENDS Protocol

MCBits == [Tiny |-> 3, Short |-> 4, Long |-> 5, LongLong |-> 6]
c1 == "c1"
c2 == "c2"
MCClients == {c1, c2}

IntVal(t, u, n) == [typ |-> t, unsigned |-> u, v |-> n]
Of(t, v) == [typ |-> t, unsigned |-> FALSE, v |-> v]
DT(d, k, m) == Of("DateTime", [date |-> d, clock |-> k, micro |-> m])
Tm(n, k, m) == Of("Time", [neg |-> n, clock |-> k, micro |-> m])
Fits(t, u, n) == IF u THEN n \in 0..2^MCBits[t] - 1 ELSE n \in -2^(MCBits[t] - 1)..2^(MCBits[t] - 1) - 1
Values ==
  {IntVal(x[1], x[2], x[3]) : x \in {y \in IntTypes \X BOOLEAN \X {-4, 0, 3, 7, 31, 32, 63} : Fits(y[1], y[2], y[3])}}
  \cup {NULL} \cup {Of("String", n) : n \in {0, 250, 251, 65535, 65536, 16777215, 16777216}}
  \cup {DT(0, 0, 0)} \cup {DT(2, k, m) : k \in {0, 1}, m \in {0, 1, 1500}}
  \cup {Tm(FALSE, 0, 0)} \cup {Tm(n, 1, m) : n \in BOOLEAN, m \in {0, 1}}

One == IntVal("Tiny", FALSE, 1)
Cmd(t, s) == [type |-> t, sql |-> s, len |-> 1, id |-> 0, param |-> One, value |-> One, last |-> TRUE, rows |-> 1, rowLen |-> 1]
Execute(p, v) == [Cmd("execute", "") EXCEPT !.param = p, !.value = v]
Sized(n, m, r) == [Cmd("query", "read") EXCEPT !.len = n, !.rowLen = m, !.rows = r]
Large == {Sized(1, 4, 1), Sized(2, 2, 2), Sized(5, 1, 0)}

AnyCommand ==
  {Cmd(t, "") : t \in {"quit", "initDB", "ping", "stmtClose", "longData", "stmtReset", "resetConnection", "unknown",
                       "execute"}}
  \cup {Cmd("setOption", s) : s \in {"on", "other", "short"}}
  \cup {Cmd("query", s) : s \in {"write", "call", "bad", "fail"}} \cup Large
  \cup {Cmd("fieldList", s) : s \in {"", "fail"}}
  \cup {Cmd("prepare", s) : s \in {"read", "write", "bad", "fail"}}

Temporal == {v \in Values : v.typ \in {"DateTime", "Time"}}

Rivals ==
  c1 :> <<{Cmd("prepare", "read"), Cmd("query", "call")}, {Cmd("execute", ""), Cmd("query", "write"), Cmd("stmtClose", "")}>>
    @@ c2 :> <<{Cmd("prepare", "write"), Cmd("initDB", "")}, {Cmd("execute", ""), Cmd("query", "write")}>>

MCScripts == {
  c1 :> <<{Cmd("prepare", "read")}, {Execute(v, v) : v \in Values}
                                    \cup {[Execute(v, v) EXCEPT !.last = FALSE] : v \in Temporal}
                                    \cup {[Cmd("query", "read") EXCEPT !.value = v] : v \in Values}>> @@ c2 :> <<>>,
  c1 :> <<AnyCommand, AnyCommand>> @@ c2 :> <<>>,
  Rivals}
=============================================================================
