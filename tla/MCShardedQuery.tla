--------------------------- MODULE MCShardedQuery ---------------------------
(* Two sharding rules over three tables in two databases, and a set of      *)
(* statements that meets every pair of operators.                           *)
EXTENDS ShardedQuery

(* b is 0, 5 or 10, whose printed order is another, and NULL once.  A key that
   no table takes is not stored. *)
Row(i) == [id |-> i, b |-> IF i = 4 THEN Null ELSE (i \div 3) * 5]
AllRows == {Row(i) : i \in -3..8}
Datasets == {AllRows, {Row(i) : i \in {0, 3, 6}}, {}}
Mod(f) == [name |-> "NumberMod", key |-> "id", ranges |-> <<>>, allowFullScan |-> f]
Ranges == [name |-> "NumberRange", key |-> "id", allowFullScan |-> TRUE,
           ranges |-> (0 :> <<0, 3, "">> @@ 1 :> <<3, 6, "">> @@ 2 :> <<6, 9, "">>)]
Unordered == [Ranges EXCEPT !.ranges = (0 :> <<3, 6, "">> @@ 1 :> <<0, 3, "">> @@ 2 :> <<6, 9, "">>)]
Misconfigured == [Ranges EXCEPT !.ranges = 0 :> <<3, 3, "K">>]
TwoDBs == 0 :> {0, 1} @@ 1 :> {2}
OneDB == 0 :> {0, 1, 2}
OtherTopologies ==
  {0 :> {0} @@ 1 :> {0} @@ 2 :> {2},    \* a table listed twice: accepted
   0 :> {0} @@ 1 :> {2},                \* an index is missing: refused
   0 :> {0, 1} @@ 2 :> {2},             \* so is a database
   0 :> {}}

Base == [type |-> "select", table |-> "sharded", where |-> Val(1), order |-> <<>>, limit |-> NoLimit,
         agg |-> "none", binary |-> TRUE, hint |-> FALSE, inTx |-> FALSE,
         set |-> [col |-> "b", value |-> 9],
         rows |-> <<>>, columns |-> <<"id", "b">>, params |-> {"id", "b"}, pk |-> "id", nextID |-> 0]

Id(o, v) == Cmp(Col("id"), o, Val(v))
B(o, v) == Cmp(Col("b"), o, Val(v))
Comparisons == {Id(o, v) : o \in Ops \ {"like"}, v \in {-3, -1, 0, 1, 3, 5, 9, 12}}
Few == {Id(o, v) : o \in Ops \ {"like"}, v \in {-3, 1, 3, 5}}
Shapes ==
  {Val(0), Val(1), Opaque, Cmp(Col("id"), "eq", Col("b")), Cmp(Val(3), "lt", Col("id")), Cmp(Val(1), "le", Val(0)),
   Cmp(Col("id"), "eq", Opaque), Cmp(Opaque, "eq", Val(1)), Like("id", Text), Like("b", Text),
   Paren(Id("le", 1)), Between("id", FALSE, 1, 4), Between("id", FALSE, 2, 3), Between("id", FALSE, 3, 3),
   Between("id", TRUE, 1, 6), In("id", FALSE, <<1, 4>>), In("id", TRUE, <<1, 4>>), In("id", FALSE, <<5>>),
   In("id", FALSE, <<1, 2, 3>>),
   Logic(Id("eq", 1), "and", Val(1)), Logic(Val(1), "and", Id("eq", 1)), Logic(Val(0), "or", Id("eq", 1)),
   Logic(Val(0), "and", Id("eq", 1)), Logic(Logic(Id("eq", 1), "and", Val(1)), "or", Id("eq", 2)),
   Logic(B("eq", 0), "and", Id("eq", 1)), Logic(B("eq", 0), "or", Id("eq", 5)),
   Logic(Between("id", FALSE, 1, 4), "and", Id("ne", 2)),
   Logic(Logic(Id("eq", 1), "or", Id("eq", 2)), "and", Logic(B("eq", 0), "or", B("eq", 1))),
   Logic(Between("id", FALSE, 1, 4), "or", Between("id", FALSE, 5, 6)),
   Logic(Between("id", FALSE, 0, 4), "and", Logic(Id("eq", 1), "or", B("eq", 1))),
   Logic(Between("id", FALSE, 0, 8), "and", Logic(Logic(B("eq", 1), "and", Id("lt", 4)), "or", Id("eq", 8))),
   Logic(Id("ge", 1), "or", Logic(B("eq", 0), "and", Id("eq", 0)))}
Wheres == Comparisons \cup Shapes \cup {Logic(l, o, r) : l \in Few, o \in {"and", "or"}, r \in Few}

Item(c, d, n) == <<[col |-> c, desc |-> d, named |-> n]>>
Orders == {<<>>, Item("id", TRUE, TRUE), Item("b", FALSE, TRUE), Item("b", TRUE, TRUE) \o Item("id", FALSE, TRUE),
           Item("b", TRUE, FALSE)}
Limits == {NoLimit} \cup {[offset |-> o, count |-> c] : o \in {0, 2, 9}, c \in {0, 1, 4}}
Selected == {Id("ge", 1), Id("le", 1), Between("id", FALSE, 1, 5), In("id", FALSE, <<1, 2>>), Id("lt", 0)}

Cs(rules, topologies, datasets, statements) ==
  {[rule |-> r, topology |-> t, rows |-> d, stmt |-> s] :
     r \in rules, t \in topologies, d \in datasets, s \in statements}

Inserts ==
  {[Base EXCEPT !.type = "insert", !.rows = r, !.binary = b] :
     r \in {<<Row(0)>>, <<Row(7)>>, <<Row(7), Row(8)>>, <<Row(-1)>>, <<Row(-3)>>}, b \in BOOLEAN}
  \cup {[Base EXCEPT !.type = "insert", !.rows = <<Row(7)>>, !.columns = c, !.params = p, !.pk = k,
                     !.nextID = 2, !.binary = b, !.inTx = x] :
          c \in {<<"b">>, <<"id", "b">>, <<"b", "id">>}, p \in {{"id", "b"}, {"id"}, {"b"}},
          k \in {"id", "b"}, b \in BOOLEAN, x \in BOOLEAN}

Writes ==
  {[Base EXCEPT !.type = t, !.where = w, !.hint = h, !.inTx = x] :
     t \in {"update", "delete"}, w \in Selected \cup {Id("lt", 5), Id("eq", 4)}, h \in BOOLEAN, x \in BOOLEAN}
  \cup {[Base EXCEPT !.type = "update", !.where = w, !.set = [col |-> "id", value |-> 4]] :
          w \in {Id("eq", 1), Id("eq", 4), Id("le", 1)}}

OnOtherTables ==
  {[Base EXCEPT !.type = t, !.table = n, !.rows = <<Row(1)>>] :
     t \in {"select", "update", "delete", "insert", "createIndex", "dropIndex", "other"}, n \in {"global", "unknown"}}

Schema == {[Base EXCEPT !.type = t] : t \in {"createIndex", "dropIndex", "showStatus", "showMeta", "showTables"}}

MCCases ==
  Cs({Mod(TRUE), Ranges, Unordered}, {TwoDBs}, {AllRows}, {[Base EXCEPT !.where = w] : w \in Wheres})
  \cup Cs({Mod(TRUE), Mod(FALSE), Ranges}, {TwoDBs}, Datasets,
          {[Base EXCEPT !.where = w, !.order = o, !.limit = l, !.binary = b] :
             w \in Selected, o \in Orders, l \in Limits, b \in BOOLEAN}
          \cup {[Base EXCEPT !.where = w, !.agg = a, !.binary = b] :
                  w \in Selected, a \in {"count", "max"}, b \in BOOLEAN})
  \cup Cs({Mod(TRUE), Ranges}, {TwoDBs}, Datasets, Writes)
  \cup Cs({Mod(FALSE), Ranges}, {TwoDBs} \cup OtherTopologies, {{}}, Inserts \cup OnOtherTables \cup Schema)
  \cup Cs({Mod(TRUE)}, {OneDB}, {{}}, Inserts)
  \cup Cs({Misconfigured}, {TwoDBs}, {{}}, {Base})

=============================================================================
