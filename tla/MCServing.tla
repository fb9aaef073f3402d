----------------------------- MODULE MCServing -----------------------------
(* Configurations of the executors: two groups behind the sharding         *)
(* executor, one of them with two masters; the same with a circuit         *)
(* breaker; and one group with slaves behind the read/write splitting      *)
(* executor under each algorithm.                                          *)
EXTENDS Serving, TLC

CONSTANTS g1, g2, m1, m2, m3, s1, s2

Sharded(times, guarded, masters) ==
  [mode |-> "SHD", algorithm |-> "RoundRobin", times |-> times, breaker |-> guarded, changes |-> 2,
   modulus |-> 2, capacity |-> 1,
   masters |-> (g1 :> masters @@ g2 :> <<m3>>),
   slaves  |-> (g1 :> <<>> @@ g2 :> <<>>)]

Splitting(times, algorithm, masters) ==
  [mode |-> "RWS", algorithm |-> algorithm, times |-> times, breaker |-> FALSE,
   changes |-> IF algorithm = "RoundRobin" THEN 1 ELSE 2,
   modulus |-> 6, capacity |-> IF algorithm = "Random" THEN 2 ELSE 1,
   masters |-> (g1 :> masters @@ g2 :> <<>>),
   slaves  |-> (g1 :> <<s1, s2>> @@ g2 :> <<>>)]

MCConfigs ==
  {Sharded(2, FALSE, <<m1, m2>>), Sharded(1, TRUE, <<m1>>)}
    \cup {Splitting(2, a, <<m1>>) : a \in {"Random", "RandomWeight"}}
    \cup {Splitting(1, "RoundRobin", <<m1, m2, m3>>)}

MCReadWeight  == m1 :> 1 @@ m2 :> 1 @@ m3 :> 1 @@ s1 :> 2 @@ s2 :> 0
MCWriteWeight == m1 :> 1 @@ m2 :> 1 @@ m3 :> 1 @@ s1 :> 0 @@ s2 :> 0
=============================================================================
