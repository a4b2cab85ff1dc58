---------------------------- MODULE MCSharedMux ----------------------------
(* SharedMux with three worker groups and two shards in turn for each.     *)
EXTENDS SharedMux, TLC
CONSTANTS g1, g2, g3, a, b, c, d, e, f
MCGroups == {g1, g2, g3}
MCShards == {a, b, c, d, e, f}
MCGroupOf == a :> g1 @@ b :> g1 @@ c :> g2 @@ d :> g2 @@ e :> g3 @@ f :> g3
Interchangeable ==
    Permutations({a, b}) \union Permutations({c, d}) \union Permutations({e, f})
============================================================================
