--------------------------- MODULE MCShardEngine ---------------------------
(* One shard: every connection and every goroutine serves it. *)
EXTENDS ShardEngine, TLC

OneShardHome == [a \in Servers |-> 1]
OneShardOf   == [c \in Clients |-> 1]

\* Connections, helpers and pooled objects are interchangeable.
Interchangeable ==
    Permutations(Clients) \cup Permutations(Recoverers) \cup Permutations(Reqs)
=============================================================================
