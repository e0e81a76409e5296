---------------------------- MODULE MCLocalCache ----------------------------
EXTENDS LocalCache, TLC

\* Threads and keys are interchangeable.
Symmetry == Permutations(Threads) \cup Permutations(Keys)

\* States that differ only in what the server keeps for a watch the client has
\* given up are one: checkWatch never asks for that watch again, createWatch
\* gives out a fresh one, and no property looks at it.  Whether the server still
\* knows it matters to a request that is under way with it.
Live == watch_map_ \cap ({watchId} \cup {req[t].watch : t \in {u \in Threads : pc[u] = "sent"}})
View == <<[k \in Keys |-> IF server[k] = NULL THEN NULL
                          ELSE [server[k] EXCEPT !.watches = @ \cap watch_map_ \cap {watchId}]],
          last_id, Live, last_watch_id_, IF watchId = 0 THEN {} ELSE owed[watchId],
          watchId, cacheVars, threadVars, run, wr, hist>>
=============================================================================
