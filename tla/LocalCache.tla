----------------------------- MODULE LocalCache -----------------------------
(***************************************************************************)
(* The local cache of the Java client for one host: LocalCache, GroupItem  *)
(* and LocalCacheWatch, filled and emptied by client threads that run the  *)
(* operations of Protocol, and emptied by the watch thread.                *)
(*                                                                         *)
(* The server is what the other modules show of it: a store that gives     *)
(* every change a fresh id (CacheMgr) and a watch that hands over the ids  *)
(* of changed items in order and exactly once (WatchChannel).  Each step   *)
(* under a lock of the client is one action; between two of them, and      *)
(* between a reply and its use, every other thread may run.                *)
(***************************************************************************)
EXTENDS Integers, Sequences, FiniteSets, FiniteSetsExt, SequencesExt

CONSTANTS
    Threads, Keys, Vals,
    Ops,                \* operations the threads call
    MaxId,              \* bound on the changes of the store
    MaxWatch,           \* bound on the watches created
    MaxLen,             \* bound on the length of a value
    maxCacheSize, warningCacheSize, maxDropCount,
    NULL

ASSUME LocalCacheAssumption ==
    /\ Threads # {} /\ IsFiniteSet(Threads) /\ IsFiniteSet(Keys)
    /\ MaxId \in Nat /\ MaxWatch \in Nat /\ MaxLen \in Nat \ {0}
    /\ maxCacheSize \in Nat /\ warningCacheSize \in 0..maxCacheSize
    /\ maxDropCount \in Nat
    /\ Ops \subseteq {"get", "set", "append", "drop", "flush"}

Ids == 1..MaxId
WatchIds == 1..MaxWatch
Contents == BoundedSeq(Vals, MaxLen)

\* A CacheItem.  History: the watch the server registered for its request, 0 if
\* none, and whether it was stored after the watch thread had dropped its id.
Items == [key: Keys, id: Ids, val: Contents, watch: 0..MaxWatch, late: BOOLEAN]

ASSUME NullAssumption ==
    NULL \notin Items \cup [id: Ids, val: Contents, watches: SUBSET WatchIds]

\* CacheItem(): the key and the overhead are left out.
itemSize(item) == Len(item.val)

VARIABLES
    server,             \* key -> the linked item, with the watches on it
    last_id, watch_map_, last_watch_id_,
    owed,               \* watch -> ids of changed items not yet fetched
    watchId, activeCacheMap, inactiveCacheMap, cacheIdMap,
    cacheSize, cacheCount,
    pc, req, item,      \* client threads
    run, wr,            \* the watch thread
    told, silent        \* history: ids given to LocalCacheWatch.update, ids
                        \* replaced without a word to the watches

hist == <<told, silent>>
serverVars == <<server, last_id, watch_map_, last_watch_id_, owed>>
cacheVars == <<activeCacheMap, inactiveCacheMap, cacheIdMap, cacheSize, cacheCount>>
threadVars == <<pc, req, item>>
vars == <<serverVars, watchId, cacheVars, threadVars, run, wr, hist>>

TypeOK ==
    /\ server \in [Keys -> [id: Ids, val: Contents, watches: SUBSET WatchIds] \cup {NULL}]
    /\ last_id \in 0..MaxId
    /\ last_watch_id_ \in 0..MaxWatch /\ watch_map_ \subseteq 1..last_watch_id_
    /\ owed \in [WatchIds -> SUBSET Ids]
    /\ watchId \in 0..MaxWatch
    /\ activeCacheMap \in [Keys -> Items \cup {NULL}]
    /\ inactiveCacheMap \in [Keys -> Items \cup {NULL}]
    /\ cacheIdMap \in [Ids -> Items \cup {NULL}]
    /\ cacheSize \in Int /\ cacheCount \in Int
    /\ pc \in [Threads -> {"idle", "sent", "remove", "flush", "store",
                           "recheck", "put"}]
    /\ req \in [Threads -> [op: Ops, key: Keys, val: Vals \cup {NULL}, watch: 0..MaxWatch] \cup {NULL}]
    /\ item \in [Threads -> Items \cup {NULL}]
    /\ run \in {"create", "check", "update"}
    /\ wr \subseteq Ids /\ told \subseteq Ids /\ silent \subseteq Ids

Init ==
    /\ server = [k \in Keys |-> NULL] /\ last_id = 0
    /\ watch_map_ = {} /\ last_watch_id_ = 0 /\ owed = [w \in WatchIds |-> {}]
    /\ watchId = 0
    /\ activeCacheMap = [k \in Keys |-> NULL]
    /\ inactiveCacheMap = [k \in Keys |-> NULL]
    /\ cacheIdMap = [i \in Ids |-> NULL]
    /\ cacheSize = 0 /\ cacheCount = 0
    /\ pc = [t \in Threads |-> "idle"]
    /\ req = [t \in Threads |-> NULL] /\ item = [t \in Threads |-> NULL]
    /\ run = "create" /\ wr = {} /\ told = {} /\ silent = {}
-----------------------------------------------------------------------------
(* GroupItem and LocalCacheWatch: what is done under their locks.          *)

\* The entry of a key, in whichever of the two maps it is.
Entry(k) == IF activeCacheMap[k] # NULL THEN activeCacheMap[k] ELSE inactiveCacheMap[k]
Cached == {k \in Keys : Entry(k) # NULL}
Inactive == {k \in Keys : inactiveCacheMap[k] # NULL}

SumSizes(map, K) == SumFunctionOnSet([k \in K |-> itemSize(map[k])], K)

\* The entries of the keys K leave the maps and the counters.
Take(K) ==
    LET hit == K \cap Cached IN
    /\ activeCacheMap' = [k \in Keys |-> IF k \in K THEN NULL ELSE activeCacheMap[k]]
    /\ inactiveCacheMap' = [k \in Keys |->
          IF k \in K /\ activeCacheMap[k] = NULL THEN NULL ELSE inactiveCacheMap[k]]
    /\ cacheSize' = cacheSize - SumSizes([k \in hit |-> Entry(k)], hit)
    /\ cacheCount' = cacheCount - Cardinality(hit)

Forget(I) == [i \in Ids |-> IF i \in I THEN NULL ELSE cacheIdMap[i]]

Size(e) == IF e = NULL THEN 0 ELSE itemSize(e)
IdOf(e) == IF e = NULL THEN {} ELSE {e.id}

\* Slip: the id of the new entry is listed before that of the old one goes.
Slip_GroupItem_put(k, it) ==
    LET old == IF inactiveCacheMap[k] # NULL THEN inactiveCacheMap[k] ELSE activeCacheMap[k] IN
    /\ inactiveCacheMap' = [inactiveCacheMap EXCEPT ![k] = it]
    /\ activeCacheMap' = [activeCacheMap EXCEPT ![k] =
                             IF inactiveCacheMap[k] = NULL THEN NULL ELSE @]
    /\ cacheSize' = cacheSize - Size(old) + itemSize(it)
    /\ cacheCount' = cacheCount + (IF old = NULL THEN 1 ELSE 0)
    /\ cacheIdMap' = [i \in Ids |-> IF i \in IdOf(old) THEN NULL
                                    ELSE IF i = it.id THEN it ELSE cacheIdMap[i]]

\* GroupItem.put: the new entry replaces the one of its key.
GroupItem_put(k, it) ==
    LET old == IF inactiveCacheMap[k] # NULL THEN inactiveCacheMap[k] ELSE activeCacheMap[k] IN
    /\ inactiveCacheMap' = [inactiveCacheMap EXCEPT ![k] = it]
    /\ activeCacheMap' = [activeCacheMap EXCEPT ![k] =
                             IF inactiveCacheMap[k] = NULL THEN NULL ELSE @]
    /\ cacheSize' = cacheSize - Size(old) + itemSize(it)
    /\ cacheCount' = cacheCount + (IF old = NULL THEN 1 ELSE 0)
    /\ cacheIdMap' = [i \in Ids |-> IF i = it.id THEN it
                                    ELSE IF i \in IdOf(old) THEN NULL ELSE cacheIdMap[i]]

GroupItem_remove(k) ==
    /\ Take({k})
    /\ cacheIdMap' = Forget(IdOf(Entry(k)))

\* GroupItem.clear: the entries go, their ids stay listed in cacheIdMap.
GroupItem_clear ==
    LET active == {k \in Keys : activeCacheMap[k] # NULL} IN
    /\ activeCacheMap' = [k \in Keys |-> NULL]
    /\ inactiveCacheMap' = [k \in Keys |-> NULL]
    /\ cacheSize' = cacheSize - SumSizes(activeCacheMap, active)
                              - SumSizes(inactiveCacheMap, Inactive)
    /\ cacheCount' = cacheCount - Cardinality(active) - Cardinality(Inactive)

\* GroupItem.get behind the lock: an inactive entry becomes active.
GroupItem_get(k) ==
    /\ inactiveCacheMap' = [inactiveCacheMap EXCEPT ![k] = NULL]
    /\ activeCacheMap' = [activeCacheMap EXCEPT ![k] = inactiveCacheMap[k]]
    /\ UNCHANGED <<cacheIdMap, cacheSize, cacheCount>>

\* Slip: an entry that is dropped stays counted.
Slip_dropInactive ==
    LET n == IF Cardinality(Inactive) < maxDropCount
             THEN Cardinality(Inactive) ELSE maxDropCount
    IN \E K \in kSubset(n, Inactive) :
           /\ cacheIdMap' = Forget({inactiveCacheMap[k].id : k \in K})
           /\ inactiveCacheMap' = [k \in Keys |->
                 IF activeCacheMap[k] # NULL THEN activeCacheMap[k]
                 ELSE IF k \in K THEN NULL ELSE inactiveCacheMap[k]]
           /\ activeCacheMap' = [k \in Keys |-> NULL]
           /\ UNCHANGED <<cacheSize, cacheCount>>

\* Up to maxDropCount inactive entries go, in the order of the hash map; the
\* active ones become inactive.
dropInactive ==
    LET n == IF Cardinality(Inactive) < maxDropCount
             THEN Cardinality(Inactive) ELSE maxDropCount
    IN \E K \in kSubset(n, Inactive) :
        LET known == {k \in K : cacheIdMap[inactiveCacheMap[k].id] # NULL}
            gone == {cacheIdMap[inactiveCacheMap[k].id].key : k \in known} \cap Inactive
        IN /\ cacheIdMap' = Forget({inactiveCacheMap[k].id : k \in known})
           /\ inactiveCacheMap' = [k \in Keys |->
                 IF activeCacheMap[k] # NULL THEN activeCacheMap[k]
                 ELSE IF k \in gone THEN NULL ELSE inactiveCacheMap[k]]
           /\ activeCacheMap' = [k \in Keys |-> NULL]
           /\ cacheSize' = cacheSize - SumSizes(inactiveCacheMap, gone)
           /\ cacheCount' = cacheCount - Cardinality(gone)

\* Slip: an entry that has become inactive is not looked for.
Slip_LocalCacheWatch_update(ids) ==
    LET K == {cacheIdMap[i].key : i \in {j \in ids : cacheIdMap[j] # NULL}}
        hit == {k \in K : activeCacheMap[k] # NULL}
    IN
    /\ Take(hit)
    /\ cacheIdMap' = Forget(ids)
    /\ told' = told \cup ids

\* LocalCacheWatch.update: each id is forgotten, and with it the entry of the
\* key it was known under, whatever id that entry has.
LocalCacheWatch_update(ids) ==
    /\ Take({cacheIdMap[i].key : i \in {j \in ids : cacheIdMap[j] # NULL}})
    /\ cacheIdMap' = Forget(ids)
    /\ told' = told \cup ids
-----------------------------------------------------------------------------
(* The server, as CacheMgr and WatchChannel describe it.                   *)

Watchers(k) == IF server[k] = NULL THEN {} ELSE server[k].watches \cap watch_map_

\* The item of the keys K changes or goes: its watchers are owed its id.
notify_watch(K) ==
    owed' = [w \in WatchIds |->
        owed[w] \cup {server[k].id : k \in {j \in K : w \in Watchers(j)}}]

\* is_valid_watch_id, for a request with a watch.  Where it fails the reply is
\* the error WATCH_NOT_FOUND, and nothing is linked or handed out.
Known(w) == w = 0 \/ w \in watch_map_

\* The item of the key k is replaced, or linked where there was none, by a fresh
\* one with the watch w; 0 is no watch.
Link(k, val, w) ==
    /\ last_id < MaxId /\ last_id' = last_id + 1
    /\ notify_watch({k}) /\ UNCHANGED silent
    /\ server' = [server EXCEPT ![k] =
          [id |-> last_id + 1, val |-> val, watches |-> {w} \cap watch_map_]]

Unlink(K) ==
    /\ notify_watch(K)
    /\ server' = [k \in Keys |-> IF k \in K THEN NULL ELSE server[k]]
    /\ UNCHANGED <<last_id, silent>>

\* Cache_Mgr::delta where the number keeps its length: a fresh id on the same
\* item, and nobody is told.
Delta_in_place(k, val) ==
    /\ server[k] # NULL /\ last_id < MaxId /\ last_id' = last_id + 1
    /\ server' = [server EXCEPT ![k].id = last_id + 1, ![k].val = val]
    /\ silent' = silent \cup {server[k].id}
    /\ UNCHANGED owed

\* What the operations without a watch do to an item: a delta in place or not;
\* new flags, which take a new id and tell the watchers, who stay; a new
\* expiration, which is nothing the cache keeps.
delete(k) == Unlink({k})
delta(k) == \E v \in Vals : Delta_in_place(k, <<v>>) \/ Link(k, <<v>>, 0)
updateFlags(k) ==
    /\ last_id < MaxId /\ last_id' = last_id + 1
    /\ notify_watch({k}) /\ UNCHANGED silent
    /\ server' = [server EXCEPT ![k].id = last_id + 1]
updateExpiration == UNCHANGED <<server, last_id, owed, silent>>

\* A change made by another client, or the expiry of the item.
remote(k) ==
    /\ \/ \E v \in Vals : Link(k, <<v>>, 0)
       \/ server[k] # NULL /\ (delete(k) \/ delta(k) \/ updateFlags(k))
    /\ UNCHANGED <<watch_map_, last_watch_id_, watchId, cacheVars, threadVars, run, wr, told>>

\* The watch is swept after its client has been silent for too long.  Its id
\* goes from the items too: notify_watch finds no watch for it and skips it.
expire_watchs(w) ==
    /\ w \in watch_map_
    /\ watch_map_' = watch_map_ \ {w}
    /\ owed' = [owed EXCEPT ![w] = {}]
    /\ server' = [k \in Keys |-> IF server[k] = NULL THEN NULL
                                 ELSE [server[k] EXCEPT !.watches = @ \ {w}]]
    /\ UNCHANGED <<last_id, last_watch_id_, watchId, cacheVars, threadVars, run, wr,
                   hist>>
-----------------------------------------------------------------------------
(* The operations of Protocol on a client with local cache.                *)

\* get: an inactive entry becomes active.  (A hit among the active ones, read
\* without a lock, changes nothing.)
get_hit(k) ==
    /\ "get" \in Ops
    /\ activeCacheMap[k] = NULL /\ inactiveCacheMap[k] # NULL
    /\ GroupItem_get(k)
    /\ UNCHANGED <<serverVars, watchId, threadVars, run, wr, hist>>

\* get: no entry in either map.  The server is asked under the watch of this
\* moment.  The maps are read one after the other: an entry made active in
\* between is missed too, as it would be by a get that came before its put.
get_miss(t, k) ==
    /\ pc[t] = "idle" /\ "get" \in Ops
    /\ Entry(k) = NULL
    /\ pc' = [pc EXCEPT ![t] = "sent"]
    /\ req' = [req EXCEPT ![t] = [op |-> "get", key |-> k, val |-> NULL, watch |-> watchId]]
    /\ UNCHANGED <<serverVars, watchId, cacheVars, item, run, wr, hist>>

\* update up to the flush of the socket.
request(t, op, k, v) ==
    /\ pc[t] = "idle" /\ op \in Ops \cap {"set", "append"}
    /\ pc' = [pc EXCEPT ![t] = "sent"]
    /\ req' = [req EXCEPT ![t] = [op |-> op, key |-> k, val |-> v, watch |-> watchId]]
    /\ UNCHANGED <<serverVars, watchId, cacheVars, item, run, wr, hist>>

Goto(t, l) == pc' = [pc EXCEPT ![t] = l]
Done(t) == Goto(t, "idle") /\ req' = [req EXCEPT ![t] = NULL] /\ item' = [item EXCEPT ![t] = NULL]

\* The server answers a get, if it knows the watch or has no such item.  The
\* reply is turned into a CacheItem; it is stored if the request carried a watch.
serve_get(t) ==
    LET r == req[t] IN
    /\ pc[t] = "sent" /\ r.op = "get"
    /\ \/ server[r.key] = NULL /\ Done(t) /\ UNCHANGED server
       \/ /\ server[r.key] # NULL /\ Known(r.watch)
          /\ server' = [server EXCEPT ![r.key].watches = @ \cup ({r.watch} \cap watch_map_)]
          /\ \/ r.watch = 0 /\ Done(t)
             \/ /\ r.watch # 0 /\ Goto(t, "store") /\ UNCHANGED req
                /\ item' = [item EXCEPT ![t] =
                      [key |-> r.key, id |-> server[r.key].id, val |-> server[r.key].val,
                       watch |-> r.watch, late |-> FALSE]]
    /\ UNCHANGED <<last_id, watch_map_, last_watch_id_, owed, watchId, cacheVars, run, wr,
                   hist>>

\* The watch an update leaves on the item it links.  An append and a prepend add
\* it to the item of the request, which is not the one they link.
Registered(r) == IF r.op = "append" THEN 0 ELSE r.watch

\* The server answers an update, if it knows the watch.  What will be stored, if
\* the request had a watch, is the argument of the call, which is not the value
\* of the item after an append or a prepend.
serve_update(t) ==
    LET r == req[t]
        old == server[r.key]
    IN
    /\ pc[t] = "sent" /\ r.op \in {"set", "append"} /\ Known(r.watch)
    /\ \/ r.op = "set" /\ Link(r.key, <<r.val>>, Registered(r))
       \/ /\ r.op = "append" /\ old # NULL /\ Len(old.val) < MaxLen
          /\ Link(r.key, Append(old.val, r.val), Registered(r))
    /\ Goto(t, "remove") /\ UNCHANGED req
    /\ item' = [item EXCEPT ![t] = IF r.watch = 0 THEN NULL ELSE
          [key |-> r.key, id |-> last_id', val |-> <<r.val>>, watch |-> Registered(r), late |-> FALSE]]
    /\ UNCHANGED <<watch_map_, last_watch_id_, watchId, cacheVars, run, wr, told>>

\* One of them called by a thread; sending the request is part of the step.
serve_drop(t, k) ==
    /\ pc[t] = "idle" /\ "drop" \in Ops /\ server[k] # NULL
    /\ delete(k) \/ delta(k) \/ updateFlags(k) \/ updateExpiration
    /\ Goto(t, "remove")
    /\ req' = [req EXCEPT ![t] = [op |-> "drop", key |-> k, val |-> NULL, watch |-> 0]]
    /\ UNCHANGED <<watch_map_, last_watch_id_, watchId, cacheVars, item, run, wr, told>>

\* flush of the group.
serve_flush(t) ==
    /\ pc[t] = "idle" /\ "flush" \in Ops
    /\ Unlink(Keys)
    /\ Goto(t, "flush")
    /\ UNCHANGED <<watch_map_, last_watch_id_, watchId, cacheVars, req, item, run, wr, told>>

\* An error reply, WATCH_NOT_FOUND among them, or an exception before or after the server has served the
\* request: the cache is left alone.
fails(t) ==
    /\ pc[t] \in {"sent", "remove", "flush"} \/ (pc[t] = "store" /\ req[t].op = "get")
    /\ Done(t)
    /\ UNCHANGED <<serverVars, watchId, cacheVars, run, wr, hist>>

\* localCache.remove, then on to put if the update carried a watch.
remove(t) ==
    /\ pc[t] = "remove"
    /\ GroupItem_remove(req[t].key)
    /\ IF item[t] = NULL THEN Done(t) ELSE Goto(t, "store") /\ UNCHANGED <<req, item>>
    /\ UNCHANGED <<serverVars, watchId, run, wr, hist>>

flush(t) ==
    /\ pc[t] = "flush"
    /\ GroupItem_clear /\ UNCHANGED cacheIdMap
    /\ Done(t)
    /\ UNCHANGED <<serverVars, watchId, run, wr, hist>>

\* LocalCache.put: near the limit it makes room and looks again.
store(t) ==
    /\ pc[t] = "store"
    /\ \/ cacheSize <= warningCacheSize /\ Goto(t, "put") /\ UNCHANGED cacheVars
       \/ cacheSize > warningCacheSize /\ dropInactive /\ Goto(t, "recheck")
    /\ UNCHANGED <<serverVars, watchId, req, item, run, wr, hist>>

recheck(t) ==
    /\ pc[t] = "recheck"
    /\ \/ cacheSize + itemSize(item[t]) < maxCacheSize /\ Goto(t, "put") /\ UNCHANGED <<req, item>>
       \/ cacheSize + itemSize(item[t]) >= maxCacheSize /\ Done(t)
    /\ UNCHANGED <<serverVars, watchId, cacheVars, run, wr, hist>>

put(t) ==
    /\ pc[t] = "put"
    /\ GroupItem_put(item[t].key, [item[t] EXCEPT !.late = item[t].id \in told])
    /\ Done(t)
    /\ UNCHANGED <<serverVars, watchId, run, wr, hist>>
-----------------------------------------------------------------------------
(* LocalCacheWatch.run.                                                    *)

\* createWatch, answered.
createWatch ==
    /\ run = "create" /\ last_watch_id_ < MaxWatch
    /\ last_watch_id_' = last_watch_id_ + 1
    /\ watch_map_' = watch_map_ \cup {last_watch_id_ + 1}
    /\ watchId' = last_watch_id_ + 1 /\ run' = "check"
    /\ UNCHANGED <<server, last_id, owed, cacheVars, threadVars, wr, hist>>

\* checkWatch brings what is owed.
checkWatch ==
    /\ run = "check" /\ watchId \in watch_map_ /\ owed[watchId] # {}
    /\ wr' = owed[watchId] /\ owed' = [owed EXCEPT ![watchId] = {}]
    /\ run' = "update"
    /\ UNCHANGED <<server, last_id, watch_map_, last_watch_id_, watchId, cacheVars,
                   threadVars, hist>>

update ==
    /\ run = "update"
    /\ LocalCacheWatch_update(wr)
    /\ wr' = {} /\ run' = "check"
    /\ UNCHANGED <<serverVars, watchId, threadVars, silent>>

\* checkWatch fails twice, because the server does not know the watch or cannot
\* be reached: everything goes.
clear ==
    /\ run = "check" /\ run' = "create"
    /\ watchId' = 0
    /\ GroupItem_clear
    /\ cacheIdMap' = [i \in Ids |-> NULL]
    /\ UNCHANGED <<serverVars, threadVars, wr, hist>>
-----------------------------------------------------------------------------
Next ==
    \/ \E k \in Keys : remote(k) \/ get_hit(k)
    \/ \E w \in WatchIds : expire_watchs(w)
    \/ \E t \in Threads :
          \/ \E k \in Keys : get_miss(t, k) \/ serve_drop(t, k)
          \/ \E op \in Ops, k \in Keys, v \in Vals : request(t, op, k, v)
          \/ serve_get(t) \/ serve_update(t) \/ serve_flush(t) \/ fails(t)
          \/ remove(t) \/ flush(t) \/ store(t) \/ recheck(t) \/ put(t)
    \/ createWatch \/ checkWatch \/ update \/ clear

Spec == Init /\ [][Next]_vars
-----------------------------------------------------------------------------
\* Every entry can be found by its id, so that LocalCacheWatch.update can drop
\* it; no key is in both maps.  put, remove, dropInactive, update, flush and
\* the move of get keep three maps in step.
Findable ==
    \A k \in Keys :
        /\ activeCacheMap[k] = NULL \/ inactiveCacheMap[k] = NULL
        /\ Entry(k) # NULL => Entry(k).key = k /\ cacheIdMap[Entry(k).id] = Entry(k)

\* cacheSize and cacheCount are those of the entries: what is dropped, replaced,
\* flushed or cleared is uncounted exactly once.
SizeExact ==
    /\ cacheCount = Cardinality(Cached)
    /\ cacheSize = SumSizes([k \in Cached |-> Entry(k)], Cached)

\* The ids on their way to the cache.
Coming == (IF watchId = 0 THEN {} ELSE owed[watchId]) \cup wr

Stale(k) ==
    /\ Entry(k) # NULL
    /\ server[k] = NULL \/ server[k].id # Entry(k).id
    /\ Entry(k).id \notin Coming

\* An entry that is neither the item of the server nor on its way out is there
\* only because its get or update was overtaken, by the watch thread dropping
\* its id or by clear() and a new watch (Protocol.get and update store after the
\* reply, whatever happened since); or because it was stored after an append or
\* a prepend, which leave the linked item without a watch; or because the server
\* replaced the item in place.  The watch of every other entry is registered,
\* and no drop misses it.
StaleOnlyIfOvertaken ==
    watchId \in watch_map_ =>
        \A k \in Keys : Stale(k) =>
            \/ Entry(k).late \/ Entry(k).watch \notin {0, watchId}
            \/ Entry(k).watch = 0
            \/ Entry(k).id \in silent
=============================================================================
