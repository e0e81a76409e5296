-------------------------- MODULE LocalCacheProofs --------------------------
(***************************************************************************)
(* Proofs about the local cache of the Java client, for any number of      *)
(* threads, keys, changes and watches: the maps stay in step, and an entry *)
(* is stale only if its request was overtaken, was an append, or the       *)
(* server was silent.                                                      *)
(***************************************************************************)
EXTENDS LocalCache, DataLemmas

Requests == [op: Ops, key: Keys, val: Vals \cup {NULL}, watch: 0..MaxWatch]
Linked == [id: Ids, val: Contents, watches: SUBSET WatchIds]

\* The types of everything but the two counters, which are sums over the maps.
CacheTypes ==
  /\ activeCacheMap \in [Keys -> Items \cup {NULL}]
  /\ inactiveCacheMap \in [Keys -> Items \cup {NULL}]
  /\ cacheIdMap \in [Ids -> Items \cup {NULL}]

ServerTypes ==
  /\ server \in [Keys -> Linked \cup {NULL}]
  /\ last_id \in 0..MaxId
  /\ last_watch_id_ \in 0..MaxWatch /\ watch_map_ \subseteq 1..last_watch_id_
  /\ owed \in [WatchIds -> SUBSET Ids]
  /\ silent \subseteq Ids

\* What a thread has in hand where the code uses it.
ThreadTypes ==
  /\ pc \in [Threads -> {"idle", "sent", "remove", "flush", "store", "recheck", "put"}]
  /\ req \in [Threads -> Requests \cup {NULL}]
  /\ item \in [Threads -> Items \cup {NULL}]
  /\ \A t \in Threads :
        /\ pc[t] \in {"sent", "remove"} => /\ req[t] \in Requests
                                           /\ req[t].op \in {"set", "append"} => req[t].val \in Vals
                                           /\ req[t].watch <= last_watch_id_
        /\ pc[t] \in {"store", "recheck", "put"} => item[t] \in Items

WatchTypes ==
  /\ watchId \in 0..MaxWatch /\ watchId <= last_watch_id_
  /\ run \in {"create", "check", "update"}
  /\ wr \subseteq Ids /\ told \subseteq Ids
  /\ run # "update" => wr = {}

\* An id is given to one key for good: o[i] is the key of the id i, wherever
\* the id is met.
OwnedBy(o) ==
  /\ \A k \in Keys : server[k] # NULL => o[server[k].id] = k /\ server[k].id <= last_id
  /\ \A t \in Threads : item[t] # NULL => o[item[t].id] = item[t].key /\ item[t].id <= last_id
  /\ \A i \in Ids : cacheIdMap[i] # NULL =>
        cacheIdMap[i].id = i /\ o[i] = cacheIdMap[i].key /\ i <= last_id
Owned == \E o \in [Ids -> Keys \cup {NULL}] : OwnedBy(o)

\* The watch w of an item with the key k and the id i hears of its change:
\* the item is linked and watched, or the news is on its way or has arrived;
\* unless the change was a silent one.
Covered(k, i, w) ==
  /\ w <= last_watch_id_
  /\ w \in watch_map_ =>
        \/ i \in silent \/ i \in told \/ i \in owed[w]
        \/ w = watchId /\ i \in wr
        \/ server[k] # NULL /\ server[k].id = i /\ w \in server[k].watches

Watched ==
  /\ \A t \in Threads : item[t] # NULL => Covered(item[t].key, item[t].id, item[t].watch)
  /\ \A k \in Keys : Entry(k) # NULL => Covered(k, Entry(k).id, Entry(k).watch)

\* The watch thread has dropped every entry it was told of in time.
Dropped == \A k \in Keys : (Entry(k) # NULL /\ ~Entry(k).late) => Entry(k).id \notin told

CacheInv ==
  /\ CacheTypes /\ ServerTypes /\ ThreadTypes /\ WatchTypes
  /\ Findable /\ Owned /\ Watched /\ Dropped
-----------------------------------------------------------------------------
(* What a step may do, as far as the invariant is concerned.               *)

\* At most the item of k0 is given the next id; what the items that are
\* watched become is told to their watches.
ServerMoves(k0) ==
  /\ last_id <= last_id'
  /\ \A k \in Keys : server'[k] # NULL =>
        \/ server[k] # NULL /\ server'[k].id = server[k].id
        \/ k = k0 /\ last_id' = last_id + 1 /\ server'[k].id = last_id + 1

CoverMoves ==
  \A k \in Keys, i \in Ids, w \in 0..MaxWatch : Covered(k, i, w) => Covered(k, i, w)'

\* What a thread comes to hold is the linked item of its key.
ItemMoves ==
  \A t \in Threads :
     \/ item'[t] = NULL \/ item'[t] = item[t]
     \/ \E k \in Keys, i \in Ids, w \in 0..MaxWatch :
           /\ item'[t].key = k /\ item'[t].id = i /\ item'[t].watch = w
           /\ server'[k] # NULL /\ server'[k].id = i
           /\ Covered(k, i, w)'

\* An entry stays, goes, or is what a thread had in hand; so is what an id is
\* listed with.  No entry stays that was told of.
CacheMoves ==
  /\ CacheTypes' /\ Findable'
  /\ \A k \in Keys :
        \/ Entry(k)' = NULL
        \/ Entry(k)' = Entry(k) /\ Entry(k).id \notin told' \ told
        \/ \E t \in Threads :
              /\ item[t] # NULL /\ item[t].key = k /\ told' = told
              /\ Entry(k)'.id = item[t].id /\ Entry(k)'.watch = item[t].watch
              /\ Entry(k)'.late = (item[t].id \in told)
  /\ \A i \in Ids :
        \/ cacheIdMap'[i] = NULL \/ cacheIdMap'[i] = cacheIdMap[i]
        \/ \E t \in Threads :
              /\ item[t] # NULL /\ item[t].id = i
              /\ cacheIdMap'[i].id = i /\ cacheIdMap'[i].key = item[t].key

LEMMA OwnedStep ==
  ASSUME CacheInv, CacheTypes', ServerTypes', NEW k0, ServerMoves(k0), ItemMoves, CacheMoves,
         item' \in [Threads -> Items \cup {NULL}]
  PROVE  Owned'
<1>1. PICK o \in [Ids -> Keys \cup {NULL}] : OwnedBy(o)
  BY DEF CacheInv, Owned
<1>2. /\ last_id \in Nat /\ last_id' \in Nat /\ last_id <= last_id' /\ last_id' <= MaxId /\ MaxId \in Nat
  BY LocalCacheAssumption DEF CacheInv, ServerTypes, ServerMoves
<1>3. PICK n \in [Ids -> Keys \cup {NULL}] :
         /\ \A i \in Ids : i <= last_id => n[i] = o[i]
         /\ \A k \in Keys : server'[k] # NULL => n[server'[k].id] = k /\ server'[k].id <= last_id'
  <2>0. \A k \in Keys : server[k] # NULL => server[k].id \in Ids /\ o[server[k].id] = k /\ server[k].id <= last_id
    BY <1>1 DEF OwnedBy, CacheInv, ServerTypes, Linked
  <2>1. CASE k0 \in Keys /\ last_id' = last_id + 1
    <3> DEFINE n == [i \in Ids |-> IF i = last_id + 1 THEN k0 ELSE o[i]]
    <3>1. n \in [Ids -> Keys \cup {NULL}] /\ \A i \in Ids : i <= last_id => n[i] = o[i]
      BY <1>2, <2>1
    <3>2. ASSUME NEW k \in Keys, server'[k] # NULL
          PROVE  n[server'[k].id] = k /\ server'[k].id <= last_id'
      <4>1. CASE server[k] # NULL /\ server'[k].id = server[k].id
        BY <1>2, <2>0, <2>1, <4>1 DEF Ids
      <4>2. CASE k = k0 /\ server'[k].id = last_id + 1
        <5>1. last_id + 1 \in Ids
          BY <1>2, <2>1 DEF Ids
        <5>. QED
          BY <1>2, <2>1, <4>2, <5>1
      <4>. QED
        BY <3>2, <4>1, <4>2 DEF ServerMoves
    <3>. QED
      BY <3>1, <3>2
  <2>2. CASE ~(k0 \in Keys /\ last_id' = last_id + 1)
    <3>1. \A k \in Keys : server'[k] # NULL => server[k] # NULL /\ server'[k].id = server[k].id
      BY <2>2 DEF ServerMoves
    <3>. QED
      BY <1>2, <2>0, <3>1 DEF Ids
  <2>. QED
    BY <2>1, <2>2
<1>4. ASSUME NEW t \in Threads, item'[t] # NULL
      PROVE  n[item'[t].id] = item'[t].key /\ item'[t].id <= last_id'
  <2>0. item'[t] \in Items
    BY <1>4
  <2>1. CASE item'[t] = item[t]
    BY <1>1, <1>2, <1>3, <1>4, <2>0, <2>1 DEF OwnedBy, Items, Ids
  <2>2. CASE item'[t] # item[t]
    BY <1>3, <1>4, <2>2 DEF ItemMoves
  <2>. QED
    BY <2>1, <2>2
<1>5. ASSUME NEW i \in Ids, cacheIdMap'[i] # NULL
      PROVE  cacheIdMap'[i].id = i /\ n[i] = cacheIdMap'[i].key /\ i <= last_id'
  <2>0. i \in Nat
    BY DEF Ids
  <2>1. CASE cacheIdMap'[i] = cacheIdMap[i]
    BY <1>1, <1>2, <1>3, <1>5, <2>0, <2>1 DEF OwnedBy
  <2>2. CASE cacheIdMap'[i] # cacheIdMap[i]
    <3>1. PICK t \in Threads : /\ item[t] # NULL /\ item[t].id = i
                               /\ cacheIdMap'[i].id = i /\ cacheIdMap'[i].key = item[t].key
      BY <1>5, <2>2 DEF CacheMoves
    <3>2. o[i] = item[t].key /\ i <= last_id
      BY <1>1, <3>1 DEF OwnedBy
    <3>. QED
      BY <1>2, <1>3, <2>0, <3>1, <3>2
  <2>. QED
    BY <2>1, <2>2
<1>6. OwnedBy(n)'
  BY <1>3, <1>4, <1>5 DEF OwnedBy
<1>. QED
  BY <1>6 DEF Owned

LEMMA WatchedStep ==
  ASSUME CacheInv, CoverMoves, ItemMoves, CacheMoves
  PROVE  Watched'
<1>0. /\ \A t \in Threads : item[t] # NULL => item[t] \in Items /\ Covered(item[t].key, item[t].id, item[t].watch)
      /\ \A k \in Keys : Entry(k) # NULL => Entry(k) \in Items /\ Covered(k, Entry(k).id, Entry(k).watch)
  BY DEF CacheInv, Watched, ThreadTypes, CacheTypes, Entry
<1>1. ASSUME NEW t \in Threads, item[t] # NULL
      PROVE  \E k \in Keys, i \in Ids, w \in 0..MaxWatch :
                k = item[t].key /\ i = item[t].id /\ w = item[t].watch /\ Covered(k, i, w)'
  <2>1. PICK k \in Keys, i \in Ids, w \in 0..MaxWatch : k = item[t].key /\ i = item[t].id /\ w = item[t].watch
    BY <1>0, <1>1 DEF Items
  <2>2. Covered(k, i, w)
    BY <1>0, <1>1, <2>1
  <2>3. Covered(k, i, w)'
    BY <2>2 DEF CoverMoves
  <2>. QED
    BY <2>1, <2>3
<1>2. ASSUME NEW t \in Threads, item'[t] # NULL
      PROVE  Covered(item[t].key, item[t].id, item[t].watch)'
  <2>1. PICK k \in Keys, i \in Ids, w \in 0..MaxWatch :
           item'[t].key = k /\ item'[t].id = i /\ item'[t].watch = w /\ Covered(k, i, w)'
    BY <1>1, <1>2 DEF ItemMoves
  <2>. QED
    BY <2>1 DEF Covered
<1>3. ASSUME NEW k \in Keys, Entry(k)' # NULL
      PROVE  Covered(k, Entry(k).id, Entry(k).watch)'
  <2>1. CASE Entry(k)' = Entry(k)
    <3>1. PICK i \in Ids, w \in 0..MaxWatch : i = Entry(k).id /\ w = Entry(k).watch
      BY <1>0, <1>3, <2>1 DEF Items
    <3>2. Covered(k, i, w)
      BY <1>0, <1>3, <2>1, <3>1
    <3>3. Covered(k, i, w)'
      BY <3>2 DEF CoverMoves
    <3>. QED
      BY <2>1, <3>1, <3>3 DEF Covered
  <2>2. CASE Entry(k)' # Entry(k)
    <3>1. PICK t \in Threads : /\ item[t] # NULL /\ item[t].key = k
                               /\ Entry(k)'.id = item[t].id /\ Entry(k)'.watch = item[t].watch
      BY <1>3, <2>2 DEF CacheMoves
    <3>2. PICK i \in Ids, w \in 0..MaxWatch : i = item[t].id /\ w = item[t].watch /\ Covered(k, i, w)'
      BY <1>1, <3>1
    <3>. QED
      BY <3>1, <3>2 DEF Covered
  <2>. QED
    BY <2>1, <2>2
<1>. QED
  BY <1>2, <1>3 DEF Watched

LEMMA DroppedStep ==
  ASSUME CacheInv, CacheMoves
  PROVE  Dropped'
<1>1. ASSUME NEW k \in Keys, Entry(k)' # NULL, ~Entry(k)'.late
      PROVE  Entry(k)'.id \notin told'
  <2>1. CASE Entry(k)' = Entry(k) /\ Entry(k).id \notin told' \ told
    BY <1>1, <2>1 DEF CacheInv, Dropped
  <2>2. CASE ~(Entry(k)' = Entry(k) /\ Entry(k).id \notin told' \ told)
    BY <1>1, <2>2 DEF CacheMoves
  <2>. QED
    BY <2>1, <2>2
<1>. QED
  BY <1>1 DEF Dropped

\* The moves together keep the invariant.
LEMMA MovesKeepInv ==
  ASSUME CacheInv, ServerTypes', ThreadTypes', WatchTypes', NEW k0, ServerMoves(k0),
         CoverMoves, ItemMoves, CacheMoves
  PROVE  CacheInv'
<1>1. CacheTypes' /\ Findable' /\ item' \in [Threads -> Items \cup {NULL}]
  BY DEF CacheMoves, ThreadTypes
<1>2. Owned'
  BY <1>1, OwnedStep
<1>. QED
  BY <1>1, <1>2, WatchedStep, DroppedStep DEF CacheInv
-----------------------------------------------------------------------------
(* The server.                                                             *)

LEMMA ContentsGrow ==
  /\ \A v \in Vals : <<v>> \in Contents
  /\ \A c \in Contents, v \in Vals : Len(c) < MaxLen => Append(c, v) \in Contents
<1>0. MaxLen \in Nat /\ MaxLen >= 1
  BY LocalCacheAssumption
<1>1. \A c : c \in Contents <=> \E m \in 0..MaxLen : c \in [1..m -> Vals]
  BY DEF Contents, BoundedSeq, SeqOf
<1>2. ASSUME NEW v \in Vals PROVE <<v>> \in Contents
  <2>1. <<v>> \in [1..1 -> Vals] /\ 1 \in 0..MaxLen
    BY <1>0
  <2>. QED
    BY <1>1, <2>1
<1>3. ASSUME NEW c \in Contents, NEW v \in Vals, Len(c) < MaxLen
      PROVE  Append(c, v) \in Contents
  <2>1. PICK m \in 0..MaxLen : c \in [1..m -> Vals]
    BY <1>1
  <2>2. c \in Seq(Vals) /\ Len(c) = m /\ m + 1 \in 0..MaxLen
    BY <1>0, <1>3, <2>1
  <2>3. Append(c, v) \in [1..(m + 1) -> Vals]
    <3>1. Append(c, v) \in Seq(Vals) /\ Len(Append(c, v)) = m + 1
      BY <2>2
    <3>2. PICK s \in Seq(Vals) : s = Append(c, v)
      BY <3>1
    <3>3. s \in [1..Len(s) -> Vals]
      BY LenProperties
    <3>. QED
      BY <3>1, <3>2, <3>3
  <2>. QED
    BY <1>1, <2>2, <2>3
<1>. QED
  BY <1>2, <1>3

\* The watches of what changes hear of it, unless it is silent.
Heard ==
  /\ silent \subseteq silent' /\ \A w \in WatchIds : owed[w] \subseteq owed'[w]
  /\ \A k \in Keys, w \in watch_map_ : (server[k] # NULL /\ w \in server[k].watches) =>
        \/ server[k].id \in silent' \/ server[k].id \in owed'[w]
        \/ server'[k] # NULL /\ server'[k].id = server[k].id /\ w \in server'[k].watches

StoreTypes ==
  /\ server \in [Keys -> Linked \cup {NULL}] /\ last_id \in 0..MaxId
  /\ owed \in [WatchIds -> SUBSET Ids] /\ silent \subseteq Ids

LEMMA HeardCovers ==
  ASSUME CacheInv, Heard, UNCHANGED <<watch_map_, last_watch_id_, watchId, wr, told>>
  PROVE  CoverMoves
<1>1. SUFFICES ASSUME NEW k \in Keys, NEW i \in Ids, NEW w \in 0..MaxWatch, Covered(k, i, w), w \in watch_map_
               PROVE  \/ i \in silent' \/ i \in told' \/ i \in owed'[w]
                      \/ w = watchId' /\ i \in wr'
                      \/ server'[k] # NULL /\ server'[k].id = i /\ w \in server'[k].watches
  BY DEF CoverMoves, Covered
<1>2. \/ i \in silent \/ i \in told \/ i \in owed[w]
      \/ w = watchId /\ i \in wr
      \/ server[k] # NULL /\ server[k].id = i /\ w \in server[k].watches
  BY <1>1 DEF Covered
<1>3. w \in WatchIds
  BY <1>1, LocalCacheAssumption DEF CacheInv, ServerTypes, WatchIds
<1>. QED
  BY <1>1, <1>2, <1>3 DEF Heard

LEMMA Notified ==
  ASSUME ServerTypes, NEW K \in SUBSET Keys, notify_watch(K)
  PROVE  /\ owed' \in [WatchIds -> SUBSET Ids]
         /\ \A w \in WatchIds : owed[w] \subseteq owed'[w]
         /\ \A k \in K, w \in watch_map_ :
               (server[k] # NULL /\ w \in server[k].watches) => server[k].id \in owed'[w]
<1>0. watch_map_ \subseteq WatchIds
  BY LocalCacheAssumption DEF ServerTypes, WatchIds
<1>1. \A k \in Keys : server[k] # NULL => server[k].id \in Ids
  BY DEF ServerTypes, Linked
<1>2. \A w \in WatchIds : owed'[w] = owed[w] \cup {server[k].id : k \in {j \in K : w \in Watchers(j)}}
  BY DEF notify_watch
<1>3. \A w \in WatchIds : \A j \in K : w \in Watchers(j) <=> server[j] # NULL /\ w \in server[j].watches /\ w \in watch_map_
  BY DEF Watchers
<1>4. owed' = [w \in WatchIds |-> owed'[w]]
  BY DEF notify_watch
<1>5. \A w \in WatchIds : owed'[w] \in SUBSET Ids
  BY <1>1, <1>2, <1>3 DEF ServerTypes
<1>. QED
  BY <1>0, <1>2, <1>3, <1>4, <1>5

LEMMA LinkMoves ==
  ASSUME ServerTypes, NEW k \in Keys, NEW val \in Contents, NEW w, Link(k, val, w)
  PROVE  StoreTypes' /\ ServerMoves(k) /\ Heard /\ last_id' = last_id + 1 /\ last_id' \in Ids
         /\ server'[k] = [id |-> last_id', val |-> val, watches |-> {w} \cap watch_map_]
<1>0. watch_map_ \subseteq WatchIds
  BY LocalCacheAssumption DEF ServerTypes, WatchIds
<1>1. /\ last_id < MaxId /\ last_id' = last_id + 1 /\ notify_watch({k}) /\ silent' = silent
      /\ server' = [server EXCEPT ![k] = [id |-> last_id + 1, val |-> val, watches |-> {w} \cap watch_map_]]
  BY DEF Link
<1>2. last_id \in Nat /\ MaxId \in Nat /\ last_id' \in 0..MaxId /\ last_id' \in Ids /\ last_id <= last_id'
  BY <1>1, LocalCacheAssumption DEF ServerTypes, Ids
<1>3. /\ owed' \in [WatchIds -> SUBSET Ids]
      /\ \A u \in WatchIds : owed[u] \subseteq owed'[u]
      /\ \A u \in watch_map_ : (server[k] # NULL /\ u \in server[k].watches) => server[k].id \in owed'[u]
  BY <1>1, Notified
<1>4. server'[k] = [id |-> last_id', val |-> val, watches |-> {w} \cap watch_map_] /\ server'[k] \in Linked
  BY <1>0, <1>1, <1>2 DEF ServerTypes, Linked
<1>5. \A j \in Keys : j # k => server'[j] = server[j]
  BY <1>1 DEF ServerTypes
<1>6. StoreTypes'
  BY <1>1, <1>2, <1>3, <1>4 DEF StoreTypes, ServerTypes
<1>7. ServerMoves(k)
  BY <1>1, <1>2, <1>4, <1>5 DEF ServerMoves
<1>8. Heard
  BY <1>1, <1>3, <1>5 DEF Heard
<1>. QED
  BY <1>1, <1>2, <1>4, <1>6, <1>7, <1>8

LEMMA UnlinkMoves ==
  ASSUME ServerTypes, NEW K \in SUBSET Keys, Unlink(K), NEW k0
  PROVE  StoreTypes' /\ ServerMoves(k0) /\ Heard
<1>1. /\ notify_watch(K) /\ last_id' = last_id /\ silent' = silent
      /\ server' = [k \in Keys |-> IF k \in K THEN NULL ELSE server[k]]
  BY DEF Unlink
<1>2. /\ owed' \in [WatchIds -> SUBSET Ids]
      /\ \A u \in WatchIds : owed[u] \subseteq owed'[u]
      /\ \A k \in K, u \in watch_map_ : (server[k] # NULL /\ u \in server[k].watches) => server[k].id \in owed'[u]
  BY <1>1, Notified
<1>3. StoreTypes'
  BY <1>1, <1>2 DEF StoreTypes, ServerTypes
<1>4. ServerMoves(k0)
  BY <1>1 DEF ServerMoves, ServerTypes
<1>5. Heard
  BY <1>1, <1>2 DEF Heard
<1>. QED
  BY <1>3, <1>4, <1>5

LEMMA DeltaMoves ==
  ASSUME ServerTypes, NEW k \in Keys, NEW val \in Contents, Delta_in_place(k, val)
  PROVE  StoreTypes' /\ ServerMoves(k) /\ Heard
<1>1. /\ server[k] # NULL /\ last_id < MaxId /\ last_id' = last_id + 1
      /\ server' = [server EXCEPT ![k].id = last_id + 1, ![k].val = val]
      /\ silent' = silent \cup {server[k].id} /\ owed' = owed
  BY DEF Delta_in_place
<1>2. last_id \in Nat /\ MaxId \in Nat /\ last_id' \in 0..MaxId /\ last_id' \in Ids /\ last_id <= last_id'
  BY <1>1, LocalCacheAssumption DEF ServerTypes, Ids
<1>3. server[k] \in Linked
  BY <1>1 DEF ServerTypes
<1>4. server'[k] = [server[k] EXCEPT !.id = last_id + 1, !.val = val]
  BY <1>1 DEF ServerTypes
<1>5. server'[k] \in Linked /\ server'[k].id = last_id + 1
  BY <1>1, <1>2, <1>3, <1>4 DEF Linked
<1>6. \A j \in Keys : j # k => server'[j] = server[j]
  BY <1>1 DEF ServerTypes
<1>7. server' \in [Keys -> Linked \cup {NULL}]
  BY <1>1, <1>5, <1>6 DEF ServerTypes
<1>8. silent' \subseteq Ids
  BY <1>1, <1>3 DEF ServerTypes, Linked
<1>. QED
  BY <1>1, <1>2, <1>5, <1>6, <1>7, <1>8 DEF StoreTypes, ServerTypes, ServerMoves, Heard

LEMMA FlagsMoves ==
  ASSUME ServerTypes, NEW k \in Keys, server[k] # NULL, updateFlags(k)
  PROVE  StoreTypes' /\ ServerMoves(k) /\ Heard
<1>1. /\ last_id < MaxId /\ last_id' = last_id + 1 /\ notify_watch({k}) /\ silent' = silent
      /\ server' = [server EXCEPT ![k].id = last_id + 1]
  BY DEF updateFlags
<1>2. last_id \in Nat /\ MaxId \in Nat /\ last_id' \in 0..MaxId /\ last_id' \in Ids /\ last_id <= last_id'
  BY <1>1, LocalCacheAssumption DEF ServerTypes, Ids
<1>3. /\ owed' \in [WatchIds -> SUBSET Ids]
      /\ \A u \in WatchIds : owed[u] \subseteq owed'[u]
      /\ \A u \in watch_map_ : (server[k] # NULL /\ u \in server[k].watches) => server[k].id \in owed'[u]
  BY <1>1, Notified
<1>4. server[k] \in Linked
  BY DEF ServerTypes
<1>5. server'[k] = [server[k] EXCEPT !.id = last_id + 1]
  BY <1>1 DEF ServerTypes
<1>6. server'[k] \in Linked /\ server'[k].id = last_id + 1
  BY <1>1, <1>2, <1>4, <1>5 DEF Linked
<1>7. \A j \in Keys : j # k => server'[j] = server[j]
  BY <1>1 DEF ServerTypes
<1>8. server' \in [Keys -> Linked \cup {NULL}]
  BY <1>1, <1>6, <1>7 DEF ServerTypes
<1>9. StoreTypes'
  BY <1>1, <1>2, <1>3, <1>8 DEF StoreTypes, ServerTypes
<1>10. ServerMoves(k)
  BY <1>1, <1>2, <1>6, <1>7 DEF ServerMoves
<1>11. Heard
  BY <1>1, <1>3, <1>7 DEF Heard
<1>. QED
  BY <1>9, <1>10, <1>11

LEMMA SilentMoves ==
  ASSUME ServerTypes, UNCHANGED <<server, last_id, owed, silent>>, NEW k0
  PROVE  StoreTypes' /\ ServerMoves(k0) /\ Heard
<1>1. last_id \in Nat
  BY LocalCacheAssumption DEF ServerTypes
<1>. QED
  BY <1>1 DEF StoreTypes, ServerTypes, ServerMoves, Heard

\* The operations that carry no watch.
LEMMA DropMoves ==
  ASSUME ServerTypes, NEW k \in Keys, server[k] # NULL,
         delete(k) \/ delta(k) \/ updateFlags(k) \/ updateExpiration
  PROVE  StoreTypes' /\ ServerMoves(k) /\ Heard
<1>1. CASE delete(k)
  BY <1>1, UnlinkMoves DEF delete
<1>2. CASE delta(k)
  <2>1. PICK v \in Vals : Delta_in_place(k, <<v>>) \/ Link(k, <<v>>, 0)
    BY <1>2 DEF delta
  <2>2. <<v>> \in Contents
    BY ContentsGrow
  <2>. QED
    BY <2>1, <2>2, DeltaMoves, LinkMoves
<1>3. CASE updateFlags(k)
  BY <1>3, FlagsMoves
<1>4. CASE updateExpiration
  BY <1>4, SilentMoves DEF updateExpiration
<1>. QED
  BY <1>1, <1>2, <1>3, <1>4
-----------------------------------------------------------------------------
(* The maps.                                                               *)

LEMMA EntryFacts ==
  ASSUME CacheTypes, Findable
  PROVE  /\ \A k \in Keys : Entry(k) \in Items \cup {NULL}
         /\ \A k \in Keys : activeCacheMap[k] # NULL => inactiveCacheMap[k] = NULL /\ Entry(k) = activeCacheMap[k]
         /\ \A k \in Keys : activeCacheMap[k] = NULL => Entry(k) = inactiveCacheMap[k]
         /\ \A k \in Keys : Entry(k) # NULL =>
               Entry(k) \in Items /\ Entry(k).key = k /\ cacheIdMap[Entry(k).id] = Entry(k) /\ Entry(k).id \in Ids
  BY DEF CacheTypes, Findable, Entry, Items

LEMMA CacheSame ==
  ASSUME CacheInv, UNCHANGED <<activeCacheMap, inactiveCacheMap, cacheIdMap, told>>
  PROVE  CacheMoves
<1>1. CacheTypes' /\ Findable'
  BY DEF CacheInv, CacheTypes, Findable, Entry
<1>2. \A k \in Keys : Entry(k)' = Entry(k)
  BY DEF Entry
<1>. QED
  BY <1>1, <1>2 DEF CacheMoves

\* Entries go or change their map, and no id of an entry that stays is forgotten.
LEMMA Thinned ==
  ASSUME CacheInv, CacheTypes',
         \A k \in Keys : activeCacheMap'[k] = NULL \/ inactiveCacheMap'[k] = NULL,
         \A k \in Keys : \/ Entry(k)' = NULL
                         \/ Entry(k)' = Entry(k) /\ Entry(k).id \notin told' \ told
                            /\ cacheIdMap'[Entry(k).id] = cacheIdMap[Entry(k).id],
         \A i \in Ids : cacheIdMap'[i] = NULL \/ cacheIdMap'[i] = cacheIdMap[i]
  PROVE  CacheMoves
<1>1. \A k \in Keys : Entry(k) # NULL => Entry(k).key = k /\ cacheIdMap[Entry(k).id] = Entry(k)
  BY EntryFacts DEF CacheInv
<1>2. \A k \in Keys : Entry(k)' # NULL => Entry(k)'.key = k /\ cacheIdMap'[Entry(k)'.id] = Entry(k)'
  BY <1>1
<1>3. Findable'
  BY <1>2 DEF Findable
<1>. QED
  BY <1>3 DEF CacheMoves

LEMMA TakeMaps ==
  ASSUME CacheInv, NEW K \in SUBSET Keys, Take(K)
  PROVE  /\ activeCacheMap' \in [Keys -> Items \cup {NULL}] /\ inactiveCacheMap' \in [Keys -> Items \cup {NULL}]
         /\ \A k \in Keys : activeCacheMap'[k] = NULL \/ inactiveCacheMap'[k] = NULL
         /\ \A k \in K : Entry(k)' = NULL
         /\ \A k \in Keys \ K : Entry(k)' = Entry(k)
<1>1. /\ activeCacheMap' = [k \in Keys |-> IF k \in K THEN NULL ELSE activeCacheMap[k]]
      /\ inactiveCacheMap' = [k \in Keys |->
            IF k \in K /\ activeCacheMap[k] = NULL THEN NULL ELSE inactiveCacheMap[k]]
  BY DEF Take
<1>2. \A k \in Keys : activeCacheMap[k] = NULL \/ inactiveCacheMap[k] = NULL
  BY DEF CacheInv, Findable
<1>3. activeCacheMap \in [Keys -> Items \cup {NULL}] /\ inactiveCacheMap \in [Keys -> Items \cup {NULL}]
  BY DEF CacheInv, CacheTypes
<1>. QED
  BY <1>1, <1>2, <1>3 DEF Entry

LEMMA ForgetList ==
  ASSUME CacheInv, NEW I, cacheIdMap' = Forget(I)
  PROVE  /\ cacheIdMap' \in [Ids -> Items \cup {NULL}]
         /\ \A i \in Ids : cacheIdMap'[i] = NULL \/ cacheIdMap'[i] = cacheIdMap[i]
         /\ \A i \in Ids : i \notin I => cacheIdMap'[i] = cacheIdMap[i]
  BY DEF CacheInv, CacheTypes, Forget

LEMMA RemoveMoves ==
  ASSUME CacheInv, NEW k \in Keys, GroupItem_remove(k), told' = told
  PROVE  CacheMoves
<1>1. Take({k}) /\ cacheIdMap' = Forget(IdOf(Entry(k)))
  BY DEF GroupItem_remove
<1>2. /\ activeCacheMap' \in [Keys -> Items \cup {NULL}] /\ inactiveCacheMap' \in [Keys -> Items \cup {NULL}]
      /\ \A j \in Keys : activeCacheMap'[j] = NULL \/ inactiveCacheMap'[j] = NULL
      /\ Entry(k)' = NULL
      /\ \A j \in Keys : j # k => Entry(j)' = Entry(j)
  BY <1>1, TakeMaps
<1>3. /\ cacheIdMap' \in [Ids -> Items \cup {NULL}]
      /\ \A i \in Ids : cacheIdMap'[i] = NULL \/ cacheIdMap'[i] = cacheIdMap[i]
      /\ \A i \in Ids : i \notin IdOf(Entry(k)) => cacheIdMap'[i] = cacheIdMap[i]
  BY <1>1, ForgetList
<1>4. CacheTypes'
  BY <1>2, <1>3 DEF CacheTypes
<1>5. ASSUME NEW j \in Keys, j # k, Entry(j) # NULL
      PROVE  Entry(j).id \in Ids /\ Entry(j).id \notin IdOf(Entry(k))
  BY <1>5, EntryFacts DEF IdOf, CacheInv
<1>6. \A j \in Keys : \/ Entry(j)' = NULL
                      \/ Entry(j)' = Entry(j) /\ Entry(j).id \notin told' \ told
                         /\ cacheIdMap'[Entry(j).id] = cacheIdMap[Entry(j).id]
  BY <1>2, <1>3, <1>5
<1>. QED
  BY <1>2, <1>3, <1>4, <1>6, Thinned

LEMMA ClearMoves ==
  ASSUME CacheInv, GroupItem_clear, told' = told,
         cacheIdMap' = cacheIdMap \/ cacheIdMap' = [i \in Ids |-> NULL]
  PROVE  CacheMoves
<1>1. activeCacheMap' = [k \in Keys |-> NULL] /\ inactiveCacheMap' = [k \in Keys |-> NULL]
  BY DEF GroupItem_clear
<1>2. CacheTypes' /\ \A i \in Ids : cacheIdMap'[i] = NULL \/ cacheIdMap'[i] = cacheIdMap[i]
  BY <1>1 DEF CacheInv, CacheTypes
<1>3. \A k \in Keys : Entry(k)' = NULL /\ activeCacheMap'[k] = NULL
  BY <1>1 DEF Entry
<1>. QED
  BY <1>2, <1>3, Thinned

LEMMA GetMoves ==
  ASSUME CacheInv, NEW k \in Keys, activeCacheMap[k] = NULL, GroupItem_get(k), told' = told
  PROVE  CacheMoves
<1>1. /\ inactiveCacheMap' = [inactiveCacheMap EXCEPT ![k] = NULL]
      /\ activeCacheMap' = [activeCacheMap EXCEPT ![k] = inactiveCacheMap[k]] /\ cacheIdMap' = cacheIdMap
  BY DEF GroupItem_get
<1>2. activeCacheMap \in [Keys -> Items \cup {NULL}] /\ inactiveCacheMap \in [Keys -> Items \cup {NULL}]
  BY DEF CacheInv, CacheTypes
<1>3. \A j \in Keys : activeCacheMap[j] = NULL \/ inactiveCacheMap[j] = NULL
  BY DEF CacheInv, Findable
<1>4. CacheTypes'
  BY <1>1, <1>2 DEF CacheInv, CacheTypes
<1>5. \A j \in Keys : Entry(j)' = Entry(j) /\ (activeCacheMap'[j] = NULL \/ inactiveCacheMap'[j] = NULL)
  BY <1>1, <1>2, <1>3 DEF Entry
<1>. QED
  BY <1>1, <1>4, <1>5, Thinned

LEMMA DropInactiveMoves ==
  ASSUME CacheInv, dropInactive, told' = told
  PROVE  CacheMoves
<1> DEFINE Mapped(K) == {k \in K : cacheIdMap[inactiveCacheMap[k].id] # NULL}
           Gone(K) == {cacheIdMap[inactiveCacheMap[k].id].key : k \in Mapped(K)} \cap Inactive
<1>1. PICK K \in SUBSET Inactive :
        /\ cacheIdMap' = Forget({inactiveCacheMap[k].id : k \in Mapped(K)})
        /\ inactiveCacheMap' = [k \in Keys |->
              IF activeCacheMap[k] # NULL THEN activeCacheMap[k]
              ELSE IF k \in Gone(K) THEN NULL ELSE inactiveCacheMap[k]]
        /\ activeCacheMap' = [k \in Keys |-> NULL]
  BY DEF dropInactive, kSubset
<1>2. activeCacheMap \in [Keys -> Items \cup {NULL}] /\ inactiveCacheMap \in [Keys -> Items \cup {NULL}]
  BY DEF CacheInv, CacheTypes
<1>3. \A k \in Inactive : /\ k \in Keys /\ activeCacheMap[k] = NULL /\ Entry(k) = inactiveCacheMap[k] /\ Entry(k) # NULL
                          /\ cacheIdMap[inactiveCacheMap[k].id] = inactiveCacheMap[k] /\ inactiveCacheMap[k].key = k
  BY EntryFacts DEF CacheInv, Inactive
<1>4. Mapped(K) = K /\ Gone(K) = K
  <2>1. Mapped(K) = K
    BY <1>3
  <2>2. Gone(K) = {cacheIdMap[inactiveCacheMap[k].id].key : k \in K} \cap Inactive
    BY <2>1
  <2>3. \A k \in K : cacheIdMap[inactiveCacheMap[k].id].key = k
    BY <1>3
  <2>. QED
    BY <2>1, <2>2, <2>3
<1> HIDE DEF Mapped, Gone
<1>5. /\ cacheIdMap' \in [Ids -> Items \cup {NULL}]
      /\ \A i \in Ids : cacheIdMap'[i] = NULL \/ cacheIdMap'[i] = cacheIdMap[i]
      /\ \A i \in Ids : i \notin {inactiveCacheMap[k].id : k \in K} => cacheIdMap'[i] = cacheIdMap[i]
  BY <1>1, <1>4, ForgetList
<1>6. CacheTypes'
  BY <1>1, <1>2, <1>5 DEF CacheTypes
<1>7. \A j \in Keys : Entry(j)' = IF j \in K THEN NULL ELSE Entry(j)
  BY <1>1, <1>2, <1>3, <1>4 DEF Entry
<1>8. ASSUME NEW j \in Keys, j \notin K, Entry(j) # NULL
      PROVE  Entry(j).id \in Ids /\ Entry(j).id \notin {inactiveCacheMap[k].id : k \in K}
  BY <1>3, <1>8, EntryFacts DEF CacheInv
<1>9. \A j \in Keys : \/ Entry(j)' = NULL
                      \/ Entry(j)' = Entry(j) /\ Entry(j).id \notin told' \ told
                         /\ cacheIdMap'[Entry(j).id] = cacheIdMap[Entry(j).id]
  BY <1>5, <1>7, <1>8
<1>10. \A j \in Keys : activeCacheMap'[j] = NULL
  BY <1>1
<1>. QED
  BY <1>5, <1>6, <1>9, <1>10, Thinned

LEMMA UpdateMoves ==
  ASSUME CacheInv, LocalCacheWatch_update(wr)
  PROVE  CacheMoves
<1> DEFINE K == {cacheIdMap[i].key : i \in {j \in wr : cacheIdMap[j] # NULL}}
<1>1. Take(K) /\ cacheIdMap' = Forget(wr) /\ told' = told \cup wr
  BY DEF LocalCacheWatch_update
<1>2. wr \subseteq Ids /\ K \in SUBSET Keys
  BY DEF CacheInv, WatchTypes, CacheTypes, Items
<1>3. /\ activeCacheMap' \in [Keys -> Items \cup {NULL}] /\ inactiveCacheMap' \in [Keys -> Items \cup {NULL}]
      /\ \A k \in Keys : activeCacheMap'[k] = NULL \/ inactiveCacheMap'[k] = NULL
      /\ \A k \in K : Entry(k)' = NULL
      /\ \A k \in Keys \ K : Entry(k)' = Entry(k)
  <2> HIDE DEF K
  <2>. QED
    BY <1>1, <1>2, TakeMaps
<1>4. /\ cacheIdMap' \in [Ids -> Items \cup {NULL}]
      /\ \A i \in Ids : cacheIdMap'[i] = NULL \/ cacheIdMap'[i] = cacheIdMap[i]
      /\ \A i \in Ids : i \notin wr => cacheIdMap'[i] = cacheIdMap[i]
  BY <1>1, ForgetList
<1>5. CacheTypes'
  BY <1>3, <1>4 DEF CacheTypes
<1>6. ASSUME NEW k \in Keys \ K, Entry(k) # NULL
      PROVE  Entry(k).id \in Ids /\ Entry(k).id \notin wr
  BY <1>6, EntryFacts DEF CacheInv
<1> HIDE DEF K
<1>7. \A k \in Keys : \/ Entry(k)' = NULL
                      \/ Entry(k)' = Entry(k) /\ Entry(k).id \notin told' \ told
                         /\ cacheIdMap'[Entry(k).id] = cacheIdMap[Entry(k).id]
  BY <1>1, <1>3, <1>4, <1>6
<1>. QED
  BY <1>3, <1>4, <1>5, <1>7, Thinned

LEMMA PutMoves ==
  ASSUME CacheInv, NEW t \in Threads, item[t] \in Items, item[t] # NULL, told' = told,
         GroupItem_put(item[t].key, [item[t] EXCEPT !.late = item[t].id \in told])
  PROVE  CacheMoves
<1>0. PICK k \in Keys : k = item[t].key
  BY DEF Items
<1> DEFINE it == [item[t] EXCEPT !.late = item[t].id \in told]
           old == IF inactiveCacheMap[k] # NULL THEN inactiveCacheMap[k] ELSE activeCacheMap[k]
<1>1. k \in Keys /\ it \in Items /\ it.key = k /\ it.id = item[t].id /\ it.watch = item[t].watch
      /\ it.late = (item[t].id \in told) /\ it.id \in Ids
  <2>1. \A b \in BOOLEAN : LET e == [item[t] EXCEPT !.late = b] IN
          e \in Items /\ e.key = k /\ e.id = item[t].id /\ e.watch = item[t].watch /\ e.late = b
    BY <1>0 DEF Items
  <2>2. (item[t].id \in told) \in BOOLEAN
    OBVIOUS
  <2>3. k \in Keys /\ item[t].id \in Ids
    BY DEF Items
  <2>. QED
    BY <2>1, <2>2, <2>3, Zenon
<1>2. /\ inactiveCacheMap' = [inactiveCacheMap EXCEPT ![k] = it]
      /\ activeCacheMap' = [activeCacheMap EXCEPT ![k] = IF inactiveCacheMap[k] = NULL THEN NULL ELSE @]
      /\ cacheIdMap' = [i \in Ids |-> IF i = it.id THEN it
                                      ELSE IF i \in IdOf(old) THEN NULL ELSE cacheIdMap[i]]
  BY <1>0 DEF GroupItem_put
<1>3. activeCacheMap \in [Keys -> Items \cup {NULL}] /\ inactiveCacheMap \in [Keys -> Items \cup {NULL}]
      /\ cacheIdMap \in [Ids -> Items \cup {NULL}]
  BY DEF CacheInv, CacheTypes
<1>4. \A j \in Keys : activeCacheMap[j] = NULL \/ inactiveCacheMap[j] = NULL
  BY DEF CacheInv, Findable
<1>5. old = Entry(k)
  BY <1>1, <1>4 DEF Entry
<1>6. PICK o \in [Ids -> Keys \cup {NULL}] : OwnedBy(o)
  BY DEF CacheInv, Owned
<1>7. o[it.id] = k
  BY <1>0, <1>1, <1>6 DEF OwnedBy
<1> HIDE DEF it, old
<1>8. CacheTypes'
  BY <1>1, <1>2, <1>3 DEF CacheTypes
<1>9. activeCacheMap'[k] = NULL /\ inactiveCacheMap'[k] = it /\ Entry(k)' = it
  <2>1. inactiveCacheMap'[k] = it
    BY <1>1, <1>2, <1>3
  <2>2. activeCacheMap'[k] = NULL
    BY <1>1, <1>2, <1>3, <1>4
  <2>. QED
    BY <2>1, <2>2 DEF Entry
<1>10. \A j \in Keys : j # k => /\ activeCacheMap'[j] = activeCacheMap[j] /\ inactiveCacheMap'[j] = inactiveCacheMap[j]
                                /\ Entry(j)' = Entry(j)
  BY <1>1, <1>2, <1>3 DEF Entry
<1>11. ASSUME NEW j \in Keys, j # k, Entry(j) # NULL
       PROVE  Entry(j).id # it.id /\ Entry(j).id \notin IdOf(old) /\ Entry(j).id \in Ids
  <2>1. Entry(j).key = j /\ cacheIdMap[Entry(j).id] = Entry(j) /\ Entry(j).id \in Ids
    BY <1>11, EntryFacts DEF CacheInv
  <2>2. o[Entry(j).id] = j
    BY <1>6, <1>11, <2>1 DEF OwnedBy
  <2>3. old # NULL => cacheIdMap[old.id] = old /\ old.key = k
    BY <1>1, <1>5, EntryFacts DEF CacheInv
  <2>. QED
    BY <1>7, <1>11, <2>1, <2>2, <2>3 DEF IdOf
<1>12. Findable'
  <2>1. ASSUME NEW j \in Keys
        PROVE  /\ activeCacheMap'[j] = NULL \/ inactiveCacheMap'[j] = NULL
               /\ Entry(j)' # NULL => Entry(j)'.key = j /\ cacheIdMap'[Entry(j)'.id] = Entry(j)'
    <3>1. CASE j = k
      <4>1. it.id \in Ids /\ it.key = k /\ cacheIdMap'[it.id] = it
        BY <1>1, <1>2
      <4>. QED
        BY <1>9, <3>1, <4>1
    <3>2. CASE j # k
      <4>1. Entry(j) # NULL => Entry(j).key = j /\ cacheIdMap[Entry(j).id] = Entry(j)
        BY EntryFacts DEF CacheInv
      <4>2. Entry(j) # NULL => cacheIdMap'[Entry(j).id] = cacheIdMap[Entry(j).id]
        BY <1>2, <1>11, <3>2
      <4>. QED
        BY <1>4, <1>10, <3>2, <4>1, <4>2
    <3>. QED
      BY <3>1, <3>2
  <2>. QED
    BY <2>1 DEF Findable
<1>13. \A j \in Keys :
        \/ Entry(j)' = NULL
        \/ Entry(j)' = Entry(j) /\ Entry(j).id \notin told' \ told
        \/ \E u \in Threads :
              /\ item[u] # NULL /\ item[u].key = j /\ told' = told
              /\ Entry(j)'.id = item[u].id /\ Entry(j)'.watch = item[u].watch
              /\ Entry(j)'.late = (item[u].id \in told)
  <2>1. \A j \in Keys : j # k => Entry(j)' = Entry(j) /\ Entry(j).id \notin told' \ told
    BY <1>10
  <2>2. /\ item[t].key = k /\ Entry(k)'.id = item[t].id /\ Entry(k)'.watch = item[t].watch
        /\ Entry(k)'.late = (item[t].id \in told)
    BY <1>0, <1>1, <1>9
  <2>3. \E u \in Threads :
              /\ item[u] # NULL /\ item[u].key = k /\ told' = told
              /\ Entry(k)'.id = item[u].id /\ Entry(k)'.watch = item[u].watch
              /\ Entry(k)'.late = (item[u].id \in told)
    BY <2>2, Zenon
  <2>. QED
    BY <2>1, <2>3, Zenon
<1>14. \A i \in Ids :
        \/ cacheIdMap'[i] = NULL \/ cacheIdMap'[i] = cacheIdMap[i]
        \/ \E u \in Threads :
              /\ item[u] # NULL /\ item[u].id = i
              /\ cacheIdMap'[i].id = i /\ cacheIdMap'[i].key = item[u].key
  <2>1. item[t].key = k
    BY <1>0
  <2>. QED
    BY <1>1, <1>2, <2>1
<1>. QED
  BY <1>8, <1>12, <1>13, <1>14 DEF CacheMoves
-----------------------------------------------------------------------------
(* The steps.                                                              *)

LEMMA DoneKeeps ==
  ASSUME CacheInv, NEW t \in Threads, Done(t), last_watch_id_' = last_watch_id_
  PROVE  ThreadTypes' /\ ItemMoves
<1>1. pc' = [pc EXCEPT ![t] = "idle"] /\ req' = [req EXCEPT ![t] = NULL] /\ item' = [item EXCEPT ![t] = NULL]
  BY DEF Done, Goto
<1>2. ThreadTypes
  BY DEF CacheInv
<1>3. /\ pc' \in [Threads -> {"idle", "sent", "remove", "flush", "store", "recheck", "put"}]
      /\ req' \in [Threads -> Requests \cup {NULL}] /\ item' \in [Threads -> Items \cup {NULL}]
  BY <1>1, <1>2 DEF ThreadTypes
<1>4. /\ pc'[t] = "idle" /\ item'[t] = NULL
      /\ \A u \in Threads : u # t => pc'[u] = pc[u] /\ req'[u] = req[u] /\ item'[u] = item[u]
  BY <1>1, <1>2 DEF ThreadTypes
<1>5. ThreadTypes'
  BY <1>2, <1>3, <1>4 DEF ThreadTypes
<1>6. ItemMoves
  BY <1>4 DEF ItemMoves
<1>. QED
  BY <1>5, <1>6

\* The thread t goes on to l with what it has.
LEMMA GotoKeeps ==
  ASSUME CacheInv, NEW t \in Threads, NEW l \in {"flush", "store", "recheck", "put"}, Goto(t, l),
         UNCHANGED <<req, item, last_watch_id_>>, l # "flush" => item[t] \in Items
  PROVE  ThreadTypes' /\ ItemMoves
<1>1. ThreadTypes
  BY DEF CacheInv
<1>2. pc' = [pc EXCEPT ![t] = l]
  BY DEF Goto
<1>3. /\ pc' \in [Threads -> {"idle", "sent", "remove", "flush", "store", "recheck", "put"}]
      /\ pc'[t] = l /\ \A u \in Threads : u # t => pc'[u] = pc[u]
  BY <1>1, <1>2 DEF ThreadTypes
<1>4. ThreadTypes'
  BY <1>1, <1>3 DEF ThreadTypes
<1>. QED
  BY <1>4 DEF ItemMoves

\* The thread t has a request r to be answered.
LEMMA AskKeeps ==
  ASSUME CacheInv, NEW t \in Threads, NEW r \in Requests, r.watch <= last_watch_id_,
         r.op \in {"set", "append"} => r.val \in Vals, NEW l \in {"sent", "remove"},
         pc' = [pc EXCEPT ![t] = l], req' = [req EXCEPT ![t] = r], UNCHANGED <<item, last_watch_id_>>
  PROVE  ThreadTypes' /\ ItemMoves
<1>1. ThreadTypes
  BY DEF CacheInv
<1>2. /\ pc' \in [Threads -> {"idle", "sent", "remove", "flush", "store", "recheck", "put"}]
      /\ pc'[t] = l /\ \A u \in Threads : u # t => pc'[u] = pc[u]
  BY <1>1 DEF ThreadTypes
<1>3. /\ req' \in [Threads -> Requests \cup {NULL}]
      /\ req'[t] = r /\ \A u \in Threads : u # t => req'[u] = req[u]
  BY <1>1 DEF ThreadTypes
<1>4. ThreadTypes'
  BY <1>1, <1>2, <1>3 DEF ThreadTypes
<1>. QED
  BY <1>4 DEF ItemMoves

LEMMA ThreadsKeep ==
  ASSUME CacheInv, UNCHANGED threadVars, last_watch_id_' \in Int, last_watch_id_ <= last_watch_id_'
  PROVE  ThreadTypes' /\ ItemMoves
<1>1. /\ \A t \in Threads : req[t] \in Requests => req[t].watch \in Int
      /\ last_watch_id_ \in Int
  BY DEF CacheInv, ServerTypes, Requests
<1>2. ThreadTypes'
  BY <1>1 DEF CacheInv, ThreadTypes, threadVars
<1>. QED
  BY <1>2 DEF ItemMoves, threadVars

\* The server is left alone, and so is the watch thread.
LEMMA Elsewhere ==
  ASSUME CacheInv, UNCHANGED <<serverVars, watchId, run, wr, hist>>
  PROVE  /\ ServerTypes' /\ WatchTypes' /\ ServerMoves(NULL) /\ CoverMoves
         /\ last_watch_id_' = last_watch_id_ /\ told' = told
<1>1. UNCHANGED <<server, last_id, watch_map_, last_watch_id_, owed, watchId, run, wr, told, silent>>
  BY DEF serverVars, hist
<1>2. ServerTypes' /\ WatchTypes'
  BY <1>1 DEF CacheInv, ServerTypes, WatchTypes
<1>3. ServerMoves(NULL) /\ Heard
  BY <1>1, SilentMoves DEF CacheInv
<1>. QED
  BY <1>1, <1>2, <1>3, HeardCovers

\* A change in the store.
LEMMA Changed ==
  ASSUME CacheInv, StoreTypes', Heard, UNCHANGED <<watch_map_, last_watch_id_, watchId, cacheVars, run, wr, told>>
  PROVE  ServerTypes' /\ WatchTypes' /\ CoverMoves /\ CacheMoves
<1>1. ServerTypes' /\ WatchTypes'
  BY DEF CacheInv, ServerTypes, StoreTypes, WatchTypes
<1>2. CacheMoves
  BY CacheSame DEF cacheVars
<1>. QED
  BY <1>1, <1>2, HeardCovers

LEMMA WatchFacts ==
  ASSUME CacheInv
  PROVE  watch_map_ \subseteq WatchIds /\ MaxWatch \in Nat /\ last_watch_id_ \in Nat /\ last_watch_id_ <= MaxWatch
  BY LocalCacheAssumption DEF CacheInv, ServerTypes, WatchIds

LEMMA ServeGet ==
  ASSUME CacheInv, NEW t \in Threads, serve_get(t)
  PROVE  CacheInv'
<1>1. PICK r \in Requests : r = req[t] /\ r.watch <= last_watch_id_
  BY DEF CacheInv, ThreadTypes, serve_get
<1>2. PICK k \in Keys, w \in 0..MaxWatch : k = r.key /\ w = r.watch
  BY DEF Requests
<1>3. /\ UNCHANGED <<last_id, watch_map_, last_watch_id_, owed, watchId, cacheVars, run, wr, told, silent>>
  BY DEF serve_get, hist
<1>4. CASE server[k] = NULL /\ Done(t) /\ UNCHANGED server
  <2>1. StoreTypes' /\ ServerMoves(NULL) /\ Heard
    BY <1>3, <1>4, SilentMoves DEF CacheInv
  <2>2. ServerTypes' /\ WatchTypes' /\ CoverMoves /\ CacheMoves
    BY <1>3, <2>1, Changed
  <2>3. ThreadTypes' /\ ItemMoves
    BY <1>3, <1>4, DoneKeeps
  <2>. QED
    BY <2>1, <2>2, <2>3, MovesKeepInv
<1>5. CASE /\ server[k] # NULL
           /\ server' = [server EXCEPT ![k].watches = @ \cup ({w} \cap watch_map_)]
           /\ \/ w = 0 /\ Done(t)
              \/ /\ w # 0 /\ Goto(t, "store") /\ UNCHANGED req
                 /\ item' = [item EXCEPT ![t] =
                       [key |-> k, id |-> server[k].id, val |-> server[k].val, watch |-> w, late |-> FALSE]]
  <2>0. server[k] \in Linked
    BY <1>5 DEF CacheInv, ServerTypes
  <2>1. server'[k] = [server[k] EXCEPT !.watches = @ \cup ({w} \cap watch_map_)]
    BY <1>5 DEF CacheInv, ServerTypes
  <2>2. server'[k] \in Linked /\ server'[k].id = server[k].id /\ server'[k].watches = server[k].watches \cup ({w} \cap watch_map_)
    BY <2>0, <2>1, WatchFacts DEF Linked
  <2>3. \A j \in Keys : j # k => server'[j] = server[j]
    BY <1>5 DEF CacheInv, ServerTypes
  <2>4. server' \in [Keys -> Linked \cup {NULL}]
    BY <1>5, <2>2, <2>3 DEF CacheInv, ServerTypes
  <2>5. StoreTypes'
    BY <1>3, <2>4 DEF StoreTypes, CacheInv, ServerTypes
  <2>6. last_id \in Int
    BY LocalCacheAssumption DEF CacheInv, ServerTypes
  <2>6a. \A j \in Keys : server'[j] # NULL => server[j] # NULL /\ server'[j].id = server[j].id
    BY <1>5, <2>2, <2>3
  <2>7. ServerMoves(NULL)
    BY <1>3, <2>6, <2>6a DEF ServerMoves
  <2>8. server'[k] # NULL
    BY <2>2, NullAssumption DEF Linked
  <2>9. Heard
    BY <1>3, <1>5, <2>2, <2>3, <2>8 DEF Heard
  <2>10. ServerTypes' /\ WatchTypes' /\ CoverMoves /\ CacheMoves
    BY <1>3, <2>5, <2>9, Changed
  <2>11. CASE w = 0 /\ Done(t)
    <3>1. ThreadTypes' /\ ItemMoves
      BY <1>3, <2>11, DoneKeeps
    <3>. QED
      BY <2>7, <2>10, <3>1, MovesKeepInv
  <2>12. CASE /\ w # 0 /\ Goto(t, "store") /\ UNCHANGED req
              /\ item' = [item EXCEPT ![t] =
                    [key |-> k, id |-> server[k].id, val |-> server[k].val, watch |-> w, late |-> FALSE]]
    <3>2. PICK x \in Items : x = [key |-> k, id |-> server[k].id, val |-> server[k].val, watch |-> w, late |-> FALSE]
      BY <2>0 DEF Items, Linked
    <3>3. PICK i \in Ids : i = server[k].id
      BY <2>0 DEF Linked
    <3>4. Covered(k, i, w)'
      BY <1>1, <1>2, <1>3, <2>2, <2>8, <3>3 DEF Covered
    <3>5. item' = [item EXCEPT ![t] = x] /\ pc' = [pc EXCEPT ![t] = "store"]
      BY <2>12, <3>2 DEF Goto
    <3>6. ThreadTypes
      BY DEF CacheInv
    <3>7. /\ pc' \in [Threads -> {"idle", "sent", "remove", "flush", "store", "recheck", "put"}]
          /\ pc'[t] = "store" /\ \A u \in Threads : u # t => pc'[u] = pc[u]
      BY <3>5, <3>6 DEF ThreadTypes
    <3>8. item' \in [Threads -> Items \cup {NULL}] /\ item'[t] = x /\ \A u \in Threads : u # t => item'[u] = item[u]
      BY <3>5, <3>6 DEF ThreadTypes
    <3>9. ThreadTypes'
      BY <1>3, <2>12, <3>6, <3>7, <3>8 DEF ThreadTypes
    <3>10. x.key = k /\ x.id = i /\ x.watch = w /\ server'[k].id = i
      BY <2>2, <3>2, <3>3
    <3>11. ItemMoves
      BY <2>8, <3>4, <3>8, <3>10 DEF ItemMoves
    <3>. QED
      BY <2>7, <2>10, <3>9, <3>11, MovesKeepInv
  <2>. QED
    BY <1>5, <2>11, <2>12
<1>. QED
  BY <1>1, <1>2, <1>4, <1>5 DEF serve_get

LEMMA ServeUpdate ==
  ASSUME CacheInv, NEW t \in Threads, serve_update(t)
  PROVE  CacheInv'
<1>1. PICK r \in Requests : r = req[t] /\ r.watch <= last_watch_id_ /\ r.op \in {"set", "append"} /\ r.val \in Vals
  BY DEF CacheInv, ThreadTypes, serve_update
<1>2. PICK k \in Keys, w \in 0..MaxWatch : k = r.key /\ w = r.watch
  BY DEF Requests
<1>0. PICK g \in 0..MaxWatch : g = (IF r.op = "append" THEN 0 ELSE w) /\ g <= last_watch_id_
  BY <1>1, <1>2, WatchFacts
<1>3. /\ UNCHANGED <<watch_map_, last_watch_id_, watchId, cacheVars, run, wr, told>>
      /\ pc' = [pc EXCEPT ![t] = "remove"] /\ UNCHANGED req
      /\ item' = [item EXCEPT ![t] = IF w = 0 THEN NULL ELSE
            [key |-> k, id |-> last_id', val |-> <<r.val>>, watch |-> g, late |-> FALSE]]
  BY <1>0, <1>1, <1>2 DEF serve_update, Goto, Registered
<1>4. PICK val \in Contents : Link(k, val, g)
  <2>1. CASE Link(k, <<r.val>>, g)
    BY <1>1, <2>1, ContentsGrow
  <2>2. CASE server[k] # NULL /\ Len(server[k].val) < MaxLen /\ Link(k, Append(server[k].val, r.val), g)
    <3>1. server[k].val \in Contents
      BY <2>2 DEF CacheInv, ServerTypes, Linked
    <3>. QED
      BY <1>1, <2>2, <3>1, ContentsGrow
  <2>. QED
    BY <1>0, <1>1, <1>2, <2>1, <2>2 DEF serve_update, Registered
<1>5. /\ StoreTypes' /\ ServerMoves(k) /\ Heard /\ last_id' = last_id + 1 /\ last_id' \in Ids
      /\ server'[k] = [id |-> last_id', val |-> val, watches |-> {g} \cap watch_map_]
  BY <1>4, LinkMoves DEF CacheInv
<1>6. ServerTypes' /\ WatchTypes' /\ CoverMoves /\ CacheMoves
  BY <1>3, <1>5, Changed
<1>7. ThreadTypes
  BY DEF CacheInv
<1>8. /\ pc' \in [Threads -> {"idle", "sent", "remove", "flush", "store", "recheck", "put"}]
      /\ pc'[t] = "remove" /\ \A u \in Threads : u # t => pc'[u] = pc[u]
  BY <1>3, <1>7 DEF ThreadTypes
<1>9. CASE w = 0
  <2>1. item' = [item EXCEPT ![t] = NULL]
    BY <1>3, <1>9
  <2>2. item' \in [Threads -> Items \cup {NULL}] /\ item'[t] = NULL /\ \A u \in Threads : u # t => item'[u] = item[u]
    BY <1>7, <2>1 DEF ThreadTypes
  <2>3. ThreadTypes'
    BY <1>1, <1>3, <1>7, <1>8, <2>2 DEF ThreadTypes
  <2>4. ItemMoves
    BY <2>2 DEF ItemMoves
  <2>. QED
    BY <1>5, <1>6, <2>3, <2>4, MovesKeepInv
<1>10. CASE w # 0
  <2>1. <<r.val>> \in Contents
    BY <1>1, ContentsGrow
  <2>2. PICK x \in Items : x = [key |-> k, id |-> last_id', val |-> <<r.val>>, watch |-> g, late |-> FALSE]
    BY <1>5, <2>1 DEF Items
  <2>3. item' = [item EXCEPT ![t] = x]
    BY <1>3, <1>10, <2>2
  <2>4. item' \in [Threads -> Items \cup {NULL}] /\ item'[t] = x /\ \A u \in Threads : u # t => item'[u] = item[u]
    BY <1>7, <2>3 DEF ThreadTypes
  <2>5. ThreadTypes'
    BY <1>1, <1>3, <1>7, <1>8, <2>4 DEF ThreadTypes
  <2>6. PICK i \in Ids : i = last_id'
    BY <1>5
  <2>7. server'[k].id = i /\ server'[k].watches = {g} \cap watch_map_ /\ x.key = k /\ x.id = i /\ x.watch = g
    BY <1>5, <2>2, <2>6
  <2>8. server'[k] # NULL
    <3>1. server'[k] \in Linked
      BY <1>5, WatchFacts DEF Linked
    <3>. QED
      BY <3>1, NullAssumption DEF Linked
  <2>9. Covered(k, i, g)'
    BY <1>0, <1>3, <2>7, <2>8 DEF Covered
  <2>10. ItemMoves
    BY <2>4, <2>7, <2>8, <2>9 DEF ItemMoves
  <2>. QED
    BY <1>5, <1>6, <2>5, <2>10, MovesKeepInv
<1>. QED
  BY <1>9, <1>10

LEMMA Remote ==
  ASSUME CacheInv, NEW k \in Keys, remote(k)
  PROVE  CacheInv'
<1>1. UNCHANGED <<watch_map_, last_watch_id_, watchId, cacheVars, run, wr, told>> /\ UNCHANGED threadVars
  BY DEF remote, threadVars
<1>2. StoreTypes' /\ ServerMoves(k) /\ Heard
  <2>1. ASSUME NEW v \in Vals, Link(k, <<v>>, 0)
        PROVE  StoreTypes' /\ ServerMoves(k) /\ Heard
    BY <2>1, ContentsGrow, LinkMoves DEF CacheInv
  <2>2. CASE server[k] # NULL /\ (delete(k) \/ delta(k) \/ updateFlags(k))
    BY <2>2, DropMoves DEF CacheInv
  <2>. QED
    BY <2>1, <2>2 DEF remote
<1>3. ServerTypes' /\ WatchTypes' /\ CoverMoves /\ CacheMoves
  BY <1>1, <1>2, Changed
<1>4. ThreadTypes' /\ ItemMoves
  BY <1>1, WatchFacts, ThreadsKeep
<1>. QED
  BY <1>2, <1>3, <1>4, MovesKeepInv

LEMMA ServeDrop ==
  ASSUME CacheInv, NEW t \in Threads, NEW k \in Keys, serve_drop(t, k)
  PROVE  CacheInv'
<1>1. /\ UNCHANGED <<watch_map_, last_watch_id_, watchId, cacheVars, run, wr, told>> /\ item' = item
      /\ pc' = [pc EXCEPT ![t] = "remove"] /\ "drop" \in Ops
      /\ req' = [req EXCEPT ![t] = [op |-> "drop", key |-> k, val |-> NULL, watch |-> 0]]
  BY DEF serve_drop, Goto
<1>2. StoreTypes' /\ ServerMoves(k) /\ Heard
  BY DropMoves DEF serve_drop, CacheInv
<1>3. ServerTypes' /\ WatchTypes' /\ CoverMoves /\ CacheMoves
  BY <1>1, <1>2, Changed
<1>4. PICK r \in Requests : r = [op |-> "drop", key |-> k, val |-> NULL, watch |-> 0]
  <2>1. "drop" \in Ops /\ 0 \in 0..MaxWatch
    BY <1>1, WatchFacts
  <2>. QED
    BY <2>1 DEF Requests
<1>5. r.watch <= last_watch_id_ /\ r.op \notin {"set", "append"} /\ req' = [req EXCEPT ![t] = r]
  BY <1>1, <1>4, WatchFacts
<1>6. ThreadTypes' /\ ItemMoves
  BY <1>1, <1>5, AskKeeps
<1>. QED
  BY <1>2, <1>3, <1>6, MovesKeepInv

LEMMA ServeFlush ==
  ASSUME CacheInv, NEW t \in Threads, serve_flush(t)
  PROVE  CacheInv'
<1>1. UNCHANGED <<watch_map_, last_watch_id_, watchId, cacheVars, run, wr, told>> /\ UNCHANGED <<req, item, last_watch_id_>>
  BY DEF serve_flush
<1>2. StoreTypes' /\ ServerMoves(NULL) /\ Heard
  BY UnlinkMoves DEF serve_flush, CacheInv
<1>3. ServerTypes' /\ WatchTypes' /\ CoverMoves /\ CacheMoves
  BY <1>1, <1>2, Changed
<1>4. ThreadTypes' /\ ItemMoves
  BY <1>1, GotoKeeps DEF serve_flush
<1>. QED
  BY <1>2, <1>3, <1>4, MovesKeepInv

\* The steps of a client thread that leave the server alone.
LEMMA ClientStep ==
  ASSUME CacheInv, NEW t \in Threads, UNCHANGED <<serverVars, watchId, run, wr, hist>>,
         \/ \E k \in Keys : get_miss(t, k)
         \/ \E op \in Ops, k \in Keys, v \in Vals : request(t, op, k, v)
         \/ fails(t) \/ remove(t) \/ flush(t) \/ store(t) \/ recheck(t) \/ put(t)
  PROVE  CacheInv'
<1>1. /\ ServerTypes' /\ WatchTypes' /\ ServerMoves(NULL) /\ CoverMoves
      /\ last_watch_id_' = last_watch_id_ /\ told' = told
  BY Elsewhere
<1>2. watchId \in 0..MaxWatch /\ watchId <= last_watch_id_ /\ ThreadTypes
  BY DEF CacheInv, WatchTypes
<1>3. ASSUME NEW k \in Keys, get_miss(t, k)
      PROVE  ThreadTypes' /\ ItemMoves /\ CacheMoves
  <2>1. PICK r \in Requests : r = [op |-> "get", key |-> k, val |-> NULL, watch |-> watchId]
    BY <1>2, <1>3 DEF get_miss, Requests
  <2>2. r.watch <= last_watch_id_ /\ r.op \notin {"set", "append"}
    BY <1>2, <2>1
  <2>3. pc' = [pc EXCEPT ![t] = "sent"] /\ req' = [req EXCEPT ![t] = r] /\ item' = item /\ UNCHANGED cacheVars
    BY <1>3, <2>1 DEF get_miss
  <2>4. ThreadTypes' /\ ItemMoves
    BY <1>1, <2>2, <2>3, AskKeeps
  <2>. QED
    BY <1>1, <2>3, <2>4, CacheSame DEF cacheVars
<1>4. ASSUME NEW op \in Ops, NEW k \in Keys, NEW v \in Vals, request(t, op, k, v)
      PROVE  ThreadTypes' /\ ItemMoves /\ CacheMoves
  <2>1. PICK r \in Requests : r = [op |-> op, key |-> k, val |-> v, watch |-> watchId]
    BY <1>2, <1>4 DEF request, Requests
  <2>2. r.watch <= last_watch_id_ /\ r.val \in Vals
    BY <1>2, <2>1
  <2>3. pc' = [pc EXCEPT ![t] = "sent"] /\ req' = [req EXCEPT ![t] = r] /\ item' = item /\ UNCHANGED cacheVars
    BY <1>4, <2>1 DEF request
  <2>4. ThreadTypes' /\ ItemMoves
    BY <1>1, <2>2, <2>3, AskKeeps
  <2>. QED
    BY <1>1, <2>3, <2>4, CacheSame DEF cacheVars
<1>5. CASE fails(t)
  <2>1. Done(t) /\ UNCHANGED cacheVars
    BY <1>5 DEF fails
  <2>. QED
    BY <1>1, <2>1, DoneKeeps, CacheSame, MovesKeepInv DEF cacheVars
<1>6. CASE remove(t)
  <2>1. PICK k \in Keys : k = req[t].key
    BY <1>2, <1>6 DEF remove, ThreadTypes, Requests
  <2>2. GroupItem_remove(k)
    BY <1>6, <2>1 DEF remove
  <2>3. CacheMoves
    BY <1>1, <2>2, RemoveMoves
  <2>4. CASE Done(t)
    BY <1>1, <2>3, <2>4, DoneKeeps, MovesKeepInv
  <2>5. CASE item[t] # NULL /\ Goto(t, "store") /\ UNCHANGED <<req, item>>
    <3>1. item[t] \in Items
      BY <1>2, <2>5 DEF ThreadTypes
    <3>2. ThreadTypes' /\ ItemMoves
      BY <1>1, <2>5, <3>1, GotoKeeps
    <3>. QED
      BY <1>1, <2>3, <3>2, MovesKeepInv
  <2>. QED
    BY <1>6, <2>4, <2>5 DEF remove
<1>7. CASE flush(t)
  <2>1. GroupItem_clear /\ cacheIdMap' = cacheIdMap /\ Done(t)
    BY <1>7 DEF flush
  <2>2. CacheMoves
    BY <1>1, <2>1, ClearMoves
  <2>. QED
    BY <1>1, <2>1, <2>2, DoneKeeps, MovesKeepInv
<1>8. CASE store(t)
  <2>1. item[t] \in Items /\ UNCHANGED <<req, item>>
    BY <1>2, <1>8 DEF store, ThreadTypes
  <2>2. CASE Goto(t, "put") /\ UNCHANGED cacheVars
    <3>1. ThreadTypes' /\ ItemMoves
      BY <1>1, <2>1, <2>2, GotoKeeps
    <3>. QED
      BY <1>1, <2>2, <3>1, CacheSame, MovesKeepInv DEF cacheVars
  <2>3. CASE dropInactive /\ Goto(t, "recheck")
    <3>1. ThreadTypes' /\ ItemMoves
      BY <1>1, <2>1, <2>3, GotoKeeps
    <3>2. CacheMoves
      BY <1>1, <2>3, DropInactiveMoves
    <3>. QED
      BY <1>1, <3>1, <3>2, MovesKeepInv
  <2>. QED
    BY <1>8, <2>2, <2>3 DEF store
<1>9. CASE recheck(t)
  <2>1. item[t] \in Items /\ UNCHANGED cacheVars
    BY <1>2, <1>9 DEF recheck, ThreadTypes
  <2>2. CacheMoves
    BY <1>1, <2>1, CacheSame DEF cacheVars
  <2>3. CASE Goto(t, "put") /\ UNCHANGED <<req, item>>
    <3>1. ThreadTypes' /\ ItemMoves
      BY <1>1, <2>1, <2>3, GotoKeeps
    <3>. QED
      BY <1>1, <2>2, <3>1, MovesKeepInv
  <2>4. CASE Done(t)
    BY <1>1, <2>2, <2>4, DoneKeeps, MovesKeepInv
  <2>. QED
    BY <1>9, <2>3, <2>4 DEF recheck
<1>10. CASE put(t)
  <2>1. item[t] \in Items /\ item[t] # NULL
    BY <1>2, <1>10, NullAssumption DEF put, ThreadTypes
  <2>2. CacheMoves
    BY <1>1, <1>10, <2>1, PutMoves DEF put
  <2>3. Done(t)
    BY <1>10 DEF put
  <2>. QED
    BY <1>1, <2>2, <2>3, DoneKeeps, MovesKeepInv
<1>. QED
  BY <1>1, <1>3, <1>4, <1>5, <1>6, <1>7, <1>8, <1>9, <1>10, MovesKeepInv

LEMMA GetHit ==
  ASSUME CacheInv, NEW k \in Keys, get_hit(k)
  PROVE  CacheInv'
<1>1. /\ UNCHANGED <<serverVars, watchId, run, wr, hist>> /\ UNCHANGED threadVars
      /\ activeCacheMap[k] = NULL /\ GroupItem_get(k)
  BY DEF get_hit, threadVars
<1>2. /\ ServerTypes' /\ WatchTypes' /\ ServerMoves(NULL) /\ CoverMoves
      /\ last_watch_id_' = last_watch_id_ /\ told' = told
  BY <1>1, Elsewhere
<1>3. CacheMoves
  BY <1>1, <1>2, GetMoves
<1>4. ThreadTypes' /\ ItemMoves
  BY <1>1, <1>2, WatchFacts, ThreadsKeep
<1>. QED
  BY <1>2, <1>3, <1>4, MovesKeepInv

LEMMA ExpireWatch ==
  ASSUME CacheInv, NEW w \in WatchIds, expire_watchs(w)
  PROVE  CacheInv'
<1>1. /\ UNCHANGED <<last_id, last_watch_id_, watchId, cacheVars, run, wr, told, silent>> /\ UNCHANGED threadVars
      /\ watch_map_' = watch_map_ \ {w} /\ owed' = [owed EXCEPT ![w] = {}]
      /\ server' = [k \in Keys |-> IF server[k] = NULL THEN NULL
                                   ELSE [server[k] EXCEPT !.watches = @ \ {w}]]
  BY DEF expire_watchs, threadVars, hist
<1>2. \A k \in Keys : server[k] # NULL => server[k] \in Linked
  BY DEF CacheInv, ServerTypes
<1>3. ASSUME NEW k \in Keys
      PROVE  IF server[k] = NULL THEN server'[k] = NULL
             ELSE /\ server'[k] \in Linked /\ server'[k] # NULL /\ server'[k].id = server[k].id
                  /\ server'[k].watches = server[k].watches \ {w}
  <2>1. CASE server[k] = NULL
    BY <1>1, <2>1
  <2>2. CASE server[k] # NULL
    <3>1. server'[k] = [server[k] EXCEPT !.watches = @ \ {w}] /\ server[k] \in Linked
      BY <1>1, <1>2, <2>2
    <3>2. server'[k] \in Linked /\ server'[k].id = server[k].id /\ server'[k].watches = server[k].watches \ {w}
      BY <3>1 DEF Linked
    <3>. QED
      BY <2>2, <3>2, NullAssumption DEF Linked
  <2>. QED
    BY <2>1, <2>2
<1>4. server' \in [Keys -> Linked \cup {NULL}] /\ last_id \in Int
  <2>1. last_id \in Int
    BY LocalCacheAssumption DEF CacheInv, ServerTypes
  <2>2. \A k \in Keys : server'[k] \in Linked \cup {NULL}
    BY <1>3
  <2>. QED
    BY <1>1, <2>1, <2>2
<1>5. ServerTypes' /\ WatchTypes'
  BY <1>1, <1>4 DEF CacheInv, ServerTypes, WatchTypes
<1>6. ServerMoves(NULL)
  BY <1>1, <1>3, <1>4 DEF ServerMoves
<1>7. CoverMoves
  <2>1. SUFFICES ASSUME NEW k \in Keys, NEW i \in Ids, NEW u \in 0..MaxWatch, Covered(k, i, u), u \in watch_map_'
                 PROVE  \/ i \in silent' \/ i \in told' \/ i \in owed'[u]
                        \/ u = watchId' /\ i \in wr'
                        \/ server'[k] # NULL /\ server'[k].id = i /\ u \in server'[k].watches
    BY <1>1 DEF CoverMoves, Covered
  <2>2. u \in watch_map_ /\ u # w /\ owed'[u] = owed[u]
    BY <1>1, <2>1, WatchFacts DEF CacheInv, ServerTypes
  <2>3. \/ i \in silent \/ i \in told \/ i \in owed[u]
        \/ u = watchId /\ i \in wr
        \/ server[k] # NULL /\ server[k].id = i /\ u \in server[k].watches
    BY <2>1, <2>2 DEF Covered
  <2>. QED
    BY <1>1, <1>3, <2>2, <2>3
<1>8. CacheMoves
  BY <1>1, CacheSame DEF cacheVars
<1>9. ThreadTypes' /\ ItemMoves
  BY <1>1, WatchFacts, ThreadsKeep
<1>. QED
  BY <1>5, <1>6, <1>7, <1>8, <1>9, MovesKeepInv

\* The steps of the watch thread.
LEMMA WatchStep ==
  ASSUME CacheInv, createWatch \/ checkWatch \/ update \/ clear
  PROVE  CacheInv'
<1>0. /\ watch_map_ \subseteq WatchIds /\ MaxWatch \in Nat /\ last_watch_id_ \in Nat /\ last_watch_id_ <= MaxWatch
      /\ WatchTypes /\ ServerTypes
  BY WatchFacts DEF CacheInv
<1>1. CASE createWatch
  <2>1. /\ last_watch_id_ < MaxWatch /\ last_watch_id_' = last_watch_id_ + 1
        /\ watch_map_' = watch_map_ \cup {last_watch_id_ + 1} /\ watchId' = last_watch_id_ + 1
        /\ run = "create" /\ run' = "check"
        /\ UNCHANGED <<server, last_id, owed, wr, told, silent>> /\ UNCHANGED threadVars
        /\ UNCHANGED <<activeCacheMap, inactiveCacheMap, cacheIdMap, told>>
    BY <1>1 DEF createWatch, hist, threadVars, cacheVars
  <2>2. last_watch_id_' \in 0..MaxWatch /\ watch_map_' \subseteq 1..last_watch_id_'
    BY <1>0, <2>1 DEF ServerTypes
  <2>3. ServerTypes' /\ WatchTypes'
    BY <1>0, <2>1, <2>2 DEF ServerTypes, WatchTypes
  <2>4. ServerMoves(NULL)
    BY <2>1, SilentMoves DEF CacheInv
  <2>5. ASSUME NEW k \in Keys, NEW i \in Ids, NEW w \in 0..MaxWatch, Covered(k, i, w)
        PROVE  Covered(k, i, w)'
    <3>1. w <= last_watch_id_ /\ w \in Nat /\ wr = {}
      BY <1>0, <2>1, <2>5 DEF Covered, WatchTypes
    <3>2. w <= last_watch_id_' /\ (w \in watch_map_' => w \in watch_map_)
      BY <1>0, <2>1, <3>1
    <3>. QED
      BY <2>1, <2>5, <3>1, <3>2 DEF Covered
  <2>6. CoverMoves
    BY <2>5 DEF CoverMoves
  <2>7. ThreadTypes' /\ ItemMoves
    BY <1>0, <2>1, ThreadsKeep
  <2>. QED
    BY <2>1, <2>3, <2>4, <2>6, <2>7, CacheSame, MovesKeepInv
<1>2. CASE checkWatch
  <2>1. /\ run = "check" /\ watchId \in watch_map_ /\ run' = "update"
        /\ wr' = owed[watchId] /\ owed' = [owed EXCEPT ![watchId] = {}]
        /\ UNCHANGED <<server, last_id, watch_map_, last_watch_id_, watchId, told, silent>> /\ UNCHANGED threadVars
        /\ UNCHANGED <<activeCacheMap, inactiveCacheMap, cacheIdMap, told>>
    BY <1>2 DEF checkWatch, hist, threadVars, cacheVars
  <2>2. wr = {} /\ wr' \subseteq Ids /\ owed' \in [WatchIds -> SUBSET Ids]
        /\ \A w \in WatchIds : w # watchId => owed'[w] = owed[w]
    BY <1>0, <2>1 DEF WatchTypes, ServerTypes
  <2>3. ServerTypes' /\ WatchTypes'
    BY <1>0, <2>1, <2>2 DEF ServerTypes, WatchTypes
  <2>4. ServerMoves(NULL)
    <3>1. last_id \in Int
      BY <1>0, LocalCacheAssumption DEF ServerTypes
    <3>. QED
      BY <2>1, <3>1 DEF ServerMoves
  <2>5. ASSUME NEW k \in Keys, NEW i \in Ids, NEW w \in 0..MaxWatch, Covered(k, i, w)
        PROVE  Covered(k, i, w)'
    <3>1. w \in watch_map_ => w \in WatchIds
      BY <1>0
    <3>. QED
      BY <2>1, <2>2, <2>5, <3>1 DEF Covered
  <2>6. CoverMoves
    BY <2>5 DEF CoverMoves
  <2>7. ThreadTypes' /\ ItemMoves
    BY <1>0, <2>1, ThreadsKeep
  <2>. QED
    BY <2>1, <2>3, <2>4, <2>6, <2>7, CacheSame, MovesKeepInv
<1>3. CASE update
  <2>1. /\ LocalCacheWatch_update(wr) /\ told' = told \cup wr /\ wr' = {} /\ run' = "check"
        /\ UNCHANGED <<server, last_id, owed, watch_map_, last_watch_id_, watchId, silent>> /\ UNCHANGED threadVars
    BY <1>3 DEF update, LocalCacheWatch_update, serverVars, threadVars
  <2>2. ServerTypes' /\ WatchTypes'
    BY <1>0, <2>1 DEF ServerTypes, WatchTypes
  <2>3. ServerMoves(NULL)
    BY <2>1, SilentMoves DEF CacheInv
  <2>4. CoverMoves
    BY <2>1 DEF CoverMoves, Covered
  <2>5. CacheMoves
    BY <2>1, UpdateMoves
  <2>6. ThreadTypes' /\ ItemMoves
    BY <1>0, <2>1, ThreadsKeep
  <2>. QED
    BY <2>2, <2>3, <2>4, <2>5, <2>6, MovesKeepInv
<1>4. CASE clear
  <2>1. /\ run = "check" /\ run' = "create" /\ watchId' = 0 /\ GroupItem_clear /\ cacheIdMap' = [i \in Ids |-> NULL]
        /\ UNCHANGED <<server, last_id, owed, watch_map_, last_watch_id_, wr, told, silent>> /\ UNCHANGED threadVars
    BY <1>4 DEF clear, serverVars, threadVars, hist
  <2>2. ServerTypes' /\ WatchTypes' /\ wr = {}
    BY <1>0, <2>1 DEF ServerTypes, WatchTypes
  <2>3. ServerMoves(NULL)
    BY <2>1, SilentMoves DEF CacheInv
  <2>4. CoverMoves
    BY <2>1, <2>2 DEF CoverMoves, Covered
  <2>5. CacheMoves
    BY <2>1, ClearMoves
  <2>6. ThreadTypes' /\ ItemMoves
    BY <1>0, <2>1, ThreadsKeep
  <2>. QED
    BY <2>2, <2>3, <2>4, <2>5, <2>6, MovesKeepInv
<1>. QED
  BY <1>1, <1>2, <1>3, <1>4
-----------------------------------------------------------------------------
(* The theorems.                                                           *)

LEMMA CacheInit ==
  ASSUME Init
  PROVE  CacheInv
<1>0. MaxId \in Nat /\ MaxWatch \in Nat
  BY LocalCacheAssumption
<1>1. CacheTypes /\ \A k \in Keys : Entry(k) = NULL
  BY DEF Init, CacheTypes, Entry
<1>2. ServerTypes /\ WatchTypes
  BY <1>0 DEF Init, ServerTypes, WatchTypes
<1>3. ThreadTypes
  BY DEF Init, ThreadTypes
<1>4. Findable
  BY <1>1 DEF Init, Findable
<1>5. Owned
  <2>1. \E o \in [Ids -> Keys \cup {NULL}] : TRUE
    <3>1. [i \in Ids |-> NULL] \in [Ids -> Keys \cup {NULL}]
      OBVIOUS
    <3>. QED
      BY <3>1
  <2>. QED
    BY <2>1 DEF Init, Owned, OwnedBy
<1>6. Watched /\ Dropped
  BY <1>1 DEF Init, Watched, Dropped
<1>. QED
  BY <1>1, <1>2, <1>3, <1>4, <1>5, <1>6 DEF CacheInv

LEMMA CacheStep ==
  ASSUME CacheInv, [Next]_vars
  PROVE  CacheInv'
<1>1. ASSUME NEW k \in Keys, remote(k) \/ get_hit(k)
      PROVE  CacheInv'
  BY <1>1, Remote, GetHit
<1>2. ASSUME NEW w \in WatchIds, expire_watchs(w)
      PROVE  CacheInv'
  BY <1>2, ExpireWatch
<1>3. ASSUME NEW t \in Threads, NEW k \in Keys, serve_drop(t, k)
      PROVE  CacheInv'
  BY <1>3, ServeDrop
<1>4. ASSUME NEW t \in Threads, serve_get(t) \/ serve_update(t) \/ serve_flush(t)
      PROVE  CacheInv'
  BY <1>4, ServeGet, ServeUpdate, ServeFlush
<1>5. ASSUME NEW t \in Threads,
             \/ \E k \in Keys : get_miss(t, k)
             \/ \E op \in Ops, k \in Keys, v \in Vals : request(t, op, k, v)
             \/ fails(t) \/ remove(t) \/ flush(t) \/ store(t) \/ recheck(t) \/ put(t)
      PROVE  CacheInv'
  <2>1. UNCHANGED <<serverVars, watchId, run, wr, hist>>
    BY <1>5 DEF get_miss, request, fails, remove, flush, store, recheck, put
  <2>. QED
    BY <1>5, <2>1, ClientStep
<1>6. CASE createWatch \/ checkWatch \/ update \/ clear
  BY <1>6, WatchStep
<1>7. CASE UNCHANGED vars
  <2>1. UNCHANGED <<serverVars, watchId, run, wr, hist>> /\ UNCHANGED threadVars
        /\ UNCHANGED <<activeCacheMap, inactiveCacheMap, cacheIdMap, told>>
    BY <1>7 DEF vars, cacheVars, hist, threadVars
  <2>2. /\ ServerTypes' /\ WatchTypes' /\ ServerMoves(NULL) /\ CoverMoves /\ last_watch_id_' = last_watch_id_
    BY <2>1, Elsewhere
  <2>3. ThreadTypes' /\ ItemMoves
    BY <2>1, <2>2, WatchFacts, ThreadsKeep
  <2>. QED
    BY <2>1, <2>2, <2>3, CacheSame, MovesKeepInv
<1>. QED
  BY <1>1, <1>2, <1>3, <1>4, <1>5, <1>6, <1>7 DEF Next

\* The inductive invariant: types, the three maps in step, one key for every
\* id, and a watch that hears of every item in hand or in the cache.
THEOREM CacheInvariant == Spec => []CacheInv
<1>. QED
  BY CacheInit, CacheStep, PTL DEF Spec

\* put, remove, dropInactive, get, flush, clear and LocalCacheWatch.update keep
\* the three maps in step: every entry is found by its id.
THEOREM EntriesAreFindable == Spec => []Findable
<1>1. CacheInv => Findable
  BY DEF CacheInv
<1>. QED
  BY <1>1, CacheInvariant, PTL

\* With the watch known to the server, an entry that is neither current nor on
\* its way out was put after its id had been dropped, under another watch, after
\* an append or a prepend, which register no watch on the item they link, or was
\* replaced by Cache_Mgr::delta in place.
THEOREM StaleIsOvertaken == Spec => []StaleOnlyIfOvertaken
<1>1. ASSUME CacheInv, watchId \in watch_map_, NEW k \in Keys, Stale(k)
      PROVE  Entry(k).late \/ Entry(k).watch # watchId \/ Entry(k).id \in silent
  <2>1. /\ Entry(k) # NULL /\ (server[k] = NULL \/ server[k].id # Entry(k).id) /\ Entry(k).id \notin Coming
    BY <1>1 DEF Stale
  <2>2. Covered(k, Entry(k).id, Entry(k).watch) /\ (~Entry(k).late => Entry(k).id \notin told)
    BY <1>1, <2>1 DEF CacheInv, Watched, Dropped
  <2>3. watchId # 0
    BY <1>1, LocalCacheAssumption DEF CacheInv, ServerTypes
  <2>4. Entry(k).id \notin wr /\ Entry(k).id \notin owed[watchId]
    BY <2>1, <2>3 DEF Coming
  <2>. QED
    BY <1>1, <2>1, <2>2, <2>4 DEF Covered
<1>2. CacheInv => StaleOnlyIfOvertaken
  BY <1>1 DEF StaleOnlyIfOvertaken
<1>. QED
  BY <1>2, CacheInvariant, PTL
-----------------------------------------------------------------------------
(* The counters.                                                           *)

LEMMA ItemSizes == \A e \in Items : itemSize(e) \in Nat
<1>0. MaxLen \in Nat
  BY LocalCacheAssumption
<1>1. ASSUME NEW c \in Contents PROVE Len(c) \in Nat
  <2>1. PICK m \in 0..MaxLen : c \in [1..m -> Vals]
    BY DEF Contents, BoundedSeq, SeqOf
  <2>. QED
    BY <1>0, <2>1
<1>. QED
  BY <1>1 DEF Items, itemSize

\* What SumSizes adds up is what the maps agree on.
LEMMA SizesAgree ==
  ASSUME NEW C, IsFiniteSet(C), NEW m, NEW n, \A k \in C : m[k] = n[k]
  PROVE  SumSizes(m, C) = SumSizes(n, C)
<1>1. [k \in C |-> itemSize(m[k])] = [k \in C |-> itemSize(n[k])]
  OBVIOUS
<1>. QED
  BY <1>1 DEF SumSizes

LEMMA SizesRestrict ==
  ASSUME NEW C, IsFiniteSet(C), NEW G \in SUBSET C, NEW m
  PROVE  SumSizes(m, G) = SumFunctionOnSet([k \in C |-> itemSize(m[k])], G)
<1> DEFINE f == [k \in C |-> itemSize(m[k])]
           g == [k \in G |-> itemSize(m[k])]
<1>1. IsFiniteSet(G) /\ \A k \in G : g[k] = f[k]
  BY FS_Subset
<1>2. SumFunctionOnSet(g, G) = SumFunctionOnSet(f, G)
  <2> HIDE DEF f, g
  <2>. QED
    BY <1>1, SumSame
<1>. QED
  BY <1>2 DEF SumSizes

\* The entries of G leave the counters.
LEMMA SizesLeave ==
  ASSUME NEW C, IsFiniteSet(C), NEW G \in SUBSET C, NEW m, \A k \in C : m[k] \in Items
  PROVE  /\ SumSizes(m, C) \in Int /\ SumSizes(m, G) \in Int
         /\ SumSizes(m, C \ G) = SumSizes(m, C) - SumSizes(m, G)
         /\ Cardinality(C) \in Nat /\ Cardinality(G) \in Nat
         /\ Cardinality(C \ G) = Cardinality(C) - Cardinality(G)
<1> DEFINE f == [k \in C |-> itemSize(m[k])]
           Sf(T) == SumFunctionOnSet(f, T)
<1>1. \A k \in C : f[k] \in Int
  BY ItemSizes
<1>2. SumSizes(m, C) = Sf(C) /\ SumSizes(m, G) = Sf(G) /\ SumSizes(m, C \ G) = Sf(C \ G)
  BY SizesRestrict
<1>3. /\ Sf(C) \in Int /\ Sf(G) \in Int /\ Sf(C \ G) = Sf(C) - Sf(G)
      /\ Cardinality(C) \in Nat /\ Cardinality(G) \in Nat
      /\ Cardinality(C \ G) = Cardinality(C) - Cardinality(G)
  <2> HIDE DEF f
  <2>. QED
    BY <1>1, SumLeaves
<1>. QED
  BY <1>2, <1>3

\* One entry comes in.
LEMMA SizesJoin ==
  ASSUME NEW C, IsFiniteSet(C), NEW k, k \notin C, NEW m, \A j \in C \cup {k} : m[j] \in Items
  PROVE  /\ SumSizes(m, C \cup {k}) = SumSizes(m, C) + itemSize(m[k])
         /\ SumSizes(m, C) \in Int
         /\ Cardinality(C \cup {k}) = Cardinality(C) + 1
<1> DEFINE D == C \cup {k}
           f == [j \in D |-> itemSize(m[j])]
<1>0. IsFiniteSet(D) /\ Cardinality(D) = Cardinality(C) + 1
  BY FS_AddElement
<1>1. \A j \in C \cup {k} : f[j] \in Int
  BY ItemSizes
<1>2. SumSizes(m, D) = SumFunctionOnSet(f, D) /\ SumSizes(m, C) = SumFunctionOnSet(f, C)
  BY <1>0, SizesRestrict
<1>3. f[k] = itemSize(m[k])
  OBVIOUS
<1>4. /\ SumFunctionOnSet(f, C \cup {k}) = SumFunctionOnSet(f, C) + f[k]
      /\ SumFunctionOnSet(f, C) \in Int
  <2> HIDE DEF f
  <2>. QED
    BY <1>1, SumAdds
<1>. QED
  BY <1>0, <1>2, <1>3, <1>4

\* Every entry there is, as one map.
Entries == [k \in Cached |-> Entry(k)]

LEMMA CachedFacts ==
  ASSUME CacheTypes
  PROVE  /\ IsFiniteSet(Cached) /\ Cached \subseteq Keys
         /\ \A k \in Cached : Entries[k] = Entry(k) /\ Entry(k) \in Items /\ Entry(k) # NULL
         /\ \A k \in Keys \ Cached : Entry(k) = NULL
<1>1. Cached \subseteq Keys
  BY DEF Cached
<1>2. IsFiniteSet(Cached)
  BY <1>1, FS_Subset, LocalCacheAssumption
<1>3. \A k \in Keys : Entry(k) \in Items \cup {NULL}
  BY DEF CacheTypes, Entry
<1>. QED
  BY <1>1, <1>2, <1>3 DEF Cached, Entries

LEMMA SizeExactIs ==
  SizeExact <=> cacheCount = Cardinality(Cached) /\ cacheSize = SumSizes(Entries, Cached)
BY DEF SizeExact, Entries

\* The entries of G go, each uncounted once; m shows what they were.
LEMMA CountersLeave ==
  ASSUME CacheTypes, CacheTypes', SizeExact, NEW G \in SUBSET Cached, NEW m,
         \A k \in G : m[k] = Entry(k),
         cacheSize' = cacheSize - SumSizes(m, G), cacheCount' = cacheCount - Cardinality(G),
         \A k \in G : Entry(k)' = NULL,
         \A k \in Keys \ G : Entry(k)' = Entry(k)
  PROVE  SizeExact'
<1>1. PICK C : C = Cached
  OBVIOUS
<1>2. PICK e : e = Entries
  OBVIOUS
<1>3. PICK n : n = Entries'
  OBVIOUS
<1>4. /\ IsFiniteSet(C) /\ C \subseteq Keys
      /\ \A k \in C : e[k] = Entry(k) /\ e[k] \in Items
      /\ \A k \in C : Entry(k) # NULL
      /\ \A k \in Keys \ C : Entry(k) = NULL
  BY <1>1, <1>2, CachedFacts
<1>5. Cached' = C \ G
  BY <1>1, <1>4 DEF Cached
<1>6. \A k \in C \ G : n[k] = e[k]
  <2>1. \A k \in C \ G : Entries'[k] = Entry(k)'
    BY <1>5 DEF Entries
  <2>. QED
    BY <1>3, <1>4, <2>1
<1>7. G \subseteq C /\ \A k \in G : m[k] = e[k]
  BY <1>1, <1>4
<1>8. IsFiniteSet(G) /\ IsFiniteSet(C \ G)
  BY <1>4, <1>7, FS_Subset, FS_Difference
<1>9. SumSizes(n, C \ G) = SumSizes(e, C \ G) /\ SumSizes(m, G) = SumSizes(e, G)
  BY <1>6, <1>7, <1>8, SizesAgree
<1>10. /\ SumSizes(e, C \ G) = SumSizes(e, C) - SumSizes(e, G)
       /\ Cardinality(C \ G) = Cardinality(C) - Cardinality(G)
  BY <1>4, <1>7, SizesLeave
<1>11. cacheCount = Cardinality(C) /\ cacheSize = SumSizes(e, C)
  BY <1>1, <1>2, SizeExactIs
<1>12. cacheCount' = Cardinality(C \ G) /\ cacheSize' = SumSizes(n, C \ G)
  BY <1>9, <1>10, <1>11
<1>. QED
  BY <1>3, <1>5, <1>12 DEF SizeExact, Entries

LEMMA CountersSame ==
  ASSUME CacheTypes, CacheTypes', SizeExact, cacheSize' = cacheSize, cacheCount' = cacheCount,
         \A k \in Keys : Entry(k)' = Entry(k)
  PROVE  SizeExact'
<1>1. Cached' = Cached
  BY DEF Cached
<1>2. Entries' = Entries
  BY <1>1 DEF Entries, Cached
<1>. QED
  BY <1>1, <1>2 DEF SizeExact, Entries

LEMMA TakeCounts ==
  ASSUME CacheInv, CacheTypes', SizeExact, NEW K \in SUBSET Keys, Take(K)
  PROVE  SizeExact'
<1>1. PICK G : G = K \cap Cached
  OBVIOUS
<1>2. PICK m : m = [k \in G |-> Entry(k)]
  OBVIOUS
<1>3. cacheSize' = cacheSize - SumSizes(m, G) /\ cacheCount' = cacheCount - Cardinality(G)
  BY <1>1, <1>2 DEF Take
<1>4. /\ \A k \in K : Entry(k)' = NULL
      /\ \A k \in Keys \ K : Entry(k)' = Entry(k)
  BY TakeMaps
<1>5. \A k \in Keys \ Cached : Entry(k) = NULL
  BY CachedFacts DEF CacheInv
<1>6. /\ \A k \in G : m[k] = Entry(k) /\ Entry(k)' = NULL
      /\ \A k \in Keys \ G : Entry(k)' = Entry(k)
      /\ G \in SUBSET Cached
  BY <1>1, <1>2, <1>4, <1>5
<1>. QED
  BY <1>3, <1>6, CountersLeave DEF CacheInv

LEMMA PutCounts ==
  ASSUME CacheInv, CacheTypes', SizeExact, NEW k \in Keys, NEW it \in Items, GroupItem_put(k, it)
  PROVE  SizeExact'
<1>1. PICK C : C = Cached
  OBVIOUS
<1>2. PICK e : e = Entries
  OBVIOUS
<1>3. PICK n : n = Entries'
  OBVIOUS
<1>4. PICK o : o = Entry(k)
  OBVIOUS
<1>5. /\ IsFiniteSet(C) /\ C \subseteq Keys
      /\ \A j \in C : e[j] = Entry(j) /\ e[j] \in Items /\ e[j] # NULL
      /\ \A j \in Keys \ C : Entry(j) = NULL
  BY <1>1, <1>2, CachedFacts DEF CacheInv
<1>6. \A j \in Keys : activeCacheMap[j] = NULL \/ inactiveCacheMap[j] = NULL
  BY DEF CacheInv, Findable
<1>7. /\ inactiveCacheMap' = [inactiveCacheMap EXCEPT ![k] = it]
      /\ activeCacheMap' = [activeCacheMap EXCEPT ![k] = IF inactiveCacheMap[k] = NULL THEN NULL ELSE @]
      /\ cacheSize' = cacheSize - Size(o) + itemSize(it)
      /\ cacheCount' = cacheCount + (IF o = NULL THEN 1 ELSE 0)
  <2>1. (IF inactiveCacheMap[k] # NULL THEN inactiveCacheMap[k] ELSE activeCacheMap[k]) = o
    BY <1>4, <1>6 DEF Entry
  <2>. QED
    BY <2>1 DEF GroupItem_put
<1>8. it # NULL
  BY NullAssumption
<1>9. \A j \in Keys : Entry(j)' = IF j = k THEN it ELSE Entry(j)
  <2>1. activeCacheMap \in [Keys -> Items \cup {NULL}] /\ inactiveCacheMap \in [Keys -> Items \cup {NULL}]
    BY DEF CacheInv, CacheTypes
  <2>. QED
    BY <1>6, <1>7, <2>1 DEF Entry
<1> DEFINE R == C \ {k}
<1>10. Cached' = R \cup {k} /\ k \notin R
  <2>1. \A j \in Keys : j \in C <=> Entry(j) # NULL
    BY <1>1 DEF Cached
  <2>2. Cached' = {j \in Keys : Entry(j)' # NULL}
    BY DEF Cached
  <2>. QED
    BY <1>5, <1>8, <1>9, <2>1, <2>2
<1>11. n[k] = it /\ \A j \in R : n[j] = e[j]
  <2>1. \A j \in R \cup {k} : Entries'[j] = Entry(j)'
    BY <1>10 DEF Entries
  <2>. QED
    BY <1>3, <1>5, <1>9, <1>10, <2>1
<1>12. cacheCount = Cardinality(C) /\ cacheSize = SumSizes(e, C)
  BY <1>1, <1>2, SizeExactIs
<1>13. IsFiniteSet(R) /\ R \subseteq C
  BY <1>5, FS_RemoveElement
<1>14. /\ SumSizes(n, R \cup {k}) = SumSizes(n, R) + itemSize(it)
       /\ Cardinality(R \cup {k}) = Cardinality(R) + 1
  <2>1. \A j \in R \cup {k} : n[j] \in Items
    BY <1>5, <1>11
  <2> HIDE DEF R
  <2>. QED
    BY <1>10, <1>11, <1>13, <2>1, SizesJoin
<1>15. SumSizes(n, R) = SumSizes(e, R)
  BY <1>11, <1>13, SizesAgree
<1>16. itemSize(it) \in Nat
  BY ItemSizes
<1>17. SumSizes(e, R) = SumSizes(e, C) - Size(o) /\ Cardinality(R) + 1 = Cardinality(C) + (IF o = NULL THEN 1 ELSE 0)
       /\ SumSizes(e, C) \in Int /\ Size(o) \in Int /\ SumSizes(e, R) \in Int
  <2>0. SumSizes(e, C) \in Int /\ Cardinality(C) \in Nat
    BY <1>5, SizesLeave
  <2>1. CASE k \in C
    <3>1. o = e[k] /\ o \in Items /\ o # NULL
      BY <1>4, <1>5, <2>1
    <3>2. R \cup {k} = C
      BY <2>1
    <3>3. SumSizes(e, C) = SumSizes(e, R) + itemSize(o) /\ SumSizes(e, R) \in Int /\ Cardinality(C) = Cardinality(R) + 1
      <4>1. \A j \in R \cup {k} : e[j] \in Items
        BY <1>5, <2>1
      <4>2. k \notin R
        OBVIOUS
      <4> HIDE DEF R
      <4>3. SumSizes(e, R \cup {k}) = SumSizes(e, R) + itemSize(e[k]) /\ SumSizes(e, R) \in Int
            /\ Cardinality(R \cup {k}) = Cardinality(R) + 1
        BY <1>13, <4>1, <4>2, SizesJoin
      <4>. QED
        BY <3>1, <3>2, <4>3
    <3>4. Size(o) = itemSize(o) /\ itemSize(o) \in Int
      BY <3>1, ItemSizes DEF Size
    <3>5. \A a, b, c \in Int : a = b + c => b = a - c
      OBVIOUS
    <3>6. SumSizes(e, R) = SumSizes(e, C) - Size(o)
      BY <2>0, <3>3, <3>4, <3>5
    <3>. QED
      BY <2>0, <3>1, <3>3, <3>4, <3>6
  <2>2. CASE k \notin C
    <3>1. o = NULL /\ R = C
      BY <1>4, <1>5, <2>2
    <3>2. Size(o) = 0
      BY <3>1 DEF Size
    <3>3. \A a \in Int : a = a - 0
      OBVIOUS
    <3>. QED
      BY <2>0, <3>1, <3>2, <3>3
  <2>. QED
    BY <2>1, <2>2
<1>18. cacheCount' = Cardinality(Cached') /\ cacheSize' = SumSizes(n, Cached')
  BY <1>7, <1>10, <1>12, <1>14, <1>15, <1>17
<1>. QED
  BY <1>3, <1>18 DEF SizeExact, Entries

LEMMA ClearCounts ==
  ASSUME CacheInv, CacheTypes', SizeExact, GroupItem_clear
  PROVE  SizeExact'
<1>1. PICK A, I : A = {k \in Keys : activeCacheMap[k] # NULL} /\ I = Inactive
  OBVIOUS
<1>2. PICK C, e : C = Cached /\ e = Entries
  OBVIOUS
<1>3. PICK a, i : a = activeCacheMap /\ i = inactiveCacheMap
  OBVIOUS
<1>4. /\ activeCacheMap' = [k \in Keys |-> NULL] /\ inactiveCacheMap' = [k \in Keys |-> NULL]
      /\ cacheSize' = cacheSize - SumSizes(a, A) - SumSizes(i, I)
      /\ cacheCount' = cacheCount - Cardinality(A) - Cardinality(I)
  BY <1>1, <1>3 DEF GroupItem_clear
<1>5. /\ IsFiniteSet(C) /\ C \subseteq Keys
      /\ \A j \in C : e[j] = Entry(j) /\ e[j] \in Items
  BY <1>2, CachedFacts DEF CacheInv
<1>6. A \subseteq C /\ C \ A = I /\ (\A k \in A : a[k] = e[k]) /\ (\A k \in I : i[k] = e[k])
  <2>1. \A k \in Keys : activeCacheMap[k] = NULL \/ inactiveCacheMap[k] = NULL
    BY DEF CacheInv, Findable
  <2>. QED
    BY <1>1, <1>2, <1>3, <1>5, <2>1 DEF Cached, Inactive, Entry
<1>7. IsFiniteSet(A) /\ IsFiniteSet(I)
  BY <1>5, <1>6, FS_Subset, FS_Difference
<1>8. SumSizes(a, A) = SumSizes(e, A) /\ SumSizes(i, I) = SumSizes(e, I)
  BY <1>6, <1>7, SizesAgree
<1>9. /\ SumSizes(e, C) \in Int /\ SumSizes(e, A) \in Int
      /\ SumSizes(e, I) = SumSizes(e, C) - SumSizes(e, A)
      /\ Cardinality(C) \in Nat /\ Cardinality(A) \in Nat
      /\ Cardinality(I) = Cardinality(C) - Cardinality(A)
  BY <1>5, <1>6, SizesLeave
<1>10. cacheCount = Cardinality(C) /\ cacheSize = SumSizes(e, C)
  BY <1>2, SizeExactIs
<1>11. cacheSize' = 0 /\ cacheCount' = 0
  <2>1. \A x, y \in Int : x - y - (x - y) = 0
    OBVIOUS
  <2>2. cacheSize' = SumSizes(e, C) - SumSizes(e, A) - (SumSizes(e, C) - SumSizes(e, A))
    BY <1>4, <1>8, <1>9, <1>10
  <2>3. cacheCount' = Cardinality(C) - Cardinality(A) - (Cardinality(C) - Cardinality(A))
    BY <1>4, <1>9, <1>10
  <2>. QED
    BY <1>9, <2>1, <2>2, <2>3
<1>12. Cached' = {}
  BY <1>4 DEF Cached, Entry
<1>13. \A f : SumFunctionOnSet(f, {}) = 0
  BY SumOfNone
<1>. QED
  BY <1>11, <1>12, <1>13, FS_EmptySet DEF SizeExact, SumSizes

LEMMA DropInactiveCounts ==
  ASSUME CacheInv, CacheTypes', SizeExact, dropInactive
  PROVE  SizeExact'
<1> DEFINE Mapped(K) == {k \in K : cacheIdMap[inactiveCacheMap[k].id] # NULL}
           Gone(K) == {cacheIdMap[inactiveCacheMap[k].id].key : k \in Mapped(K)} \cap Inactive
<1>1. PICK K \in SUBSET Inactive :
        /\ inactiveCacheMap' = [k \in Keys |->
              IF activeCacheMap[k] # NULL THEN activeCacheMap[k]
              ELSE IF k \in Gone(K) THEN NULL ELSE inactiveCacheMap[k]]
        /\ activeCacheMap' = [k \in Keys |-> NULL]
        /\ cacheSize' = cacheSize - SumSizes(inactiveCacheMap, Gone(K))
        /\ cacheCount' = cacheCount - Cardinality(Gone(K))
  BY DEF dropInactive, kSubset
<1>2. PICK G, m : G = Gone(K) /\ m = inactiveCacheMap
  OBVIOUS
<1>3. \A k \in Inactive : k \in Keys /\ activeCacheMap[k] = NULL /\ Entry(k) = inactiveCacheMap[k] /\ Entry(k) # NULL
  BY EntryFacts DEF CacheInv, Inactive
<1>4. G \subseteq Inactive
  BY <1>2
<1> HIDE DEF Gone, Mapped
<1>5. G \in SUBSET Cached
  BY <1>3, <1>4 DEF Cached
<1>6. \A k \in Keys : Entry(k)' = IF k \in G THEN NULL ELSE Entry(k)
  BY <1>1, <1>2, <1>3, <1>4 DEF Entry
<1>7. cacheSize' = cacheSize - SumSizes(m, G) /\ cacheCount' = cacheCount - Cardinality(G)
  BY <1>1, <1>2
<1>8. /\ \A k \in G : m[k] = Entry(k) /\ Entry(k)' = NULL
      /\ \A k \in Keys \ G : Entry(k)' = Entry(k)
  BY <1>2, <1>3, <1>4, <1>6
<1>. QED
  BY <1>5, <1>7, <1>8, CountersLeave DEF CacheInv

LEMMA GetCounts ==
  ASSUME CacheInv, CacheTypes', SizeExact, NEW k \in Keys, activeCacheMap[k] = NULL, GroupItem_get(k)
  PROVE  SizeExact'
<1>1. activeCacheMap \in [Keys -> Items \cup {NULL}] /\ inactiveCacheMap \in [Keys -> Items \cup {NULL}]
  BY DEF CacheInv, CacheTypes
<1>2. /\ \A j \in Keys : Entry(j)' = Entry(j)
      /\ cacheSize' = cacheSize /\ cacheCount' = cacheCount
  BY <1>1 DEF Entry, GroupItem_get
<1>. QED
  BY <1>2, CountersSame DEF CacheInv

LEMMA CountersStep ==
  ASSUME CacheInv, CacheInv', SizeExact, [Next]_vars
  PROVE  SizeExact'
<1>0. CacheTypes /\ CacheTypes' /\ ThreadTypes
  BY DEF CacheInv
<1>1. CASE UNCHANGED cacheVars
  <2>1. UNCHANGED <<activeCacheMap, inactiveCacheMap, cacheSize, cacheCount>>
    BY <1>1 DEF cacheVars
  <2>2. \A k \in Keys : Entry(k)' = Entry(k)
    BY <2>1 DEF Entry
  <2>. QED
    BY <1>0, <2>1, <2>2, CountersSame
<1>2. ASSUME NEW k \in Keys, get_hit(k) PROVE SizeExact'
  BY <1>0, <1>2, GetCounts DEF get_hit
<1>3. ASSUME NEW t \in Threads, remove(t) PROVE SizeExact'
  <2>1. PICK k \in Keys : k = req[t].key
    BY <1>0, <1>3 DEF ThreadTypes, Requests, remove
  <2>2. Take({k}) /\ {k} \in SUBSET Keys
    BY <1>3, <2>1 DEF remove, GroupItem_remove
  <2>. QED
    BY <1>0, <2>2, TakeCounts
<1>4. ASSUME NEW t \in Threads, flush(t) PROVE SizeExact'
  BY <1>0, <1>4, ClearCounts DEF flush
<1>5. ASSUME NEW t \in Threads, store(t), ~UNCHANGED cacheVars PROVE SizeExact'
  BY <1>0, <1>5, DropInactiveCounts DEF store
<1>6. ASSUME NEW t \in Threads, put(t) PROVE SizeExact'
  <2>1. item[t] \in Items
    BY <1>0, <1>6 DEF ThreadTypes, put
  <2>2. PICK it : it = [item[t] EXCEPT !.late = item[t].id \in told]
    OBVIOUS
  <2>3. it \in Items
    <3>1. \A b \in BOOLEAN : [item[t] EXCEPT !.late = b] \in Items
      BY <2>1 DEF Items
    <3>2. (item[t].id \in told) \in BOOLEAN
      OBVIOUS
    <3>. QED
      BY <2>2, <3>1, <3>2, Zenon
  <2>4. PICK k \in Keys : k = item[t].key
    BY <2>1 DEF Items
  <2>5. GroupItem_put(k, it)
    BY <1>6, <2>2, <2>4 DEF put
  <2>. QED
    BY <1>0, <2>3, <2>5, PutCounts
<1>7. CASE update
  <2>1. PICK K : K = {cacheIdMap[i].key : i \in {j \in wr : cacheIdMap[j] # NULL}}
    OBVIOUS
  <2>2. Take(K)
    BY <1>7, <2>1 DEF update, LocalCacheWatch_update
  <2>3. K \in SUBSET Keys
    BY <2>1 DEF CacheInv, WatchTypes, CacheTypes, Items
  <2>. QED
    BY <1>0, <2>2, <2>3, TakeCounts
<1>8. CASE clear
  BY <1>0, <1>8, ClearCounts DEF clear
<1>9. \/ UNCHANGED cacheVars
      \/ \E k \in Keys : get_hit(k)
      \/ \E t \in Threads : remove(t) \/ flush(t) \/ store(t) \/ put(t)
      \/ update \/ clear
  <2>1. ASSUME NEW k \in Keys, remote(k) PROVE UNCHANGED cacheVars
    BY <2>1 DEF remote
  <2>2. ASSUME NEW w \in WatchIds, expire_watchs(w) PROVE UNCHANGED cacheVars
    BY <2>2 DEF expire_watchs
  <2>3. ASSUME NEW t \in Threads, NEW k \in Keys, get_miss(t, k) \/ serve_drop(t, k) PROVE UNCHANGED cacheVars
    BY <2>3 DEF get_miss, serve_drop
  <2>4. ASSUME NEW t \in Threads, NEW op \in Ops, NEW k \in Keys, NEW v \in Vals, request(t, op, k, v)
        PROVE  UNCHANGED cacheVars
    BY <2>4 DEF request
  <2>5. ASSUME NEW t \in Threads, serve_get(t) \/ serve_update(t) \/ serve_flush(t) \/ fails(t) \/ recheck(t)
        PROVE  UNCHANGED cacheVars
    BY <2>5 DEF serve_get, serve_update, serve_flush, fails, recheck
  <2>6. createWatch \/ checkWatch => UNCHANGED cacheVars
    BY DEF createWatch, checkWatch
  <2>7. UNCHANGED vars => UNCHANGED cacheVars
    BY DEF vars
  <2>. QED
    BY <2>1, <2>2, <2>3, <2>4, <2>5, <2>6, <2>7 DEF Next
<1>. QED
  BY <1>1, <1>2, <1>3, <1>4, <1>5, <1>6, <1>7, <1>8, <1>9

LEMMA CountersInit == Init => SizeExact
<1> SUFFICES ASSUME Init PROVE SizeExact
  OBVIOUS
<1>1. Cached = {}
  BY DEF Init, Cached, Entry
<1>2. \A f : SumFunctionOnSet(f, {}) = 0
  BY SumOfNone
<1>. QED
  BY <1>1, <1>2, FS_EmptySet DEF Init, SizeExact, SumSizes

\* cacheCount and cacheSize are those of the entries in the two maps: whatever
\* put, remove, dropInactive, flush, clear and LocalCacheWatch.update interleave
\* to, an entry that is dropped or replaced is uncounted exactly once.
THEOREM CountersAreExact == Spec => []SizeExact
<1>1. Init => CacheInv /\ SizeExact
  BY CacheInit, CountersInit
<1>2. (CacheInv /\ SizeExact) /\ [Next]_vars => (CacheInv /\ SizeExact)'
  BY CacheStep, CountersStep
<1>. QED
  BY <1>1, <1>2, PTL DEF Spec

\* Type correctness; that the counters are numbers is a consequence of what
\* they count.
THEOREM Types == Spec => []TypeOK
<1>1. ASSUME CacheInv, SizeExact PROVE TypeOK
  <2>1. CacheTypes /\ ServerTypes /\ ThreadTypes /\ WatchTypes
    BY <1>1 DEF CacheInv
  <2>2. cacheSize \in Int /\ cacheCount \in Int
    <3>1. IsFiniteSet(Cached) /\ \A k \in Cached : Entries[k] \in Items
      BY <2>1, CachedFacts
    <3>2. SumSizes(Entries, Cached) \in Int /\ Cardinality(Cached) \in Nat
      BY <3>1, SizesLeave
    <3>. QED
      BY <1>1, <3>2, SizeExactIs
  <2>. QED
    BY <2>1, <2>2 DEF TypeOK, CacheTypes, ServerTypes, ThreadTypes, WatchTypes, Requests, Linked
<1>. QED
  BY <1>1, CacheInvariant, CountersAreExact, PTL
=============================================================================
