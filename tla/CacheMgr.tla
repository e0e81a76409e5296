------------------------------ MODULE CacheMgr ------------------------------
(***************************************************************************)
(* Cache_Mgr (src/src/cache.cpp): the shared store of the server.          *)
(*                                                                         *)
(* Every operation runs under cache_lock_, so it is one action.  Between   *)
(* two operations of one connection any other connection may run: what a  *)
(* connection keeps across them is a counted reference to an item (a       *)
(* handle: one entry of Peer_Cache::cache_items_, or cache_item_).         *)
(*                                                                         *)
(* Abstracted: item bytes and flags are one "content" value; the 33 timed  *)
(* expiry lists are one list "timed" (module ExpireList has the wheel);    *)
(* size classes, free lists and mem_used_ are left to module ItemAlloc,    *)
(* so an allocation takes any block that is not in use, or fails (which    *)
(* changes nothing); statistics are left out.                              *)
(***************************************************************************)
EXTENDS Integers, FiniteSets

CONSTANTS
    Keys,          \* Cache_Key: group id and key bytes
    Groups,        \* group ids
    GroupOf,       \* the group id of a key
    Items,         \* addresses at which a Cache_Item can be built
    Handles,       \* references connections can hold at one time
    Values,        \* contents: data bytes and flags
    Expirations,   \* expiration arguments of requests, 0 = never
    RefMod,        \* 2^16: ref_count is a uint16_t
    MaxId,         \* bound on the cache ids handed out
    MaxWatch,      \* bound on the watches created
    MaxTime,       \* bound on the clock
    MaxLeak,       \* bound on references lost per item
    NULL

ASSUME CacheMgrAssumption ==
    /\ GroupOf \in [Keys -> Groups]
    /\ IsFiniteSet(Handles)
    /\ NULL \notin Items /\ NULL \notin Keys /\ NULL \notin Values
    /\ Expirations \subseteq Nat
    /\ RefMod \in Nat \ {0, 1}
    /\ MaxId \in Nat /\ MaxWatch \in Nat /\ MaxTime \in Nat /\ MaxLeak \in Nat

WatchIds == 1..MaxWatch

VARIABLES
    allocated,       \* items between do_alloc and free_item
    item,            \* the fields of each item
    ref_count,       \* Cache_Item::ref_count
    cache_hash_map_, \* the items the hash table holds
    expire_list_,    \* the timed lists 0..32 as one, and list 33 ("never")
    last_cache_id_,
    ref, use, wid,   \* per handle: the item, what it is for, the watch named
    watch_map_,      \* live watches
    watch_expire,    \* Cache_Watch::expire_time_ of each
    last_watch_id_,
    notified,        \* ids pushed to a live watch since it was created
    curr_time, last_check_expired_time_,
    leaked,          \* history: references nobody will release any more
    seen             \* history: what a client was told under a watch

storeVars == <<allocated, item, ref_count, cache_hash_map_, expire_list_,
               last_cache_id_, leaked>>
handleVars == <<ref, use, wid>>
watchVars == <<watch_map_, watch_expire, last_watch_id_, notified>>
timeVars == <<curr_time, last_check_expired_time_>>
vars == <<storeVars, handleVars, watchVars, timeVars, seen>>

Lists == {"timed", "never"}
Uses == {"idle", "upload", "got", "loaded", "done"}
Ops == {"get", "write", "overwritten", "concat", "load"}

Blank == [key |-> NULL, content |-> NULL, cache_id |-> 0, expire_time |-> 0,
          expiration_id |-> "timed", watch_item |-> {}]

ItemRecord == [key: Keys \cup {NULL}, content: Values \cup {NULL},
               cache_id: Nat, expire_time: Nat, expiration_id: Lists,
               watch_item: SUBSET WatchIds]

TypeOK ==
    /\ allocated \subseteq Items
    /\ item \in [Items -> ItemRecord]
    /\ ref_count \in [Items -> 0..(RefMod - 1)]
    /\ cache_hash_map_ \subseteq Items
    /\ expire_list_ \in [Lists -> SUBSET Items]
    /\ last_cache_id_ \in Nat
    /\ ref \in [Handles -> Items \cup {NULL}]
    /\ use \in [Handles -> Uses]
    /\ wid \in [Handles -> 0..MaxWatch]
    /\ watch_map_ \subseteq WatchIds
    /\ watch_expire \in [WatchIds -> Nat]
    /\ last_watch_id_ \in 0..MaxWatch
    /\ notified \in [WatchIds -> SUBSET Nat]
    /\ curr_time \in Nat /\ last_check_expired_time_ \in Nat
    /\ leaked \in [Items -> Nat]
    /\ seen \subseteq [watch: WatchIds, key: Keys, id: Nat, op: Ops]

Init ==
    /\ allocated = {}
    /\ item = [i \in Items |-> Blank]
    /\ ref_count = [i \in Items |-> 0]
    /\ cache_hash_map_ = {}
    /\ expire_list_ = [l \in Lists |-> {}]
    /\ last_cache_id_ = 0
    /\ ref = [h \in Handles |-> NULL]
    /\ use = [h \in Handles |-> "idle"]
    /\ wid = [h \in Handles |-> 0]
    /\ watch_map_ = {}
    /\ watch_expire = [w \in WatchIds |-> 0]
    /\ last_watch_id_ = 0
    /\ notified = [w \in WatchIds |-> {}]
    /\ curr_time = 1 /\ last_check_expired_time_ = 0
    /\ leaked = [i \in Items |-> 0]
    /\ seen = {}
-----------------------------------------------------------------------------
(* Helpers.                                                                *)

\* Current_Time::realtime; the 32-bit overflow branch is in ExpireList.
realtime(e) == IF e = 0 THEN 0 ELSE curr_time + e

\* get_expiration_id, with lists 0..32 as one.
get_expiration_id(t) == IF t = 0 THEN "never" ELSE "timed"

\* cache_hash_map_.find: an item linked under the key.
find(k) == {i \in cache_hash_map_ : item[i].key = k}

\* The version check of conditional requests; 0 asks for none.
Match(cid, it) == cid = 0 \/ cid = item[it].cache_id

\* Watch id 0 is "no watch".
is_valid_watch_id(w) == w \in watch_map_
WatchOk(w) == w = 0 \/ is_valid_watch_id(w)
\* Slip: the test for watch_id != 0 is forgotten.
Slip_AsSet(w) == {w}
AsSet(w) == IF w = 0 THEN {} ELSE {w}

\* Slip: the counter is read but not advanced.
Slip_get_cache_id == last_cache_id_
\* get_cache_id, below the bound.
get_cache_id == last_cache_id_ + 1
IdAvailable == last_cache_id_ < MaxId

\* Slip: the item is freed while one reference is still out.
Slip_Freed(U) == {i \in U : ref_count[i] \in {1, 2}}
\* do_release_reference frees an item with its last reference.
Freed(U) == {i \in U : ref_count[i] = 1}

(***************************************************************************)
(* U lose one reference each and A gain one, where an item of A may be a   *)
(* block just allocated.  free_item resets the fields of what it frees.    *)
(***************************************************************************)
References(U, A) ==
    /\ ref_count' = [i \in Items |->
          CASE i \in U -> (ref_count[i] - 1) % RefMod
            [] i \in A \ U -> (ref_count[i] + 1) % RefMod
            [] OTHER -> ref_count[i]]
    /\ allocated' = (allocated \ Freed(U)) \cup A
    /\ leaked' = [i \in Items |-> IF i \in Freed(U) THEN 0 ELSE leaked[i]]

ItemsAfter(U) ==
    [i \in Items |->
        IF i \in Freed(U) THEN Blank
        ELSE IF i \in U THEN [item[i] EXCEPT !.watch_item = {}]
        ELSE item[i]]

\* Slip: a linked item always goes on a timed list.
Slip_Links(U, L, l) ==
    /\ cache_hash_map_' = (cache_hash_map_ \ U) \cup L
    /\ expire_list_' = [x \in Lists |->
          (expire_list_[x] \ U) \cup (IF x = "timed" THEN L ELSE {})]

\* The hash table and the expiry lists when U are unlinked and L linked on
\* list l.
Links(U, L, l) ==
    /\ cache_hash_map_' = (cache_hash_map_ \ U) \cup L
    /\ expire_list_' = [x \in Lists |->
          {i \in expire_list_[x] : i \in U => item[i].expiration_id # x}
              \cup (IF x = l THEN L ELSE {})]

\* Slip: the watches are told the id the change is about to get.
Slip_Notify(U, live) ==
    notified' = [w \in WatchIds |->
        IF w \in live
        THEN notified[w] \cup {get_cache_id : i \in {j \in U : w \in item[j].watch_item}}
        ELSE {}]

\* notify_watch for each item of U: its id goes to every live watch on it.
\* A watch that is gone takes its list with it.
Notify(U, live) ==
    notified' = [w \in WatchIds |->
        IF w \in live
        THEN notified[w] \cup {item[i].cache_id : i \in {j \in U : w \in item[j].watch_item}}
        ELSE {}]

\* What a client learns under watch w.
Tell(w, k, id, op) ==
    seen' = seen \cup {[watch |-> x, key |-> k, id |-> id, op |-> op] :
                         x \in AsSet(w)}
-----------------------------------------------------------------------------
(* Operations on items.  An outcome that changes nothing (a miss, a        *)
(* refused watch, an allocation failure) is a stuttering step and has no   *)
(* disjunct, unless it moves the connection's handle on.                   *)

\* The items U leave the hash table, the lists and the watches (do_unlink).
Unlink(U, live) ==
    /\ References(U, {})
    /\ Links(U, {}, "timed")
    /\ item' = ItemsAfter(U)
    /\ Notify(U, live)
    /\ UNCHANGED last_cache_id_

\* Slip: do_link does not count the table's reference.
Slip_ReplaceBy(U, i, w) ==
    /\ IdAvailable
    /\ References(U, {})
    /\ Links(U, {i}, item[i].expiration_id)
    /\ item' = [ItemsAfter(U) EXCEPT ![i].cache_id = get_cache_id,
                                     ![i].watch_item = AsSet(w)]
    /\ Notify(U, watch_map_)
    /\ last_cache_id_' = get_cache_id

\* Link(i): the request item takes a fresh id and enters table and list.
\* do_replace unlinks the old items (U) first.
ReplaceBy(U, i, w) ==
    /\ IdAvailable
    /\ References(U, {i})
    /\ Links(U, {i}, item[i].expiration_id)
    /\ item' = [ItemsAfter(U) EXCEPT ![i].cache_id = get_cache_id,
                                     ![i].watch_item = AsSet(w)]
    /\ Notify(U, watch_map_)
    /\ last_cache_id_' = get_cache_id

NewItem(old, v) ==
    [Blank EXCEPT !.key = item[old].key, !.content = v,
                  !.cache_id = get_cache_id,
                  !.expire_time = item[old].expire_time,
                  !.expiration_id = get_expiration_id(item[old].expire_time)]

\* append, prepend and delta allocate the new item themselves, replace old
\* by it and give the allocation's own reference back.
ReplaceByNew(old, i) ==
    /\ IdAvailable
    /\ References({old}, {i})
    /\ Links({old}, {i}, get_expiration_id(item[old].expire_time))
    /\ Notify({old}, watch_map_)
    /\ last_cache_id_' = get_cache_id

\* do_get's reference is not given back: the MISMATCH paths of update_flags,
\* update_expiration, append and prepend.
LoseReference(it) ==
    /\ leaked[it] < MaxLeak
    /\ ref_count' = [ref_count EXCEPT ![it] = (@ + 1) % RefMod]
    /\ leaked' = [leaked EXCEPT ![it] = @ + 1]
    /\ UNCHANGED <<allocated, item, cache_hash_map_, expire_list_, last_cache_id_>>

Finish(h) == /\ use' = [use EXCEPT ![h] = "done"]
             /\ wid' = [wid EXCEPT ![h] = 0]
             /\ UNCHANGED ref

Refuse(h) == /\ Finish(h)
             /\ UNCHANGED <<storeVars, notified, seen>>

Hold(h, it, u, w) ==
    /\ ref' = [ref EXCEPT ![h] = it]
    /\ use' = [use EXCEPT ![h] = u]
    /\ wid' = [wid EXCEPT ![h] = w]

alloc_item(h, k, v, e) ==
    /\ use[h] = "idle"
    /\ \E i \in Items \ allocated :
          /\ References({}, {i})
          /\ item' = [item EXCEPT ![i] =
                [Blank EXCEPT !.key = k, !.content = v, !.expire_time = realtime(e),
                              !.expiration_id = get_expiration_id(realtime(e))]]
          /\ Hold(h, i, "upload", 0)
    /\ UNCHANGED <<cache_hash_map_, expire_list_, last_cache_id_, watchVars,
                   timeVars, seen>>

\* Connection closed with the request body half read: Peer_Cache::cleanup
\* forgets cache_item_ without releasing it.
abandon(h) ==
    /\ use[h] = "upload"
    /\ leaked[ref[h]] < MaxLeak
    /\ leaked' = [leaked EXCEPT ![ref[h]] = @ + 1]
    /\ Hold(h, NULL, "idle", 0)
    /\ UNCHANGED <<allocated, item, ref_count, cache_hash_map_, expire_list_,
                   last_cache_id_, watchVars, timeVars, seen>>

release_reference(h) ==
    /\ use[h] = "done"
    /\ References({ref[h]}, {})
    /\ item' = [i \in Items |-> IF i \in Freed({ref[h]}) THEN Blank ELSE item[i]]
    /\ Hold(h, NULL, "idle", 0)
    /\ UNCHANGED <<cache_hash_map_, expire_list_, last_cache_id_, watchVars,
                   timeVars, seen>>

get(h, k, w) ==
    /\ use[h] = "idle"
    /\ \E it \in find(k) :
          LET live == item[it].expire_time = 0 \/ item[it].expire_time > curr_time IN
          \/ /\ live /\ WatchOk(w)
             /\ References({}, {it})
             /\ item' = [item EXCEPT ![it].watch_item = @ \cup AsSet(w)]
             /\ Hold(h, it, "got", w)
             /\ UNCHANGED <<cache_hash_map_, expire_list_, last_cache_id_, notified>>
          \/ /\ ~live
             /\ Unlink({it}, watch_map_)
             /\ UNCHANGED handleVars
    /\ UNCHANGED <<watch_map_, watch_expire, last_watch_id_, timeVars, seen>>

\* The expiry time moves before the watch is looked up, and the item stays
\* on the list it is on.
get_touch(h, k, w, e) ==
    /\ use[h] = "idle"
    /\ \E it \in find(k) :
          LET touched == [item EXCEPT ![it].expire_time = realtime(e)] IN
          \/ /\ WatchOk(w)
             /\ References({}, {it})
             /\ item' = [touched EXCEPT ![it].watch_item = @ \cup AsSet(w)]
             /\ Hold(h, it, "got", w)
          \/ /\ ~WatchOk(w)
             /\ item' = touched
             /\ UNCHANGED <<allocated, ref_count, leaked, handleVars>>
    /\ UNCHANGED <<cache_hash_map_, expire_list_, last_cache_id_, watchVars,
                   timeVars, seen>>

\* The reply is built after cache_lock_ is released: the id the client is
\* told is the one the item has then.
encode_reply(h) ==
    /\ use[h] \in {"got", "loaded"}
    /\ Tell(wid[h], item[ref[h]].key, item[ref[h]].cache_id,
            IF use[h] = "got" THEN "get" ELSE "load")
    /\ Finish(h)
    /\ UNCHANGED <<storeVars, watchVars, timeVars>>

update_flags(k, cid, v) ==
    /\ \E it \in find(k) :
          \/ /\ Match(cid, it) /\ IdAvailable
             /\ Notify({it}, watch_map_)
             /\ item' = [item EXCEPT ![it].content = v,
                                     ![it].cache_id = get_cache_id,
                                     ![it].watch_item = @ \cap watch_map_]
             /\ last_cache_id_' = get_cache_id
             /\ UNCHANGED <<allocated, ref_count, leaked, cache_hash_map_, expire_list_>>
          \/ /\ ~Match(cid, it)
             /\ LoseReference(it)
             /\ UNCHANGED notified
    /\ UNCHANGED <<handleVars, watch_map_, watch_expire, last_watch_id_,
                   timeVars, seen>>

update_expiration(k, cid, e) ==
    /\ \E it \in find(k) :
          \/ /\ Match(cid, it)
             /\ LET l == get_expiration_id(realtime(e)) IN
                  /\ expire_list_' = [x \in Lists |->
                        (expire_list_[x] \ (IF x = item[it].expiration_id THEN {it} ELSE {}))
                            \cup (IF x = l THEN {it} ELSE {})]
                  /\ item' = [item EXCEPT ![it].expiration_id = l,
                                          ![it].expire_time = realtime(e)]
             /\ UNCHANGED <<allocated, ref_count, leaked, cache_hash_map_, last_cache_id_>>
          \/ /\ ~Match(cid, it)
             /\ LoseReference(it)
    /\ UNCHANGED <<handleVars, watchVars, timeVars, seen>>

\* Slip: add links without looking the key up.
Slip_add(h, w) ==
    /\ use[h] = "upload"
    /\ WatchOk(w)
    /\ ReplaceBy({}, ref[h], w)
    /\ Finish(h)
    /\ Tell(w, item[ref[h]].key, get_cache_id, "write")
    /\ UNCHANGED <<watch_map_, watch_expire, last_watch_id_, timeVars>>

add(h, w) ==
    /\ use[h] = "upload"
    /\ LET k == item[ref[h]].key IN
       \/ /\ find(k) = {} /\ WatchOk(w)
          /\ ReplaceBy({}, ref[h], w)
          /\ Finish(h)
          /\ Tell(w, k, get_cache_id, "write")
       \/ /\ find(k) # {} \/ ~WatchOk(w)
          /\ Refuse(h)
    /\ UNCHANGED <<watch_map_, watch_expire, last_watch_id_, timeVars>>

\* The request item replaces old under the same key, if the version and the
\* watch are right: set on a hit, and replace.
Overwrite(h, w, cid) ==
    LET k == item[ref[h]].key IN
    \E old \in find(k) :
       \/ /\ Match(cid, old) /\ WatchOk(w)
          /\ ReplaceBy({old}, ref[h], w)
          /\ Finish(h)
          /\ Tell(w, k, get_cache_id, "write")
       \/ /\ ~Match(cid, old) \/ ~WatchOk(w)
          /\ Refuse(h)

set(h, w, cid) ==
    /\ use[h] = "upload"
    /\ LET k == item[ref[h]].key IN
       \/ Overwrite(h, w, cid)
       \/ /\ find(k) = {} /\ WatchOk(w)
          /\ ReplaceBy({}, ref[h], w)
          /\ Finish(h)
          /\ Tell(w, k, get_cache_id, "write")
       \/ /\ find(k) = {} /\ ~WatchOk(w)
          /\ Refuse(h)
    /\ UNCHANGED <<watch_map_, watch_expire, last_watch_id_, timeVars>>

replace(h, w, cid) ==
    /\ use[h] = "upload"
    /\ \/ Overwrite(h, w, cid)
       \/ find(item[ref[h]].key) = {} /\ Refuse(h)
    /\ UNCHANGED <<watch_map_, watch_expire, last_watch_id_, timeVars>>

\* append and prepend differ only in the order of the bytes.  The watch goes
\* to the request item, not to the item that is linked.
append(h, w, cid, v) ==
    /\ use[h] = "upload"
    /\ LET it == ref[h]
           k == item[it].key IN
       \/ \E old \in find(k) :
             \/ /\ Match(cid, old) /\ WatchOk(w)
                /\ \E i \in Items \ allocated :
                      /\ ReplaceByNew(old, i)
                      /\ item' = [ItemsAfter({old}) EXCEPT
                                    ![i] = NewItem(old, v),
                                    ![it].watch_item = @ \cup AsSet(w)]
                /\ Finish(h)
                /\ Tell(w, k, get_cache_id, "concat")
             \/ /\ ~Match(cid, old)
                /\ LoseReference(old)
                /\ Finish(h)
                /\ UNCHANGED <<notified, seen>>
             \/ Match(cid, old) /\ Refuse(h)   \* bad watch, or no memory
       \/ find(k) = {} /\ Refuse(h)
    /\ UNCHANGED <<watch_map_, watch_expire, last_watch_id_, timeVars>>

\* The second half of load_from_file, after the file was read into a fresh
\* item without the lock: an item linked meanwhile is used instead.
load_from_file(h, w) ==
    /\ use[h] = "upload"
    /\ LET k == item[ref[h]].key IN
       \/ /\ find(k) = {} /\ WatchOk(w)
          /\ ReplaceBy({}, ref[h], w)
          /\ Hold(h, ref[h], "got", w)
       \/ /\ find(k) = {} /\ ~WatchOk(w)
          /\ References({ref[h]}, {})
          /\ item' = ItemsAfter({ref[h]})
          /\ Hold(h, NULL, "idle", 0)
          /\ UNCHANGED <<cache_hash_map_, expire_list_, last_cache_id_, notified>>
       \/ \E old \in find(k) :
             /\ References({ref[h]}, {old})
             /\ item' = ItemsAfter({ref[h]})
             /\ Hold(h, old, "loaded", IF w \in WatchIds THEN w ELSE 0)
             /\ UNCHANGED <<cache_hash_map_, expire_list_, last_cache_id_, notified>>
    /\ UNCHANGED <<watch_map_, watch_expire, last_watch_id_, timeVars, seen>>

remove(k, cid) ==
    /\ \E it \in find(k) : Match(cid, it) /\ Unlink({it}, watch_map_)
    /\ UNCHANGED <<handleVars, watch_map_, watch_expire, last_watch_id_,
                   timeVars, seen>>

\* A result with as many digits as before is written over the old data, and
\* no watch hears of it; otherwise a new item takes its place.
delta(k, cid, v) ==
    /\ \E it \in find(k) :
          /\ Match(cid, it)
          /\ \/ /\ \E i \in Items \ allocated :
                     /\ ReplaceByNew(it, i)
                     /\ item' = [ItemsAfter({it}) EXCEPT ![i] = NewItem(it, v)]
                /\ UNCHANGED seen
             \/ /\ IdAvailable
                /\ item' = [item EXCEPT ![it].content = v,
                                        ![it].cache_id = get_cache_id]
                /\ last_cache_id_' = get_cache_id
                /\ seen' = {IF s.id = item[it].cache_id /\ s.op \in {"get", "write"}
                            THEN [s EXCEPT !.op = "overwritten"] ELSE s : s \in seen}
                /\ UNCHANGED <<allocated, ref_count, leaked, cache_hash_map_,
                               expire_list_, notified>>
    /\ UNCHANGED <<handleVars, watch_map_, watch_expire, last_watch_id_, timeVars>>

flush(g) ==
    /\ LET U == {i \in expire_list_["timed"] \cup expire_list_["never"] :
                   GroupOf[item[i].key] = g} IN
          /\ U # {}
          /\ Unlink(U, watch_map_)
    /\ UNCHANGED <<handleVars, watch_map_, watch_expire, last_watch_id_,
                   timeVars, seen>>
-----------------------------------------------------------------------------
(* Watches and the clock.                                                  *)

\* get_watch_id: ids count up.  It skips ids in use only after the 32-bit
\* counter has wrapped, which is beyond the bound.
get_watch_id == last_watch_id_ + 1

create_watch(e) ==
    /\ get_watch_id \in WatchIds
    /\ last_watch_id_' = get_watch_id
    /\ watch_map_' = watch_map_ \cup {get_watch_id}
    /\ watch_expire' = [watch_expire EXCEPT ![get_watch_id] = realtime(e)]
    /\ UNCHANGED <<storeVars, handleVars, notified, timeVars, seen>>

\* check_watch_and_set_callback, as far as the store sees it: the client's
\* check keeps the watch alive.  Delivery is in module CacheWatch.
check_watch(w, e) ==
    /\ is_valid_watch_id(w)
    /\ watch_expire' = [watch_expire EXCEPT ![w] = realtime(e)]
    /\ UNCHANGED <<storeVars, handleVars, watch_map_, last_watch_id_, notified,
                   timeVars, seen>>

\* set_current_time: the steps of up to 10 s it may take are several Ticks
\* between two sweeps.
Tick ==
    /\ curr_time < MaxTime
    /\ curr_time' = curr_time + 1
    /\ UNCHANGED <<storeVars, handleVars, watchVars, last_check_expired_time_,
                   seen>>

\* Watches first, then items: an item that expires together with a watch on
\* it does not reach that watch.  The wheel decides which of the items that
\* are due it looks at (module ExpireList); list "never" is not looked at.
check_expired ==
    /\ curr_time # last_check_expired_time_
    /\ last_check_expired_time_' = curr_time
    /\ watch_map_' = {w \in watch_map_ : watch_expire[w] > curr_time}
    /\ watch_expire' = [w \in WatchIds |-> IF w \in watch_map_' THEN watch_expire[w] ELSE 0]
    /\ seen' = {s \in seen : s.watch \in watch_map_'}
    /\ \E U \in SUBSET {i \in expire_list_["timed"] : item[i].expire_time <= curr_time} :
          Unlink(U, watch_map_')
    /\ UNCHANGED <<handleVars, last_watch_id_, curr_time>>

RequestIds == 0..last_cache_id_
WatchArgs == 0..MaxWatch

Next ==
    \/ \E h \in Handles : abandon(h) \/ release_reference(h) \/ encode_reply(h)
    \/ \E h \in Handles, k \in Keys, v \in Values, e \in Expirations :
          alloc_item(h, k, v, e)
    \/ \E h \in Handles, k \in Keys, w \in WatchArgs :
          \/ get(h, k, w)
          \/ \E e \in Expirations : get_touch(h, k, w, e)
    \/ \E h \in Handles, w \in WatchArgs :
          \/ add(h, w) \/ load_from_file(h, w)
          \/ \E cid \in RequestIds :
                \/ set(h, w, cid) \/ replace(h, w, cid)
                \/ \E v \in Values : append(h, w, cid, v)
    \/ \E k \in Keys, cid \in RequestIds :
          \/ remove(k, cid)
          \/ \E v \in Values : update_flags(k, cid, v) \/ delta(k, cid, v)
          \/ \E e \in Expirations : update_expiration(k, cid, e)
    \/ \E g \in Groups : flush(g)
    \/ \E e \in Expirations : create_watch(e)
    \/ \E w \in WatchIds, e \in Expirations : check_watch(w, e)
    \/ Tick
    \/ check_expired

Spec == Init /\ [][Next]_vars
-----------------------------------------------------------------------------
(* Properties.                                                             *)

RefsTo(i) == {h \in Handles : ref[h] = i}
Linked(i) == IF i \in cache_hash_map_ THEN 1 ELSE 0

(***************************************************************************)
(* The count of an item is the number of references that exist: one per    *)
(* handle of a connection, one for the hash table, and one for each of the *)
(* references that the MISMATCH paths and a closed upload lost.            *)
(***************************************************************************)
RefCountExact ==
    \A i \in Items : ref_count[i] = Cardinality(RefsTo(i)) + Linked(i) + leaked[i]

(***************************************************************************)
(* No connection, no hash chain and no expiry list points at an item that  *)
(* free_item has taken back, however operations interleave with sends.     *)
(***************************************************************************)
NoUseAfterFree ==
    /\ \A h \in Handles : use[h] # "idle" => ref[h] \in allocated
    /\ cache_hash_map_ \subseteq allocated
    /\ \A l \in Lists : expire_list_[l] \subseteq allocated

(***************************************************************************)
(* An item is in the hash table exactly if it is on the expiry list that   *)
(* its expiration_id names, and on no other: the asserts of do_unlink and  *)
(* free_item.  A sweep or flush therefore meets every linked item, once.   *)
(***************************************************************************)
TableAndListsAgree ==
    \A i \in Items, l \in Lists :
        i \in expire_list_[l] <=> i \in cache_hash_map_ /\ item[i].expiration_id = l

(***************************************************************************)
(* hash_map::insert does not look for the key: that no key is linked twice *)
(* is up to the operations, each of which looks first.                     *)
(***************************************************************************)
OneItemPerKey ==
    \A i, j \in cache_hash_map_ : item[i].key = item[j].key => i = j

(***************************************************************************)
(* What makes the four invariants above inductive.  The count cannot wrap  *)
(* while NoWrap holds (a bound on the references lost to one item).        *)
(***************************************************************************)
NoWrap == Cardinality(Handles) + MaxLeak + 1 < RefMod

HandleShape == \A h \in Handles : use[h] = "idle" <=> ref[h] = NULL

\* An item being uploaded is known to its own connection only.
UploadPrivate ==
    \A h \in Handles : use[h] = "upload" =>
        /\ ref[h] \notin cache_hash_map_
        /\ \A g \in Handles : ref[g] = ref[h] => g = h

AllocatedIsCounted == \A i \in Items : i \in allocated <=> ref_count[i] > 0

LeakBounded == \A i \in Items : leaked[i] <= MaxLeak

KeysKnown == \A i \in allocated : item[i].key \in Keys

StoreInv ==
    /\ TypeOK /\ RefCountExact /\ TableAndListsAgree /\ OneItemPerKey
    /\ HandleShape /\ UploadPrivate /\ AllocatedIsCounted /\ LeakBounded
    /\ KeysKnown

(***************************************************************************)
(* A cache id names one content for ever: a key whose content changes gets *)
(* an id that was never handed out before.  Conditional updates compare    *)
(* ids only, so this is what keeps them from losing an update.             *)
(***************************************************************************)
IdNamesContent ==
    [][\A i \in cache_hash_map_, j \in cache_hash_map_' :
         /\ item[i].key = item'[j].key
         /\ item[i].content # item'[j].content
         => item'[j].cache_id > last_cache_id_]_vars

(***************************************************************************)
(* A client told id c for key k under a live watch w either has the        *)
(* current version with w registered on it, or c has been pushed to w.     *)
(* Left out are the paths that do not register the watch: append and       *)
(* prepend add it to the request item instead of the one they link, and    *)
(* load_from_file may lose the race to another loader; and delta in place, *)
(* which notifies nobody.                                                  *)
(***************************************************************************)
Covered(s) ==
    \/ s.id \in notified[s.watch]
    \/ \E i \in find(s.key) : item[i].cache_id = s.id /\ s.watch \in item[i].watch_item

WatchCoherence ==
    \A s \in seen :
        s.watch \in watch_map_ /\ s.op \in {"get", "write"} => Covered(s)
=============================================================================
