--------------------------- MODULE CacheMgrProofs ---------------------------
(* Proofs about Cache_Mgr for every number of keys, items, handles, ids.   *)
EXTENDS CacheMgr, FiniteSetTheorems, TLAPS

USE DEF Lists, Uses, Ops

LEMMA BlankType == Blank \in ItemRecord
  BY DEF Blank, ItemRecord

LEMMA RecordUpdate ==
  ASSUME NEW r \in ItemRecord
  PROVE  /\ \A W \in SUBSET WatchIds : [r EXCEPT !.watch_item = W] \in ItemRecord
         /\ \A t \in Nat : [r EXCEPT !.cache_id = t] \in ItemRecord
         /\ \A t \in Nat : [r EXCEPT !.expire_time = t] \in ItemRecord
         /\ \A l \in Lists : [r EXCEPT !.expiration_id = l] \in ItemRecord
         /\ \A v \in Values : [r EXCEPT !.content = v] \in ItemRecord
         /\ \A k \in Keys : [r EXCEPT !.key = k] \in ItemRecord
  BY DEF ItemRecord

LEMMA HelperTypes ==
  ASSUME TypeOK
  PROVE  /\ \A e \in Expirations : realtime(e) \in Nat /\ get_expiration_id(realtime(e)) \in Lists
         /\ \A w \in WatchArgs : AsSet(w) \subseteq WatchIds
         /\ \A U \in SUBSET Items : ItemsAfter(U) \in [Items -> ItemRecord]
         /\ get_cache_id \in Nat
<1>1. \A e \in Expirations : realtime(e) \in Nat /\ get_expiration_id(realtime(e)) \in Lists
  BY CacheMgrAssumption DEF TypeOK, realtime, get_expiration_id
<1>2. \A w \in WatchArgs : AsSet(w) \subseteq WatchIds
  BY CacheMgrAssumption DEF WatchArgs, AsSet, WatchIds
<1>3. ASSUME NEW U \in SUBSET Items
      PROVE  ItemsAfter(U) \in [Items -> ItemRecord]
  <2>1. \A i \in Items : [item[i] EXCEPT !.watch_item = {}] \in ItemRecord
    BY RecordUpdate DEF TypeOK
  <2>. QED
    BY <2>1, BlankType DEF TypeOK, ItemsAfter
<1>4. get_cache_id \in Nat
  BY DEF TypeOK, get_cache_id
<1>. QED
  BY <1>1, <1>2, <1>3, <1>4

LEMMA ReferencesType ==
  ASSUME TypeOK, NEW U \in SUBSET Items, NEW A \in SUBSET Items, References(U, A)
  PROVE  /\ ref_count' \in [Items -> 0..(RefMod - 1)]
         /\ allocated' \subseteq Items
         /\ leaked' \in [Items -> Nat]
<1>1. \A i \in Items : /\ (ref_count[i] - 1) % RefMod \in 0..(RefMod - 1)
                       /\ (ref_count[i] + 1) % RefMod \in 0..(RefMod - 1)
  BY CacheMgrAssumption DEF TypeOK
<1>2. ref_count' \in [Items -> 0..(RefMod - 1)]
  BY <1>1 DEF TypeOK, References
<1>. QED
  BY <1>2 DEF TypeOK, References, Freed

LEMMA LinksType ==
  ASSUME TypeOK, NEW U \in SUBSET Items, NEW L \in SUBSET Items, NEW l, Links(U, L, l)
  PROVE  /\ cache_hash_map_' \subseteq Items
         /\ expire_list_' \in [Lists -> SUBSET Items]
  BY DEF TypeOK, Links

LEMMA NotifyType ==
  ASSUME TypeOK, NEW U \in SUBSET Items, NEW live, Notify(U, live)
  PROVE  notified' \in [WatchIds -> SUBSET Nat]
<1>1. \A i \in Items : item[i].cache_id \in Nat
  BY DEF TypeOK, ItemRecord
<1>. QED
  BY <1>1 DEF TypeOK, Notify

LEMMA UnlinkType ==
  ASSUME TypeOK, NEW U \in SUBSET Items, NEW live, Unlink(U, live)
  PROVE  /\ ref_count' \in [Items -> 0..(RefMod - 1)]
         /\ allocated' \subseteq Items
         /\ leaked' \in [Items -> Nat]
         /\ cache_hash_map_' \subseteq Items
         /\ expire_list_' \in [Lists -> SUBSET Items]
         /\ item' \in [Items -> ItemRecord]
         /\ notified' \in [WatchIds -> SUBSET Nat]
         /\ last_cache_id_' \in Nat
<1>1. References(U, {}) /\ Links(U, {}, "timed") /\ Notify(U, live) /\ item' = ItemsAfter(U)
      /\ UNCHANGED last_cache_id_
  BY DEF Unlink
<1>2. cache_hash_map_' \subseteq Items /\ expire_list_' \in [Lists -> SUBSET Items]
  BY <1>1, LinksType
<1>3. notified' \in [WatchIds -> SUBSET Nat]
  BY <1>1, NotifyType
<1>4. item' \in [Items -> ItemRecord] /\ last_cache_id_' \in Nat
  BY <1>1, HelperTypes DEF TypeOK
<1>. QED
  BY <1>1, <1>2, <1>3, <1>4, ReferencesType

LEMMA LoseType ==
  ASSUME TypeOK, NEW it \in Items, LoseReference(it)
  PROVE  /\ ref_count' \in [Items -> 0..(RefMod - 1)]
         /\ leaked' \in [Items -> Nat]
         /\ UNCHANGED <<allocated, item, cache_hash_map_, expire_list_, last_cache_id_>>
  BY CacheMgrAssumption DEF TypeOK, LoseReference

LEMMA TellType ==
  ASSUME TypeOK, NEW w \in WatchArgs, NEW k \in Keys, NEW id \in Nat, NEW op \in Ops,
         Tell(w, k, id, op)
  PROVE  seen' \subseteq [watch: WatchIds, key: Keys, id: Nat, op: Ops]
  BY HelperTypes DEF TypeOK, Tell

LEMMA HandleTypes ==
  ASSUME TypeOK, NEW h \in Handles, NEW it \in Items \cup {NULL}, NEW u \in Uses,
         NEW w \in WatchArgs
  PROVE  /\ Hold(h, it, u, w) => /\ ref' \in [Handles -> Items \cup {NULL}]
                                 /\ use' \in [Handles -> Uses]
                                 /\ wid' \in [Handles -> 0..MaxWatch]
         /\ Finish(h) => /\ ref' \in [Handles -> Items \cup {NULL}]
                         /\ use' \in [Handles -> Uses]
                         /\ wid' \in [Handles -> 0..MaxWatch]
  BY CacheMgrAssumption DEF TypeOK, Hold, Finish, WatchArgs

-----------------------------------------------------------------------------
LEMMA AllocType ==
  ASSUME StoreInv, NEW h \in Handles, NEW k \in Keys, NEW v \in Values,
         NEW e \in Expirations, alloc_item(h, k, v, e)
  PROVE  TypeOK'
<1>. USE DEF StoreInv
<1>1. PICK i \in Items \ allocated :
          /\ References({}, {i})
          /\ item' = [item EXCEPT ![i] =
                [Blank EXCEPT !.key = k, !.content = v, !.expire_time = realtime(e),
                              !.expiration_id = get_expiration_id(realtime(e))]]
          /\ Hold(h, i, "upload", 0)
  BY DEF alloc_item
<1>2. [Blank EXCEPT !.key = k, !.content = v, !.expire_time = realtime(e),
                    !.expiration_id = get_expiration_id(realtime(e))] \in ItemRecord
  BY HelperTypes DEF Blank, ItemRecord
<1>3. item' \in [Items -> ItemRecord]
  BY <1>1, <1>2 DEF TypeOK
<1>4. /\ ref' \in [Handles -> Items \cup {NULL}]
      /\ use' \in [Handles -> Uses]
      /\ wid' \in [Handles -> 0..MaxWatch]
  BY <1>1, HandleTypes, CacheMgrAssumption DEF WatchArgs
<1>5. UNCHANGED <<cache_hash_map_, expire_list_, last_cache_id_, watch_map_, watch_expire,
                  last_watch_id_, notified, curr_time, last_check_expired_time_, seen>>
  BY DEF alloc_item, watchVars, timeVars
<1>. QED
  BY <1>1, <1>3, <1>4, <1>5, ReferencesType, SMTT(30) DEF TypeOK

-----------------------------------------------------------------------------
(* What the actions do to single fields of an item.                        *)

SameNames(f, g) == \A j \in Items : /\ f[j].key = g[j].key
                                    /\ f[j].expiration_id = g[j].expiration_id

LEMMA FieldUpdates ==
  ASSUME NEW f \in [Items -> ItemRecord], NEW i \in Items
  PROVE  /\ \A W \in SUBSET WatchIds :
              LET g == [f EXCEPT ![i].watch_item = W] IN
              g \in [Items -> ItemRecord] /\ SameNames(g, f)
         /\ \A t \in Nat :
              LET g == [f EXCEPT ![i].expire_time = t] IN
              g \in [Items -> ItemRecord] /\ SameNames(g, f)
         /\ \A c \in Nat, W \in SUBSET WatchIds :
              LET g == [f EXCEPT ![i].cache_id = c, ![i].watch_item = W] IN
              g \in [Items -> ItemRecord] /\ SameNames(g, f)
         /\ \A c \in Nat, v \in Values :
              LET g == [f EXCEPT ![i].content = v, ![i].cache_id = c] IN
              g \in [Items -> ItemRecord] /\ SameNames(g, f)
         /\ \A c \in Nat, v \in Values, W \in SUBSET WatchIds :
              LET g == [f EXCEPT ![i].content = v, ![i].cache_id = c, ![i].watch_item = W] IN
              g \in [Items -> ItemRecord] /\ SameNames(g, f)
<1>. USE DEF ItemRecord, SameNames
<1>1. ASSUME NEW W \in SUBSET WatchIds
      PROVE  LET g == [f EXCEPT ![i].watch_item = W] IN
             g \in [Items -> ItemRecord] /\ SameNames(g, f)
  OBVIOUS
<1>2. ASSUME NEW t \in Nat
      PROVE  LET g == [f EXCEPT ![i].expire_time = t] IN
             g \in [Items -> ItemRecord] /\ SameNames(g, f)
  OBVIOUS
<1>3. ASSUME NEW c \in Nat, NEW W \in SUBSET WatchIds
      PROVE  LET g == [f EXCEPT ![i].cache_id = c, ![i].watch_item = W] IN
             g \in [Items -> ItemRecord] /\ SameNames(g, f)
  OBVIOUS
<1>4. ASSUME NEW c \in Nat, NEW v \in Values
      PROVE  LET g == [f EXCEPT ![i].content = v, ![i].cache_id = c] IN
             g \in [Items -> ItemRecord] /\ SameNames(g, f)
  OBVIOUS
<1>5. ASSUME NEW c \in Nat, NEW v \in Values, NEW W \in SUBSET WatchIds
      PROVE  LET g == [f EXCEPT ![i].content = v, ![i].cache_id = c, ![i].watch_item = W] IN
             g \in [Items -> ItemRecord] /\ SameNames(g, f)
  BY ZenonT(40)
<1>. HIDE DEF ItemRecord, SameNames
<1>. QED
  BY <1>1, <1>2, <1>3, <1>4, <1>5
-----------------------------------------------------------------------------
(* Counting references.                                                    *)

Count(i) == Cardinality(RefsTo(i)) + Linked(i)

LEMMA RefsToFinite ==
  ASSUME NEW i
  PROVE  /\ IsFiniteSet(RefsTo(i))
         /\ Cardinality(RefsTo(i)) \in Nat
         /\ Cardinality(RefsTo(i)) <= Cardinality(Handles)
         /\ Cardinality(Handles) \in Nat
         /\ Cardinality(RefsTo(i)) = 0 <=> RefsTo(i) = {}
<1>1. RefsTo(i) \subseteq Handles
  BY DEF RefsTo
<1>. QED
  BY <1>1, CacheMgrAssumption, FS_Subset, FS_CardinalityType, FS_EmptySet

LEMMA RefsChange ==
  ASSUME TypeOK, NEW h \in Handles, NEW x \in Items \cup {NULL}, x # ref[h],
         ref' = [ref EXCEPT ![h] = x], NEW i \in Items
  PROVE  Cardinality(RefsTo(i)') = IF i = x THEN Cardinality(RefsTo(i)) + 1
                                   ELSE IF i = ref[h] THEN Cardinality(RefsTo(i)) - 1
                                   ELSE Cardinality(RefsTo(i))
<1>1. CASE i = x
  <2>1. RefsTo(i)' = RefsTo(i) \cup {h} /\ h \notin RefsTo(i)
    BY <1>1 DEF RefsTo, TypeOK
  <2>. QED
    BY <1>1, <2>1, RefsToFinite, FS_AddElement
<1>2. CASE i # x /\ i = ref[h]
  <2>1. RefsTo(i)' = RefsTo(i) \ {h} /\ h \in RefsTo(i)
    BY <1>2 DEF RefsTo, TypeOK
  <2>. QED
    BY <1>2, <2>1, RefsToFinite, FS_RemoveElement, SMTT(30)
<1>3. CASE i # x /\ i # ref[h]
  <2>1. RefsTo(i)' = RefsTo(i)
    BY <1>3 DEF RefsTo, TypeOK
  <2>. QED
    BY <1>3, <2>1
<1>. QED
  BY <1>1, <1>2, <1>3

Counts == RefCountExact /\ AllocatedIsCounted /\ LeakBounded

LEMMA Balance ==
  ASSUME TypeOK, Counts, NoWrap,
         NEW U \in SUBSET Items, NEW A \in SUBSET Items, U \cap A = {}, References(U, A),
         \A i \in Items : Count(i)' = IF i \in U THEN Count(i) - 1
                                      ELSE IF i \in A THEN Count(i) + 1 ELSE Count(i)
  PROVE  Counts'
<1>1. ASSUME NEW i \in Items
      PROVE  /\ Count(i) \in Nat /\ Count(i)' \in Nat
             /\ Count(i)' <= Cardinality(Handles) + 1
             /\ Cardinality(Handles) \in Nat
  <2>1. Linked(i) \in 0..1 /\ Linked(i)' \in 0..1
    BY DEF Linked
  <2>2. /\ Cardinality(RefsTo(i)') \in Nat
        /\ Cardinality(RefsTo(i)') <= Cardinality(Handles)
    <3>1. RefsTo(i)' \subseteq Handles
      BY DEF RefsTo
    <3>. QED
      BY <3>1, CacheMgrAssumption, FS_Subset, FS_CardinalityType
  <2>. QED
    BY <2>1, <2>2, RefsToFinite DEF Count
<1>2. ASSUME NEW i \in Items
      PROVE  /\ ref_count'[i] = Count(i)' + leaked'[i]
             /\ i \in allocated' <=> ref_count'[i] > 0
             /\ leaked'[i] <= MaxLeak
  <2>0. /\ ref_count[i] \in 0..(RefMod - 1) /\ leaked[i] \in Nat
        /\ leaked[i] <= MaxLeak /\ ref_count[i] = Count(i) + leaked[i]
        /\ i \in allocated <=> ref_count[i] > 0
    BY DEF TypeOK, Counts, RefCountExact, AllocatedIsCounted, LeakBounded, Count
  <2>1. CASE i \in U
    <3>1. ref_count[i] >= 1 /\ Count(i)' = Count(i) - 1
      BY <1>1, <2>0, <2>1
    <3>2. ref_count'[i] = ref_count[i] - 1
      BY <3>1, <2>0, <2>1, CacheMgrAssumption DEF References
    <3>3. leaked'[i] = IF ref_count[i] = 1 THEN 0 ELSE leaked[i]
      BY <2>1 DEF References, Freed
    <3>4. i \in allocated' <=> ref_count[i] # 1
      BY <2>0, <2>1, <3>1 DEF References, Freed
    <3>. QED
      BY <1>1, <2>0, <3>1, <3>2, <3>3, <3>4, CacheMgrAssumption
  <2>2. CASE i \in A
    <3>1. i \notin U /\ Count(i)' = Count(i) + 1
      BY <2>2
    <3>2. ref_count[i] + 1 < RefMod
      BY <1>1, <2>0, <3>1, CacheMgrAssumption DEF NoWrap
    <3>3. ref_count'[i] = ref_count[i] + 1
      BY <3>1, <3>2, <2>0, <2>2, CacheMgrAssumption DEF References
    <3>4. leaked'[i] = leaked[i] /\ i \in allocated'
      BY <2>2, <3>1 DEF References, Freed
    <3>. QED
      BY <1>1, <2>0, <3>1, <3>3, <3>4
  <2>3. CASE i \notin U /\ i \notin A
    <3>1. ref_count'[i] = ref_count[i] /\ leaked'[i] = leaked[i] /\ Count(i)' = Count(i)
      BY <2>3 DEF References, Freed
    <3>2. i \in allocated' <=> i \in allocated
      BY <2>3 DEF References, Freed
    <3>. QED
      BY <2>0, <3>1, <3>2
  <2>. QED
    BY <2>1, <2>2, <2>3
<1>. QED
  BY <1>2 DEF Counts, RefCountExact, AllocatedIsCounted, LeakBounded, Count
-----------------------------------------------------------------------------
(* What the invariant says of handles, linked items and free blocks.       *)

Structure == TableAndListsAgree /\ OneItemPerKey /\ HandleShape /\ UploadPrivate /\ KeysKnown

LEMMA Parts == StoreInv <=> TypeOK /\ Counts /\ Structure
  BY DEF StoreInv, Counts, Structure

LEMMA Alive ==
  ASSUME StoreInv
  PROVE  /\ \A h \in Handles : use[h] # "idle" =>
              ref[h] \in Items /\ ref[h] \in allocated /\ item[ref[h]].key \in Keys
         /\ cache_hash_map_ \subseteq allocated
         /\ \A i \in Items : i \notin allocated => RefsTo(i) = {}
         /\ \A i \in Items : ref_count[i] = 1 =>
              /\ i \in cache_hash_map_ => RefsTo(i) = {}
              /\ \A g, h \in Handles : ref[g] = i /\ ref[h] = i => g = h
<1>0. ASSUME NEW i \in Items
      PROVE  /\ ref_count[i] = Cardinality(RefsTo(i)) + Linked(i) + leaked[i]
             /\ Cardinality(RefsTo(i)) \in Nat /\ leaked[i] \in Nat
             /\ Linked(i) = (IF i \in cache_hash_map_ THEN 1 ELSE 0)
             /\ Cardinality(RefsTo(i)) = 0 <=> RefsTo(i) = {}
             /\ i \in allocated <=> ref_count[i] > 0
  BY RefsToFinite DEF StoreInv, TypeOK, RefCountExact, AllocatedIsCounted, Linked
<1>1. cache_hash_map_ \subseteq allocated
  BY <1>0 DEF StoreInv, TypeOK
<1>2. \A i \in Items : i \notin allocated => RefsTo(i) = {}
  BY <1>0
<1>3. ASSUME NEW h \in Handles, use[h] # "idle"
      PROVE  ref[h] \in Items /\ ref[h] \in allocated /\ item[ref[h]].key \in Keys
  <2>1. ref[h] \in Items
    BY <1>3 DEF StoreInv, TypeOK, HandleShape
  <2>2. h \in RefsTo(ref[h])
    BY DEF RefsTo
  <2>. QED
    BY <1>2, <2>1, <2>2 DEF StoreInv, KeysKnown
<1>4. ASSUME NEW i \in Items, ref_count[i] = 1, i \in cache_hash_map_
      PROVE  RefsTo(i) = {}
  BY <1>0, <1>4
<1>5. ASSUME NEW i \in Items, ref_count[i] = 1, NEW g \in Handles, NEW h \in Handles,
             ref[g] = i, ref[h] = i, g # h
      PROVE  FALSE
  <2>1. {g} \subseteq RefsTo(i) \ {h} /\ h \in RefsTo(i)
    BY <1>5 DEF RefsTo
  <2>2. /\ IsFiniteSet(RefsTo(i) \ {h})
        /\ Cardinality(RefsTo(i) \ {h}) = Cardinality(RefsTo(i)) - 1
    BY <2>1, RefsToFinite, FS_RemoveElement
  <2>3. Cardinality({g}) = 1 /\ Cardinality({g}) <= Cardinality(RefsTo(i) \ {h})
    BY <2>1, <2>2, FS_Subset, FS_Singleton
  <2>. QED
    BY <1>0, <1>5, <2>2, <2>3 DEF Linked
<1>. QED
  BY <1>1, <1>2, <1>3, <1>4, <1>5

LEMMA StillLinked ==
  ASSUME StoreInv, NEW i \in Items
  PROVE  Cardinality(RefsTo(i)) \in Nat /\ Linked(i) \in 0..1 /\ Linked(i)' \in 0..1
         /\ (Linked(i) = 1 <=> i \in cache_hash_map_)
         /\ (Linked(i)' = 1 <=> i \in cache_hash_map_')
  BY RefsToFinite DEF Linked
-----------------------------------------------------------------------------
(* The shapes a step can have.                                             *)

LEMMA LinkStep ==
  ASSUME StoreInv, NoWrap,
         NEW U \in SUBSET cache_hash_map_, NEW i \in Items \ cache_hash_map_, NEW l \in Lists,
         References(U, {i}), Links(U, {i}, l), UNCHANGED ref,
         item'[i].expiration_id = l, item'[i].key \in Keys,
         \A j \in Items : j # i /\ j \notin Freed(U) =>
              item'[j].key = item[j].key /\ item'[j].expiration_id = item[j].expiration_id,
         \A j \in cache_hash_map_ \ U : item[j].key # item'[i].key,
         \A g \in Handles : /\ use'[g] = "idle" <=> use[g] = "idle"
                            /\ use'[g] = "upload" => use[g] = "upload" /\ ref[g] # i
  PROVE  Counts' /\ Structure'
<1>0. /\ cache_hash_map_ \subseteq Items /\ U \subseteq Items
      /\ Freed(U) \subseteq U
      /\ cache_hash_map_' = (cache_hash_map_ \ U) \cup {i}
      /\ allocated' = (allocated \ Freed(U)) \cup {i}
  BY DEF StoreInv, TypeOK, Freed, Links, References
<1>1. Counts'
  <2>1. ASSUME NEW j \in Items
        PROVE  Count(j)' = IF j \in U THEN Count(j) - 1
                           ELSE IF j \in {i} THEN Count(j) + 1 ELSE Count(j)
    <3>1. RefsTo(j)' = RefsTo(j)
      BY DEF RefsTo
    <3>. QED
      BY <1>0, <3>1, StillLinked DEF Count
  <2>. QED
    BY <1>0, <2>1, Balance, Parts
<1>2. TableAndListsAgree'
  <2>1. ASSUME NEW j \in Items, NEW x \in Lists
        PROVE  j \in expire_list_'[x] <=> j \in cache_hash_map_' /\ item'[j].expiration_id = x
    <3>1. j \in expire_list_[x] <=> j \in cache_hash_map_ /\ item[j].expiration_id = x
      BY DEF StoreInv, TableAndListsAgree
    <3>2. j \in expire_list_'[x] <=> \/ j \in expire_list_[x] /\ (j \in U => item[j].expiration_id # x)
                                     \/ x = l /\ j = i
      BY DEF Links
    <3>. QED
      BY <1>0, <3>1, <3>2
  <2>. QED
    BY <2>1 DEF TableAndListsAgree
<1>3. OneItemPerKey'
  BY <1>0 DEF StoreInv, OneItemPerKey
<1>4. HandleShape' /\ UploadPrivate'
  BY <1>0 DEF StoreInv, HandleShape, UploadPrivate
<1>5. KeysKnown'
  BY <1>0 DEF StoreInv, TypeOK, KeysKnown
<1>. QED
  BY <1>1, <1>2, <1>3, <1>4, <1>5 DEF Structure

LEMMA UnlinkStep ==
  ASSUME StoreInv, NoWrap, NEW U \in SUBSET cache_hash_map_, NEW live,
         Unlink(U, live), UNCHANGED <<ref, use>>
  PROVE  Counts' /\ Structure'
<1>0. /\ cache_hash_map_ \subseteq Items /\ U \subseteq Items
      /\ Freed(U) \subseteq U
      /\ References(U, {})
      /\ cache_hash_map_' = cache_hash_map_ \ U
      /\ allocated' = allocated \ Freed(U)
  BY DEF StoreInv, TypeOK, Freed, Links, References, Unlink
<1>1. Counts'
  <2>1. ASSUME NEW j \in Items
        PROVE  Count(j)' = IF j \in U THEN Count(j) - 1
                           ELSE IF j \in {} THEN Count(j) + 1 ELSE Count(j)
    <3>1. RefsTo(j)' = RefsTo(j)
      BY DEF RefsTo
    <3>. QED
      BY <1>0, <3>1, StillLinked DEF Count
  <2>. QED
    BY <1>0, <2>1, Balance, Parts
<1>2. \A j \in Items : j \notin Freed(U) =>
          item'[j].key = item[j].key /\ item'[j].expiration_id = item[j].expiration_id
  BY DEF StoreInv, TypeOK, ItemRecord, Unlink, ItemsAfter
<1>3. TableAndListsAgree'
  <2>1. ASSUME NEW j \in Items, NEW x \in Lists
        PROVE  j \in expire_list_'[x] <=> j \in cache_hash_map_' /\ item'[j].expiration_id = x
    <3>1. j \in expire_list_[x] <=> j \in cache_hash_map_ /\ item[j].expiration_id = x
      BY DEF StoreInv, TableAndListsAgree
    <3>2. j \in expire_list_'[x] <=> j \in expire_list_[x] /\ (j \in U => item[j].expiration_id # x)
      BY DEF Links, Unlink
    <3>. QED
      BY <1>0, <1>2, <3>1, <3>2
  <2>. QED
    BY <2>1 DEF TableAndListsAgree
<1>4. OneItemPerKey'
  BY <1>0, <1>2 DEF StoreInv, OneItemPerKey
<1>5. HandleShape' /\ UploadPrivate'
  BY <1>0 DEF StoreInv, HandleShape, UploadPrivate
<1>6. KeysKnown'
  BY <1>0, <1>2 DEF StoreInv, TypeOK, KeysKnown
<1>. QED
  BY <1>1, <1>3, <1>4, <1>5, <1>6 DEF Structure

LEMMA HoldStep ==
  ASSUME StoreInv, NoWrap, NEW h \in Handles, use[h] = "idle",
         NEW it \in cache_hash_map_, References({}, {it}),
         NEW w, Hold(h, it, "got", w),
         UNCHANGED <<cache_hash_map_, expire_list_>>, SameNames(item', item)
  PROVE  Counts' /\ Structure'
<1>0. /\ it \in Items /\ cache_hash_map_ \subseteq Items /\ allocated' = allocated \cup {it}
      /\ ref[h] = NULL /\ NULL \notin Items /\ it \in allocated
      /\ ref' = [ref EXCEPT ![h] = it] /\ use' = [use EXCEPT ![h] = "got"]
      /\ Freed({}) = {}
  BY CacheMgrAssumption, Alive DEF StoreInv, TypeOK, References, HandleShape, Hold, Freed
<1>1. Counts'
  <2>1. ASSUME NEW j \in Items
        PROVE  Count(j)' = IF j \in {} THEN Count(j) - 1
                           ELSE IF j \in {it} THEN Count(j) + 1 ELSE Count(j)
    <3>1. Cardinality(RefsTo(j)') = IF j = it THEN Cardinality(RefsTo(j)) + 1
                                    ELSE Cardinality(RefsTo(j))
      BY <1>0, RefsChange DEF StoreInv
    <3>. QED
      BY <1>0, <3>1, StillLinked DEF Count, Linked
  <2>. QED
    BY <1>0, <2>1, Balance, Parts
<1>2. TableAndListsAgree' /\ OneItemPerKey' /\ KeysKnown'
  BY <1>0 DEF StoreInv, TypeOK, TableAndListsAgree, OneItemPerKey, KeysKnown, SameNames
<1>3. HandleShape' /\ UploadPrivate'
  BY <1>0 DEF StoreInv, TypeOK, HandleShape, UploadPrivate
<1>. QED
  BY <1>1, <1>2, <1>3 DEF Structure

LEMMA AllocStep ==
  ASSUME StoreInv, NoWrap, NEW h \in Handles, use[h] = "idle",
         NEW i \in Items \ allocated, References({}, {i}), Hold(h, i, "upload", 0),
         UNCHANGED <<cache_hash_map_, expire_list_>>,
         item'[i].key \in Keys, \A j \in Items \ {i} : item'[j] = item[j]
  PROVE  Counts' /\ Structure'
<1>0. /\ i \in Items /\ cache_hash_map_ \subseteq Items /\ allocated' = allocated \cup {i}
      /\ ref[h] = NULL /\ NULL \notin Items /\ i \notin cache_hash_map_ /\ RefsTo(i) = {}
      /\ ref' = [ref EXCEPT ![h] = i] /\ use' = [use EXCEPT ![h] = "upload"]
      /\ cache_hash_map_ \subseteq allocated
  BY CacheMgrAssumption, Alive DEF StoreInv, TypeOK, References, HandleShape, Hold, Freed
<1>1. Counts'
  <2>1. ASSUME NEW j \in Items
        PROVE  Count(j)' = IF j \in {} THEN Count(j) - 1
                           ELSE IF j \in {i} THEN Count(j) + 1 ELSE Count(j)
    <3>1. Cardinality(RefsTo(j)') = IF j = i THEN Cardinality(RefsTo(j)) + 1
                                    ELSE Cardinality(RefsTo(j))
      <4>1. TypeOK /\ i \in Items \cup {NULL} /\ i # ref[h] /\ j # ref[h]
        BY <1>0 DEF StoreInv
      <4>. QED
        BY <4>1, <1>0, RefsChange
    <3>. QED
      BY <1>0, <3>1, StillLinked DEF Count, Linked
  <2>. QED
    BY <1>0, <2>1, Balance, Parts
<1>2. TableAndListsAgree' /\ OneItemPerKey'
  BY <1>0 DEF StoreInv, TypeOK, TableAndListsAgree, OneItemPerKey
<1>3. KeysKnown'
  BY <1>0 DEF StoreInv, TypeOK, KeysKnown
<1>4. HandleShape' /\ UploadPrivate'
  BY <1>0 DEF StoreInv, TypeOK, HandleShape, UploadPrivate, RefsTo
<1>. QED
  BY <1>1, <1>2, <1>3, <1>4 DEF Structure

LEMMA DropStep ==
  ASSUME StoreInv, NoWrap, NEW h \in Handles, use[h] # "idle",
         NEW x \in cache_hash_map_ \cup {NULL}, x # ref[h], NEW u \in Uses \ {"upload"},
         NEW w, u = "idle" <=> x = NULL, References({ref[h]}, {x} \ {NULL}), Hold(h, x, u, w),
         UNCHANGED <<cache_hash_map_, expire_list_>>,
         \A j \in Items \ Freed({ref[h]}) : /\ item'[j].key = item[j].key
                                            /\ item'[j].expiration_id = item[j].expiration_id
  PROVE  Counts' /\ Structure'
<1> DEFINE F == Freed({ref[h]})
           A == {x} \ {NULL}
<1>0. /\ ref[h] \in Items /\ cache_hash_map_ \subseteq Items /\ allocated' = (allocated \ F) \cup A
      /\ NULL \notin Items /\ A \subseteq cache_hash_map_
      /\ ref' = [ref EXCEPT ![h] = x] /\ use' = [use EXCEPT ![h] = u]
      /\ cache_hash_map_ \subseteq allocated
      /\ {ref[h]} \cap A = {}
  BY CacheMgrAssumption, Alive DEF StoreInv, TypeOK, References, Hold
<1>1. Counts'
  <2>1. ASSUME NEW j \in Items
        PROVE  Count(j)' = IF j \in {ref[h]} THEN Count(j) - 1
                           ELSE IF j \in A THEN Count(j) + 1 ELSE Count(j)
    <3>1. Cardinality(RefsTo(j)') = IF j = x THEN Cardinality(RefsTo(j)) + 1
                                    ELSE IF j = ref[h] THEN Cardinality(RefsTo(j)) - 1
                                    ELSE Cardinality(RefsTo(j))
      <4>1. TypeOK /\ x \in Items \cup {NULL}
        BY <1>0 DEF StoreInv
      <4>2. ref' = [ref EXCEPT ![h] = x]
        BY <1>0
      <4>. HIDE DEF F, A
      <4>. QED
        BY <4>1, <4>2, RefsChange, ZenonT(60)
    <3>. QED
      BY <1>0, <3>1, StillLinked DEF Count, Linked
  <2>. QED
    BY <1>0, <2>1, Balance, Parts
<1>2. F \cap cache_hash_map_ = {}
  BY <1>0, Alive DEF Freed, RefsTo
<1>. HIDE DEF F, A
<1>3. \A j \in cache_hash_map_ : /\ item'[j].key = item[j].key
                                /\ item'[j].expiration_id = item[j].expiration_id
  BY <1>0, <1>2 DEF F
<1>3a. TableAndListsAgree'
  <2>1. ASSUME NEW j \in Items, NEW l \in Lists
        PROVE  j \in expire_list_[l] <=> j \in cache_hash_map_ /\ item'[j].expiration_id = l
    BY <1>0, <1>3 DEF StoreInv, TableAndListsAgree
  <2>. QED
    BY <2>1 DEF TableAndListsAgree
<1>3b. OneItemPerKey'
  BY <1>3 DEF StoreInv, OneItemPerKey
<1>4. KeysKnown'
  BY <1>0, <1>2, <1>3 DEF StoreInv, TypeOK, KeysKnown, F
<1>5. HandleShape' /\ UploadPrivate'
  BY <1>0 DEF StoreInv, TypeOK, HandleShape, UploadPrivate
<1>. QED
  BY <1>1, <1>3a, <1>3b, <1>4, <1>5 DEF Structure

LEMMA LoseStep ==
  ASSUME StoreInv, NoWrap, NEW it \in cache_hash_map_, LoseReference(it), UNCHANGED ref,
         \A g \in Handles : /\ use'[g] = "idle" <=> use[g] = "idle"
                            /\ use'[g] = "upload" => use[g] = "upload"
  PROVE  Counts' /\ Structure'
<1>0. /\ it \in Items /\ UNCHANGED <<allocated, item, cache_hash_map_, expire_list_>>
      /\ leaked[it] < MaxLeak
      /\ ref_count' = [ref_count EXCEPT ![it] = (ref_count[it] + 1) % RefMod]
      /\ leaked' = [leaked EXCEPT ![it] = leaked[it] + 1]
      /\ it \in allocated
  BY Alive DEF StoreInv, TypeOK, LoseReference
<1>1. ASSUME NEW j \in Items
      PROVE  /\ ref_count'[j] = Cardinality(RefsTo(j)') + Linked(j)' + leaked'[j]
             /\ j \in allocated' <=> ref_count'[j] > 0
             /\ leaked'[j] <= MaxLeak
  <2>1. /\ ref_count[j] = Cardinality(RefsTo(j)) + Linked(j) + leaked[j]
        /\ Cardinality(RefsTo(j)) \in Nat /\ Cardinality(RefsTo(j)) <= Cardinality(Handles)
        /\ Cardinality(Handles) \in Nat /\ Linked(j) \in 0..1 /\ leaked[j] \in Nat
        /\ leaked[j] <= MaxLeak /\ j \in allocated <=> ref_count[j] > 0
    BY RefsToFinite DEF StoreInv, TypeOK, RefCountExact, AllocatedIsCounted, LeakBounded, Linked
  <2>2. RefsTo(j)' = RefsTo(j) /\ Linked(j)' = Linked(j)
    BY <1>0 DEF RefsTo, Linked
  <2>3. ref_count'[j] = IF j = it THEN (ref_count[j] + 1) % RefMod ELSE ref_count[j]
    BY <1>0 DEF StoreInv, TypeOK
  <2>4. leaked'[j] = IF j = it THEN leaked[j] + 1 ELSE leaked[j]
    BY <1>0 DEF StoreInv, TypeOK
  <2>5. j = it => ref_count[j] + 1 \in 0..(RefMod - 1)
    BY <1>0, <2>1, CacheMgrAssumption DEF NoWrap
  <2>6. j = it => (ref_count[j] + 1) % RefMod = ref_count[j] + 1
    BY <2>5, CacheMgrAssumption
  <2>. QED
    BY <1>0, <2>1, <2>2, <2>3, <2>4, <2>6, CacheMgrAssumption
<1>2. Counts'
  BY <1>1 DEF Counts, RefCountExact, AllocatedIsCounted, LeakBounded
<1>3. Structure'
  BY <1>0 DEF StoreInv, Structure, TableAndListsAgree, OneItemPerKey, HandleShape,
              UploadPrivate, KeysKnown
<1>. QED
  BY <1>2, <1>3

LEMMA FieldStep ==
  ASSUME StoreInv, NoWrap, UNCHANGED <<allocated, ref_count, leaked, cache_hash_map_, ref>>,
         \A j \in Items : item'[j].key = item[j].key,
         \/ UNCHANGED expire_list_ /\ SameNames(item', item)
         \/ TableAndListsAgree',
         \A g \in Handles : /\ use'[g] = "idle" <=> use[g] = "idle"
                            /\ use'[g] = "upload" => use[g] = "upload"
  PROVE  Counts' /\ Structure'
<1>1. Counts'
  BY DEF StoreInv, Counts, RefCountExact, AllocatedIsCounted, LeakBounded, RefsTo, Linked
<1>2. TableAndListsAgree'
  BY DEF StoreInv, TableAndListsAgree, SameNames
<1>3. OneItemPerKey' /\ KeysKnown'
  BY DEF StoreInv, TypeOK, OneItemPerKey, KeysKnown
<1>4. HandleShape' /\ UploadPrivate'
  BY DEF StoreInv, HandleShape, UploadPrivate
<1>. QED
  BY <1>1, <1>2, <1>3, <1>4 DEF Structure
-----------------------------------------------------------------------------
(* One lemma per action: it preserves StoreInv.                            *)

LEMMA FindType ==
  ASSUME StoreInv, NEW k \in Keys
  PROVE  /\ find(k) \subseteq cache_hash_map_ /\ cache_hash_map_ \subseteq Items
         /\ \A i \in find(k) : item[i].key = k /\ i \in allocated
         /\ \A i \in find(k), j \in cache_hash_map_ : item[j].key = k => j = i
  BY Alive DEF StoreInv, TypeOK, OneItemPerKey, find

LEMMA AllocItem ==
  ASSUME StoreInv, NoWrap, NEW h \in Handles, NEW k \in Keys, NEW v \in Values,
         NEW e \in Expirations, alloc_item(h, k, v, e)
  PROVE  StoreInv'
<1> DEFINE r == [Blank EXCEPT !.key = k, !.content = v, !.expire_time = realtime(e),
                    !.expiration_id = get_expiration_id(realtime(e))]
<1>1. PICK i \in Items \ allocated :
          /\ References({}, {i})
          /\ item' = [item EXCEPT ![i] = r]
          /\ Hold(h, i, "upload", 0)
  BY DEF alloc_item
<1>2. r.key = k
  BY DEF Blank
<1>3. item'[i].key \in Keys /\ \A j \in Items \ {i} : item'[j] = item[j]
  BY <1>1, <1>2 DEF StoreInv, TypeOK
<1>4. use[h] = "idle" /\ UNCHANGED <<cache_hash_map_, expire_list_>>
  BY DEF alloc_item
<1>5. Counts' /\ Structure'
  BY <1>1, <1>3, <1>4, AllocStep
<1>. QED
  BY <1>5, AllocType DEF StoreInv, Counts, Structure

LEMMA Abandon ==
  ASSUME StoreInv, NoWrap, NEW h \in Handles, abandon(h)
  PROVE  StoreInv'
<1>0. /\ UNCHANGED <<allocated, item, ref_count, cache_hash_map_, expire_list_,
                     last_cache_id_, watch_map_, watch_expire, last_watch_id_, notified,
                     curr_time, last_check_expired_time_, seen>>
      /\ use[h] = "upload" /\ ref[h] \in Items /\ leaked[ref[h]] < MaxLeak
      /\ leaked' = [leaked EXCEPT ![ref[h]] = leaked[ref[h]] + 1]
      /\ Hold(h, NULL, "idle", 0) /\ ref[h] # NULL
  BY Alive, CacheMgrAssumption DEF abandon, watchVars, timeVars
<1>1. TypeOK'
  <2>1. /\ ref' \in [Handles -> Items \cup {NULL}]
        /\ use' \in [Handles -> Uses]
        /\ wid' \in [Handles -> 0..MaxWatch]
    BY <1>0, HandleTypes, CacheMgrAssumption DEF WatchArgs, StoreInv
  <2>2. leaked' \in [Items -> Nat]
    BY <1>0 DEF StoreInv, TypeOK
  <2>. QED
    BY <1>0, <2>1, <2>2 DEF StoreInv, TypeOK
<1>2. ASSUME NEW j \in Items
      PROVE  /\ ref_count'[j] = Cardinality(RefsTo(j)') + Linked(j)' + leaked'[j]
             /\ leaked'[j] <= MaxLeak
  <2>1. TypeOK /\ ref' = [ref EXCEPT ![h] = NULL] /\ j # NULL
    BY <1>0, CacheMgrAssumption DEF StoreInv, Hold
  <2>2. Cardinality(RefsTo(j)') = IF j = ref[h] THEN Cardinality(RefsTo(j)) - 1
                                  ELSE Cardinality(RefsTo(j))
    BY <1>0, <2>1, RefsChange
  <2>3. leaked'[j] = IF j = ref[h] THEN leaked[j] + 1 ELSE leaked[j]
    BY <1>0 DEF StoreInv, TypeOK
  <2>4. /\ ref_count[j] = Cardinality(RefsTo(j)) + Linked(j) + leaked[j]
        /\ leaked[j] <= MaxLeak /\ leaked[j] \in Nat
        /\ Cardinality(RefsTo(j)) \in Nat /\ Linked(j) \in 0..1
        /\ ref_count'[j] = ref_count[j] /\ Linked(j)' = Linked(j)
    BY <1>0, RefsToFinite DEF StoreInv, TypeOK, RefCountExact, LeakBounded, Linked
  <2>. QED
    BY <1>0, <2>2, <2>3, <2>4, CacheMgrAssumption
<1>3. Counts'
  BY <1>0, <1>2 DEF StoreInv, Counts, RefCountExact, AllocatedIsCounted, LeakBounded
<1>4. Structure'
  BY <1>0 DEF StoreInv, TypeOK, Hold, Structure, TableAndListsAgree, OneItemPerKey,
              HandleShape, UploadPrivate, KeysKnown
<1>. QED
  BY <1>1, <1>3, <1>4 DEF StoreInv, Counts, Structure

LEMMA ReleaseReference ==
  ASSUME StoreInv, NoWrap, NEW h \in Handles, release_reference(h)
  PROVE  StoreInv'
<1>0. /\ UNCHANGED <<cache_hash_map_, expire_list_, last_cache_id_, watch_map_, watch_expire,
                     last_watch_id_, notified, curr_time, last_check_expired_time_, seen>>
      /\ use[h] = "done" /\ ref[h] \in Items /\ References({ref[h]}, {})
      /\ item' = [i \in Items |-> IF i \in Freed({ref[h]}) THEN Blank ELSE item[i]]
      /\ Hold(h, NULL, "idle", 0) /\ ref[h] # NULL /\ {NULL} \ {NULL} = {}
  BY Alive, CacheMgrAssumption DEF release_reference, watchVars, timeVars
<1>1. TypeOK'
  <2>1. /\ ref' \in [Handles -> Items \cup {NULL}]
        /\ use' \in [Handles -> Uses]
        /\ wid' \in [Handles -> 0..MaxWatch]
    BY <1>0, HandleTypes, CacheMgrAssumption DEF WatchArgs, StoreInv
  <2>2. item' \in [Items -> ItemRecord]
    BY <1>0, BlankType DEF StoreInv, TypeOK
  <2>3. /\ ref_count' \in [Items -> 0..(RefMod - 1)]
        /\ allocated' \subseteq Items
        /\ leaked' \in [Items -> Nat]
    BY <1>0, ReferencesType DEF StoreInv
  <2>. QED
    BY <1>0, <2>1, <2>2, <2>3 DEF StoreInv, TypeOK
<1>2. Counts' /\ Structure'
  <2>1. \A j \in Items \ Freed({ref[h]}) : item'[j] = item[j]
    BY <1>0
  <2>. QED
    BY <1>0, <2>1, DropStep
<1>. QED
  BY <1>1, <1>2 DEF StoreInv, Counts, Structure

LEMMA Get ==
  ASSUME StoreInv, NoWrap, NEW h \in Handles, NEW k \in Keys, NEW w \in WatchArgs, get(h, k, w)
  PROVE  StoreInv'
<1>0. /\ use[h] = "idle"
      /\ UNCHANGED <<watch_map_, watch_expire, last_watch_id_, curr_time,
                     last_check_expired_time_, seen>>
  BY DEF get, timeVars
<1>1. PICK it \in find(k) :
          \/ /\ References({}, {it})
             /\ item' = [item EXCEPT ![it].watch_item = item[it].watch_item \cup AsSet(w)]
             /\ Hold(h, it, "got", w)
             /\ UNCHANGED <<cache_hash_map_, expire_list_, last_cache_id_, notified>>
          \/ /\ Unlink({it}, watch_map_)
             /\ UNCHANGED <<ref, use, wid>>
  BY DEF get, handleVars
<1>2. it \in cache_hash_map_ /\ it \in Items /\ TypeOK
  BY FindType DEF StoreInv
<1>3. CASE /\ References({}, {it})
           /\ item' = [item EXCEPT ![it].watch_item = item[it].watch_item \cup AsSet(w)]
           /\ Hold(h, it, "got", w)
           /\ UNCHANGED <<cache_hash_map_, expire_list_, last_cache_id_, notified>>
  <2>1. item[it].watch_item \cup AsSet(w) \in SUBSET WatchIds
    BY <1>2, HelperTypes DEF TypeOK, ItemRecord
  <2>2. item' \in [Items -> ItemRecord] /\ SameNames(item', item)
    BY <1>2, <1>3, <2>1, FieldUpdates DEF TypeOK
  <2>3. Counts' /\ Structure'
    BY <1>0, <1>2, <1>3, <2>2, HoldStep
  <2>4. TypeOK'
    BY <1>0, <1>2, <1>3, <2>2, HandleTypes, ReferencesType DEF TypeOK
  <2>. QED
    BY <2>3, <2>4 DEF StoreInv, Counts, Structure
<1>4. CASE Unlink({it}, watch_map_) /\ UNCHANGED <<ref, use, wid>>
  <2>1. Counts' /\ Structure'
    BY <1>2, <1>4, UnlinkStep
  <2>2. TypeOK'
    BY <1>0, <1>2, <1>4, UnlinkType DEF TypeOK
  <2>. QED
    BY <2>1, <2>2 DEF StoreInv, Counts, Structure
<1>. QED
  BY <1>1, <1>3, <1>4

LEMMA GetTouch ==
  ASSUME StoreInv, NoWrap, NEW h \in Handles, NEW k \in Keys, NEW w \in WatchArgs,
         NEW e \in Expirations, get_touch(h, k, w, e)
  PROVE  StoreInv'
<1>0. /\ use[h] = "idle"
      /\ UNCHANGED <<cache_hash_map_, expire_list_, last_cache_id_, watch_map_, watch_expire,
                     last_watch_id_, notified, curr_time, last_check_expired_time_, seen>>
  BY DEF get_touch, watchVars, timeVars
<1>1. PICK it \in find(k) :
          LET touched == [item EXCEPT ![it].expire_time = realtime(e)] IN
          \/ /\ References({}, {it})
             /\ item' = [touched EXCEPT ![it].watch_item = touched[it].watch_item \cup AsSet(w)]
             /\ Hold(h, it, "got", w)
          \/ /\ item' = touched
             /\ UNCHANGED <<allocated, ref_count, leaked, ref, use, wid>>
  BY DEF get_touch, handleVars
<1> DEFINE touched == [item EXCEPT ![it].expire_time = realtime(e)]
<1>2. it \in cache_hash_map_ /\ it \in Items /\ TypeOK
  BY FindType DEF StoreInv
<1>3. touched \in [Items -> ItemRecord] /\ SameNames(touched, item)
  BY <1>2, HelperTypes, FieldUpdates DEF TypeOK
<1>. HIDE DEF touched
<1>4. CASE /\ References({}, {it})
           /\ item' = [touched EXCEPT ![it].watch_item = touched[it].watch_item \cup AsSet(w)]
           /\ Hold(h, it, "got", w)
  <2>1. touched[it].watch_item \cup AsSet(w) \in SUBSET WatchIds
    BY <1>2, <1>3, HelperTypes DEF ItemRecord
  <2>2. item' \in [Items -> ItemRecord] /\ SameNames(item', touched)
    BY <1>2, <1>3, <1>4, <2>1, FieldUpdates
  <2>3. SameNames(item', item)
    BY <1>3, <2>2 DEF SameNames
  <2>4. Counts' /\ Structure'
    BY <1>0, <1>2, <1>4, <2>3, HoldStep
  <2>5. TypeOK'
    BY <1>0, <1>2, <1>4, <2>2, HandleTypes, ReferencesType DEF TypeOK
  <2>. QED
    BY <2>4, <2>5 DEF StoreInv, Counts, Structure
<1>5. CASE item' = touched /\ UNCHANGED <<allocated, ref_count, leaked, ref, use, wid>>
  <2>1. Counts' /\ Structure'
    BY <1>0, <1>3, <1>5, FieldStep DEF SameNames
  <2>2. TypeOK'
    BY <1>0, <1>2, <1>3, <1>5 DEF TypeOK
  <2>. QED
    BY <2>1, <2>2 DEF StoreInv, Counts, Structure
<1>. QED
  BY <1>1, <1>4, <1>5 DEF touched

LEMMA EncodeReply ==
  ASSUME StoreInv, NoWrap, NEW h \in Handles, encode_reply(h)
  PROVE  StoreInv'
<1> DEFINE op == IF use[h] = "got" THEN "get" ELSE "load"
<1>0. /\ use[h] \in {"got", "loaded"} /\ Finish(h)
      /\ Tell(wid[h], item[ref[h]].key, item[ref[h]].cache_id, op)
      /\ UNCHANGED <<allocated, item, ref_count, cache_hash_map_, expire_list_, last_cache_id_,
                     leaked, watch_map_, watch_expire, last_watch_id_, notified,
                     curr_time, last_check_expired_time_>>
  BY DEF encode_reply, watchVars, timeVars, storeVars
<1>1. /\ ref[h] \in Items /\ item[ref[h]].key \in Keys /\ item[ref[h]].cache_id \in Nat
      /\ wid[h] \in WatchArgs /\ op \in Ops /\ TypeOK
  BY <1>0, Alive DEF StoreInv, TypeOK, ItemRecord, WatchArgs
<1>. HIDE DEF op
<1>2. seen' \subseteq [watch: WatchIds, key: Keys, id: Nat, op: Ops]
  BY <1>0, <1>1, TellType
<1>3. TypeOK'
  <2>1. /\ ref' \in [Handles -> Items \cup {NULL}]
        /\ use' \in [Handles -> Uses]
        /\ wid' \in [Handles -> 0..MaxWatch]
    BY <1>0, <1>1, CacheMgrAssumption DEF Finish, TypeOK
  <2>. QED
    BY <1>0, <1>1, <1>2, <2>1 DEF TypeOK
<1>4. Counts' /\ Structure'
  <2>1. UNCHANGED ref /\ \A g \in Handles : /\ use'[g] = "idle" <=> use[g] = "idle"
                                            /\ use'[g] = "upload" => use[g] = "upload"
    BY <1>0, <1>1 DEF Finish, TypeOK
  <2>. QED
    BY <1>0, <2>1, FieldStep DEF SameNames
<1>. QED
  BY <1>3, <1>4 DEF StoreInv, Counts, Structure

LEMMA UpdateFlags ==
  ASSUME StoreInv, NoWrap, NEW k \in Keys, NEW cid, NEW v \in Values, update_flags(k, cid, v)
  PROVE  StoreInv'
<1>0. UNCHANGED <<ref, use, wid, watch_map_, watch_expire, last_watch_id_,
                  curr_time, last_check_expired_time_, seen>>
  BY DEF update_flags, handleVars, timeVars
<1>1. PICK it \in find(k) :
          \/ /\ Notify({it}, watch_map_)
             /\ item' = [item EXCEPT ![it].content = v, ![it].cache_id = get_cache_id,
                                     ![it].watch_item = item[it].watch_item \cap watch_map_]
             /\ last_cache_id_' = get_cache_id
             /\ UNCHANGED <<allocated, ref_count, leaked, cache_hash_map_, expire_list_>>
          \/ LoseReference(it) /\ UNCHANGED notified
  BY DEF update_flags
<1>2. it \in cache_hash_map_ /\ it \in Items /\ TypeOK
  BY FindType DEF StoreInv
<1>3. CASE /\ Notify({it}, watch_map_)
           /\ item' = [item EXCEPT ![it].content = v, ![it].cache_id = get_cache_id,
                                   ![it].watch_item = item[it].watch_item \cap watch_map_]
           /\ last_cache_id_' = get_cache_id
           /\ UNCHANGED <<allocated, ref_count, leaked, cache_hash_map_, expire_list_>>
  <2>1. item[it].watch_item \cap watch_map_ \in SUBSET WatchIds /\ get_cache_id \in Nat
    BY <1>2, HelperTypes DEF TypeOK
  <2>2. item' \in [Items -> ItemRecord] /\ SameNames(item', item)
    BY <1>2, <1>3, <2>1, FieldUpdates DEF TypeOK
  <2>3. notified' \in [WatchIds -> SUBSET Nat]
    BY <1>2, <1>3, NotifyType
  <2>4. TypeOK'
    BY <1>0, <1>2, <1>3, <2>1, <2>2, <2>3 DEF TypeOK
  <2>5. Counts' /\ Structure'
    BY <1>0, <1>3, <2>2, FieldStep DEF SameNames
  <2>. QED
    BY <2>4, <2>5 DEF StoreInv, Counts, Structure
<1>4. CASE LoseReference(it) /\ UNCHANGED notified
  <2>1. Counts' /\ Structure'
    BY <1>0, <1>2, <1>4, LoseStep
  <2>2. TypeOK'
    BY <1>0, <1>2, <1>4, LoseType DEF TypeOK
  <2>. QED
    BY <2>1, <2>2 DEF StoreInv, Counts, Structure
<1>. QED
  BY <1>1, <1>3, <1>4

LEMMA UpdateExpiration ==
  ASSUME StoreInv, NoWrap, NEW k \in Keys, NEW cid, NEW e \in Expirations,
         update_expiration(k, cid, e)
  PROVE  StoreInv'
<1> DEFINE l == get_expiration_id(realtime(e))
           t == realtime(e)
<1>0. UNCHANGED <<ref, use, wid, watch_map_, watch_expire, last_watch_id_, notified,
                  curr_time, last_check_expired_time_, seen>>
  BY DEF update_expiration, handleVars, watchVars, timeVars
<1>1. PICK it \in find(k) :
          \/ /\ expire_list_' = [x \in Lists |->
                   (expire_list_[x] \ (IF x = item[it].expiration_id THEN {it} ELSE {}))
                       \cup (IF x = l THEN {it} ELSE {})]
             /\ item' = [item EXCEPT ![it].expiration_id = l, ![it].expire_time = t]
             /\ UNCHANGED <<allocated, ref_count, leaked, cache_hash_map_, last_cache_id_>>
          \/ LoseReference(it)
  BY DEF update_expiration
<1>2. it \in cache_hash_map_ /\ it \in Items /\ TypeOK
  BY FindType DEF StoreInv
<1>2a. l \in Lists /\ t \in Nat
  BY <1>2, HelperTypes
<1>. HIDE DEF l, t
<1>3. CASE /\ expire_list_' = [x \in Lists |->
                 (expire_list_[x] \ (IF x = item[it].expiration_id THEN {it} ELSE {}))
                     \cup (IF x = l THEN {it} ELSE {})]
           /\ item' = [item EXCEPT ![it].expiration_id = l, ![it].expire_time = t]
           /\ UNCHANGED <<allocated, ref_count, leaked, cache_hash_map_, last_cache_id_>>
  <2>1. /\ item' \in [Items -> ItemRecord]
        /\ \A j \in Items : /\ item'[j].key = item[j].key
                            /\ item'[j].expiration_id = IF j = it THEN l ELSE item[j].expiration_id
    <3>1. item \in [Items -> ItemRecord] /\ it \in Items
      BY <1>2 DEF TypeOK
    <3>2. item' = [item EXCEPT ![it].expiration_id = l, ![it].expire_time = t]
      BY <1>3
    <3>. QED
      BY <1>2a, <3>1, <3>2, ZenonT(40) DEF ItemRecord
  <2>2. TypeOK'
    <3>1. expire_list_' \in [Lists -> SUBSET Items]
      BY <1>2, <1>3 DEF TypeOK
    <3>. QED
      BY <1>0, <1>2, <1>3, <2>1, <3>1 DEF TypeOK
  <2>3. TableAndListsAgree'
    <3>1. ASSUME NEW j \in Items, NEW x \in Lists
          PROVE  j \in expire_list_'[x] <=> j \in cache_hash_map_' /\ item'[j].expiration_id = x
      <4>1. j \in expire_list_[x] <=> j \in cache_hash_map_ /\ item[j].expiration_id = x
        BY DEF StoreInv, TableAndListsAgree
      <4>. QED
        BY <1>2, <1>3, <2>1, <4>1
    <3>. QED
      BY <3>1 DEF TableAndListsAgree
  <2>4. Counts' /\ Structure'
    BY <1>0, <1>3, <2>1, <2>3, FieldStep
  <2>. QED
    BY <2>2, <2>4 DEF StoreInv, Counts, Structure
<1>4. CASE LoseReference(it)
  <2>1. Counts' /\ Structure'
    BY <1>0, <1>2, <1>4, LoseStep
  <2>2. TypeOK'
    BY <1>0, <1>2, <1>4, LoseType DEF TypeOK
  <2>. QED
    BY <2>1, <2>2 DEF StoreInv, Counts, Structure
<1>. QED
  BY <1>1, <1>3, <1>4

LEMMA Remove ==
  ASSUME StoreInv, NoWrap, NEW k \in Keys, NEW cid, remove(k, cid)
  PROVE  StoreInv'
<1>0. UNCHANGED <<ref, use, wid, watch_map_, watch_expire, last_watch_id_,
                  curr_time, last_check_expired_time_, seen>>
  BY DEF remove, handleVars, timeVars
<1>1. PICK it \in find(k) : Unlink({it}, watch_map_)
  BY DEF remove
<1>2. it \in cache_hash_map_ /\ it \in Items /\ TypeOK
  BY FindType DEF StoreInv
<1>3. Counts' /\ Structure'
  BY <1>0, <1>1, <1>2, UnlinkStep
<1>4. TypeOK'
  BY <1>0, <1>1, <1>2, UnlinkType DEF TypeOK
<1>. QED
  BY <1>3, <1>4 DEF StoreInv, Counts, Structure

LEMMA Flush ==
  ASSUME StoreInv, NoWrap, NEW g \in Groups, flush(g)
  PROVE  StoreInv'
<1> DEFINE U == {i \in expire_list_["timed"] \cup expire_list_["never"] :
                   GroupOf[item[i].key] = g}
<1>0. UNCHANGED <<ref, use, wid, watch_map_, watch_expire, last_watch_id_,
                  curr_time, last_check_expired_time_, seen>> /\ Unlink(U, watch_map_)
  BY DEF flush, handleVars, timeVars
<1>1. TypeOK /\ U \subseteq cache_hash_map_ /\ U \subseteq Items
  BY DEF StoreInv, TypeOK, TableAndListsAgree
<1>. HIDE DEF U
<1>3. Counts' /\ Structure'
  BY <1>0, <1>1, UnlinkStep
<1>4. TypeOK'
  BY <1>0, <1>1, UnlinkType DEF TypeOK
<1>. QED
  BY <1>3, <1>4 DEF StoreInv, Counts, Structure

LEMMA CheckExpired ==
  ASSUME StoreInv, NoWrap, check_expired
  PROVE  StoreInv'
<1>1. PICK U \in SUBSET {i \in expire_list_["timed"] : item[i].expire_time <= curr_time} :
          Unlink(U, watch_map_')
  BY DEF check_expired
<1>2. TypeOK /\ U \subseteq cache_hash_map_ /\ U \subseteq Items
  BY DEF StoreInv, TypeOK, TableAndListsAgree
<1>3. /\ UNCHANGED <<ref, use, wid, last_watch_id_, curr_time>>
      /\ watch_map_' \subseteq WatchIds /\ watch_expire' \in [WatchIds -> Nat]
      /\ seen' \subseteq seen /\ last_check_expired_time_' \in Nat
  BY <1>2 DEF check_expired, handleVars, TypeOK
<1>4. Counts' /\ Structure'
  BY <1>1, <1>2, <1>3, UnlinkStep
<1>5. TypeOK'
  BY <1>1, <1>2, <1>3, UnlinkType DEF TypeOK
<1>. QED
  BY <1>4, <1>5 DEF StoreInv, Counts, Structure

LEMMA WatchAndClock ==
  ASSUME StoreInv, NoWrap,
         \/ \E e \in Expirations : create_watch(e)
         \/ \E w \in WatchIds, e \in Expirations : check_watch(w, e)
         \/ Tick
  PROVE  StoreInv'
<1>1. UNCHANGED <<allocated, item, ref_count, cache_hash_map_, expire_list_, last_cache_id_,
                  leaked, ref, use, wid, notified, last_check_expired_time_, seen>>
  BY DEF create_watch, check_watch, Tick, storeVars, handleVars, watchVars, timeVars
<1>2. /\ watch_map_' \subseteq WatchIds /\ watch_expire' \in [WatchIds -> Nat]
      /\ last_watch_id_' \in 0..MaxWatch /\ curr_time' \in Nat
  <2>0. TypeOK /\ \A e \in Expirations : realtime(e) \in Nat
    BY HelperTypes DEF StoreInv
  <2>1. CASE \E e \in Expirations : create_watch(e)
    BY <2>0, <2>1, CacheMgrAssumption DEF TypeOK, create_watch, get_watch_id, WatchIds, timeVars
  <2>2. CASE \E w \in WatchIds, e \in Expirations : check_watch(w, e)
    BY <2>0, <2>2 DEF TypeOK, check_watch, timeVars
  <2>3. CASE Tick
    BY <2>0, <2>3 DEF TypeOK, Tick, watchVars
  <2>. QED
    BY <2>1, <2>2, <2>3
<1>3. TypeOK'
  BY <1>1, <1>2 DEF StoreInv, TypeOK
<1>4. Counts' /\ Structure'
  BY <1>1, FieldStep DEF SameNames
<1>. QED
  BY <1>3, <1>4 DEF StoreInv, Counts, Structure
-----------------------------------------------------------------------------
(* The operations that finish an upload.                                   *)

LEMMA HandleFinish ==
  ASSUME StoreInv, NEW h \in Handles, use[h] = "upload", Finish(h)
  PROVE  /\ UNCHANGED ref
         /\ ref' \in [Handles -> Items \cup {NULL}]
         /\ use' \in [Handles -> Uses]
         /\ wid' \in [Handles -> 0..MaxWatch]
         /\ use'[h] # "upload"
         /\ \A g \in Handles : /\ use'[g] = "idle" <=> use[g] = "idle"
                               /\ use'[g] = "upload" => use[g] = "upload"
  BY CacheMgrAssumption DEF StoreInv, TypeOK, Finish

LEMMA RefuseStep ==
  ASSUME StoreInv, NoWrap, NEW h \in Handles, use[h] = "upload", Refuse(h),
         UNCHANGED <<watch_map_, watch_expire, last_watch_id_, timeVars>>
  PROVE  StoreInv'
<1>1. /\ UNCHANGED <<allocated, item, ref_count, cache_hash_map_, expire_list_, last_cache_id_,
                     leaked, notified, seen, watch_map_, watch_expire, last_watch_id_,
                     curr_time, last_check_expired_time_>>
      /\ Finish(h)
  BY DEF Refuse, storeVars, timeVars
<1>2. Counts' /\ Structure'
  BY <1>1, HandleFinish, FieldStep DEF SameNames
<1>3. TypeOK'
  BY <1>1, HandleFinish DEF StoreInv, TypeOK
<1>. QED
  BY <1>2, <1>3 DEF StoreInv, Counts, Structure

\* Only its own connection knows the request item.
LEMMA UploadAlone ==
  ASSUME StoreInv, NEW h \in Handles, use[h] = "upload"
  PROVE  /\ ref[h] \in Items \ cache_hash_map_ /\ ref[h] \in allocated
         /\ item[ref[h]].key \in Keys
         /\ \A g \in Handles : ref[g] = ref[h] => g = h
  BY Alive DEF StoreInv, UploadPrivate

LEMMA ReplaceStep ==
  ASSUME StoreInv, NoWrap, NEW h \in Handles, use[h] = "upload", NEW w \in WatchArgs,
         NEW U \in SUBSET cache_hash_map_, find(item[ref[h]].key) \subseteq U,
         ReplaceBy(U, ref[h], w), UNCHANGED ref,
         use' \in [Handles -> Uses], wid' \in [Handles -> 0..MaxWatch], use'[h] # "upload",
         \A g \in Handles : /\ use'[g] = "idle" <=> use[g] = "idle"
                            /\ use'[g] = "upload" => use[g] = "upload",
         seen' \subseteq [watch: WatchIds, key: Keys, id: Nat, op: Ops],
         UNCHANGED <<watch_map_, watch_expire, last_watch_id_, curr_time,
                     last_check_expired_time_>>
  PROVE  StoreInv'
<1> DEFINE i == ref[h]
<1>0. /\ TypeOK /\ i \in Items \ cache_hash_map_ /\ item[i].key \in Keys
      /\ U \subseteq Items /\ cache_hash_map_ \subseteq Items
      /\ item[i].expiration_id \in Lists
      /\ AsSet(w) \in SUBSET WatchIds /\ get_cache_id \in Nat
      /\ ItemsAfter(U) \in [Items -> ItemRecord]
      /\ \A g \in Handles : ref[g] = i => g = h
  <2>1. TypeOK /\ i \in Items
    BY UploadAlone DEF StoreInv
  <2>2. item[i].expiration_id \in Lists
    BY <2>1 DEF TypeOK, ItemRecord
  <2>3. cache_hash_map_ \subseteq Items
    BY <2>1 DEF TypeOK
  <2>. QED
    BY <2>1, <2>2, <2>3, UploadAlone, HelperTypes
<1>. HIDE DEF i
<1>1. /\ References(U, {i}) /\ Links(U, {i}, item[i].expiration_id)
      /\ item' = [ItemsAfter(U) EXCEPT ![i].cache_id = get_cache_id, ![i].watch_item = AsSet(w)]
      /\ Notify(U, watch_map_) /\ last_cache_id_' = get_cache_id
  BY DEF ReplaceBy, i
<1>2. item' \in [Items -> ItemRecord] /\ SameNames(item', ItemsAfter(U))
  BY <1>0, <1>1, FieldUpdates
<1>3. \A j \in Items : j \notin Freed(U) => /\ item'[j].key = item[j].key
                                            /\ item'[j].expiration_id = item[j].expiration_id
  <2>1. \A j \in Items : j \notin Freed(U) =>
            /\ ItemsAfter(U)[j].key = item[j].key
            /\ ItemsAfter(U)[j].expiration_id = item[j].expiration_id
    BY <1>0 DEF TypeOK, ItemRecord, ItemsAfter
  <2>. QED
    BY <1>2, <2>1 DEF SameNames
<1>4. i \notin Freed(U)
  BY <1>0 DEF Freed
<1>5. \A j \in cache_hash_map_ \ U : item[j].key # item'[i].key
  BY <1>0, <1>3, <1>4 DEF find, i
<1>6. Counts' /\ Structure'
  BY <1>0, <1>1, <1>3, <1>4, <1>5, LinkStep DEF i
<1>7. TypeOK'
  <2>1. /\ ref_count' \in [Items -> 0..(RefMod - 1)]
        /\ allocated' \subseteq Items
        /\ leaked' \in [Items -> Nat]
    BY <1>0, <1>1, ReferencesType
  <2>2. cache_hash_map_' \subseteq Items /\ expire_list_' \in [Lists -> SUBSET Items]
    BY <1>0, <1>1, LinksType
  <2>3. notified' \in [WatchIds -> SUBSET Nat]
    BY <1>0, <1>1, NotifyType
  <2>. QED
    BY <1>0, <1>1, <1>2, <2>1, <2>2, <2>3 DEF TypeOK
<1>. QED
  BY <1>6, <1>7 DEF StoreInv, Counts, Structure

\* A write that is done: what add, set and replace have in common.
LEMMA WriteStep ==
  ASSUME StoreInv, NoWrap, NEW h \in Handles, use[h] = "upload", NEW w \in WatchArgs,
         NEW U \in SUBSET cache_hash_map_, find(item[ref[h]].key) \subseteq U,
         ReplaceBy(U, ref[h], w), Finish(h),
         Tell(w, item[ref[h]].key, get_cache_id, "write"),
         UNCHANGED <<watch_map_, watch_expire, last_watch_id_, timeVars>>
  PROVE  StoreInv'
<1>1. TypeOK /\ item[ref[h]].key \in Keys /\ get_cache_id \in Nat /\ "write" \in Ops
  BY UploadAlone, HelperTypes DEF StoreInv
<1>2. seen' \subseteq [watch: WatchIds, key: Keys, id: Nat, op: Ops]
  BY <1>1, TellType
<1>3. UNCHANGED <<watch_map_, watch_expire, last_watch_id_, curr_time, last_check_expired_time_>>
  BY DEF timeVars
<1>. QED
  BY <1>2, <1>3, HandleFinish, ReplaceStep

LEMMA OverwriteStep ==
  ASSUME StoreInv, NoWrap, NEW h \in Handles, use[h] = "upload", NEW w \in WatchArgs,
         NEW cid, Overwrite(h, w, cid),
         UNCHANGED <<watch_map_, watch_expire, last_watch_id_, timeVars>>
  PROVE  StoreInv'
<1>1. item[ref[h]].key \in Keys
  BY UploadAlone
<1>2. PICK old \in find(item[ref[h]].key) :
          \/ /\ ReplaceBy({old}, ref[h], w) /\ Finish(h)
             /\ Tell(w, item[ref[h]].key, get_cache_id, "write")
          \/ Refuse(h)
  BY DEF Overwrite
<1>3. {old} \in SUBSET cache_hash_map_ /\ find(item[ref[h]].key) \subseteq {old}
  BY <1>1, FindType
<1>. QED
  BY <1>2, <1>3, WriteStep, RefuseStep

LEMMA Add ==
  ASSUME StoreInv, NoWrap, NEW h \in Handles, NEW w \in WatchArgs, add(h, w)
  PROVE  StoreInv'
<1>1. /\ use[h] = "upload"
      /\ UNCHANGED <<watch_map_, watch_expire, last_watch_id_, timeVars>>
      /\ \/ /\ find(item[ref[h]].key) = {} /\ ReplaceBy({}, ref[h], w) /\ Finish(h)
            /\ Tell(w, item[ref[h]].key, get_cache_id, "write")
         \/ Refuse(h)
  BY DEF add
<1>2. {} \in SUBSET cache_hash_map_
  OBVIOUS
<1>. QED
  BY <1>1, <1>2, WriteStep, RefuseStep

LEMMA Set ==
  ASSUME StoreInv, NoWrap, NEW h \in Handles, NEW w \in WatchArgs, NEW cid, set(h, w, cid)
  PROVE  StoreInv'
<1>1. /\ use[h] = "upload"
      /\ UNCHANGED <<watch_map_, watch_expire, last_watch_id_, timeVars>>
      /\ \/ Overwrite(h, w, cid)
         \/ /\ find(item[ref[h]].key) = {} /\ ReplaceBy({}, ref[h], w) /\ Finish(h)
            /\ Tell(w, item[ref[h]].key, get_cache_id, "write")
         \/ Refuse(h)
  BY DEF set
<1>2. {} \in SUBSET cache_hash_map_
  OBVIOUS
<1>. QED
  BY <1>1, <1>2, OverwriteStep, WriteStep, RefuseStep

LEMMA Replace ==
  ASSUME StoreInv, NoWrap, NEW h \in Handles, NEW w \in WatchArgs, NEW cid, replace(h, w, cid)
  PROVE  StoreInv'
  BY OverwriteStep, RefuseStep DEF replace

LEMMA NewItemType ==
  ASSUME StoreInv, NEW k \in Keys, NEW old \in find(k), NEW i \in Items \ allocated,
         NEW v \in Values
  PROVE  /\ NewItem(old, v) \in ItemRecord
         /\ NewItem(old, v).key = k
         /\ NewItem(old, v).expiration_id = get_expiration_id(item[old].expire_time)
         /\ [ItemsAfter({old}) EXCEPT ![i] = NewItem(old, v)] \in [Items -> ItemRecord]
<1>1. /\ TypeOK /\ old \in Items /\ item[old].key = k
  BY FindType DEF StoreInv
<1>2. /\ item[old].expire_time \in Nat /\ get_cache_id \in Nat
      /\ get_expiration_id(item[old].expire_time) \in Lists
      /\ ItemsAfter({old}) \in [Items -> ItemRecord]
  BY <1>1, HelperTypes DEF TypeOK, ItemRecord, get_expiration_id
<1>3. /\ NewItem(old, v) \in ItemRecord
      /\ NewItem(old, v).key = k
      /\ NewItem(old, v).expiration_id = get_expiration_id(item[old].expire_time)
  BY <1>1, <1>2 DEF NewItem, Blank, ItemRecord
<1>. QED
  BY <1>2, <1>3

LEMMA NewStep ==
  ASSUME StoreInv, NoWrap, NEW k \in Keys, NEW old \in find(k), NEW i \in Items \ allocated,
         NEW v \in Values, ReplaceByNew(old, i),
         item' \in [Items -> ItemRecord],
         SameNames(item', [ItemsAfter({old}) EXCEPT ![i] = NewItem(old, v)]),
         UNCHANGED ref, use' \in [Handles -> Uses], wid' \in [Handles -> 0..MaxWatch],
         \A g \in Handles : /\ use'[g] = "idle" <=> use[g] = "idle"
                            /\ use'[g] = "upload" => use[g] = "upload",
         seen' \subseteq [watch: WatchIds, key: Keys, id: Nat, op: Ops],
         UNCHANGED <<watch_map_, watch_expire, last_watch_id_, curr_time,
                     last_check_expired_time_>>
  PROVE  StoreInv'
<1> DEFINE l == get_expiration_id(item[old].expire_time)
           f == [ItemsAfter({old}) EXCEPT ![i] = NewItem(old, v)]
<1>0. /\ TypeOK /\ old \in Items /\ old \in cache_hash_map_ /\ item[old].key = k
      /\ old \in allocated /\ cache_hash_map_ \subseteq Items
      /\ i \in Items \ cache_hash_map_ /\ RefsTo(i) = {}
      /\ \A j \in cache_hash_map_ : item[j].key = k => j = old
      /\ ItemsAfter({old}) \in [Items -> ItemRecord] /\ get_cache_id \in Nat
  <2>1. TypeOK /\ old \in Items
    BY FindType DEF StoreInv
  <2>. QED
    BY <2>1, FindType, Alive, HelperTypes
<1>1. /\ References({old}, {i}) /\ Links({old}, {i}, l) /\ Notify({old}, watch_map_)
      /\ last_cache_id_' = get_cache_id
  BY DEF ReplaceByNew
<1>2. f[i] = NewItem(old, v) /\ \A j \in Items : j # i => f[j] = ItemsAfter({old})[j]
  BY <1>0
<1>2a. SameNames(item', f)
  OBVIOUS
<1>2b. /\ l \in Lists /\ NewItem(old, v).key = k
       /\ NewItem(old, v).expiration_id = l
  <2>1. l \in Lists
    BY DEF get_expiration_id
  <2>. HIDE DEF f
  <2>. QED
    BY <2>1, NewItemType
<1>. HIDE DEF f, l
<1>3. item'[i].key = k /\ item'[i].expiration_id = l
  BY <1>0, <1>2, <1>2a, <1>2b DEF SameNames
<1>4. \A j \in Items : j # i /\ j \notin Freed({old}) =>
          item'[j].key = item[j].key /\ item'[j].expiration_id = item[j].expiration_id
  <2>1. \A j \in Items : j \notin Freed({old}) =>
            /\ ItemsAfter({old})[j].key = item[j].key
            /\ ItemsAfter({old})[j].expiration_id = item[j].expiration_id
    BY <1>0 DEF TypeOK, ItemRecord, ItemsAfter
  <2>2. ASSUME NEW j \in Items, j # i, j \notin Freed({old})
        PROVE  item'[j].key = item[j].key /\ item'[j].expiration_id = item[j].expiration_id
    <3>1. item'[j].key = f[j].key /\ item'[j].expiration_id = f[j].expiration_id
      BY <1>2a DEF SameNames
    <3>. QED
      BY <1>2, <2>1, <2>2, <3>1
  <2>. QED
    BY <2>2
<1>5. Counts' /\ Structure'
  <2> DEFINE U == {old}
  <2>1. U \in SUBSET cache_hash_map_ /\ \A j \in cache_hash_map_ \ U : item[j].key # item'[i].key
    BY <1>0, <1>3
  <2>2. \A g \in Handles : /\ use'[g] = "idle" <=> use[g] = "idle"
                           /\ use'[g] = "upload" => use[g] = "upload" /\ ref[g] # i
    BY <1>0 DEF RefsTo
  <2>3. i \in Items \ cache_hash_map_ /\ l \in Lists /\ item'[i].key \in Keys
    BY <1>0, <1>2b, <1>3
  <2>4. /\ References(U, {i}) /\ Links(U, {i}, l)
        /\ \A j \in Items : j # i /\ j \notin Freed(U) =>
              item'[j].key = item[j].key /\ item'[j].expiration_id = item[j].expiration_id
    BY <1>1, <1>4
  <2>. HIDE DEF U
  <2>. QED
    BY <1>3, <2>1, <2>2, <2>3, <2>4, LinkStep
<1>6. TypeOK'
  <2>1. /\ ref_count' \in [Items -> 0..(RefMod - 1)]
        /\ allocated' \subseteq Items
        /\ leaked' \in [Items -> Nat]
    BY <1>0, <1>1, ReferencesType
  <2>2. cache_hash_map_' \subseteq Items /\ expire_list_' \in [Lists -> SUBSET Items]
    BY <1>0, <1>1, LinksType
  <2>3. notified' \in [WatchIds -> SUBSET Nat]
    BY <1>0, <1>1, NotifyType
  <2>. QED
    BY <1>0, <1>1, <2>1, <2>2, <2>3 DEF TypeOK
<1>. QED
  BY <1>5, <1>6 DEF StoreInv, Counts, Structure

LEMMA AppendItem ==
  ASSUME StoreInv, NoWrap, NEW h \in Handles, NEW w \in WatchArgs, NEW cid, NEW v \in Values,
         append(h, w, cid, v)
  PROVE  StoreInv'
<1> DEFINE k == item[ref[h]].key
<1>0. /\ use[h] = "upload" /\ k \in Keys /\ ref[h] \in allocated /\ ref[h] \in Items
      /\ UNCHANGED <<watch_map_, watch_expire, last_watch_id_, timeVars>>
      /\ UNCHANGED <<watch_map_, watch_expire, last_watch_id_, curr_time,
                     last_check_expired_time_>>
      /\ TypeOK /\ get_cache_id \in Nat /\ AsSet(w) \in SUBSET WatchIds
  BY UploadAlone, HelperTypes DEF append, timeVars, StoreInv
<1>1. CASE Refuse(h)
  BY <1>0, <1>1, RefuseStep
<1>2. ASSUME NEW old \in find(k), LoseReference(old), Finish(h), UNCHANGED <<notified, seen>>
      PROVE  StoreInv'
  <2>1. old \in cache_hash_map_ /\ old \in Items
    BY <1>0, FindType
  <2>2. Counts' /\ Structure'
    BY <1>0, <1>2, <2>1, HandleFinish, LoseStep
  <2>3. TypeOK'
    BY <1>0, <1>2, <2>1, HandleFinish, LoseType DEF TypeOK
  <2>. QED
    BY <2>2, <2>3 DEF StoreInv, Counts, Structure
<1>3. ASSUME NEW old \in find(k), NEW i \in Items \ allocated, ReplaceByNew(old, i),
             item' = [ItemsAfter({old}) EXCEPT ![i] = NewItem(old, v),
                         ![ref[h]].watch_item = @ \cup AsSet(w)],
             Finish(h), Tell(w, k, get_cache_id, "concat")
      PROVE  StoreInv'
  <2> DEFINE f == [ItemsAfter({old}) EXCEPT ![i] = NewItem(old, v)]
  <2>1. f \in [Items -> ItemRecord]
    BY <1>0, NewItemType
  <2>2. item' = [f EXCEPT ![ref[h]].watch_item = f[ref[h]].watch_item \cup AsSet(w)]
    BY <1>0, <1>3
  <2>. HIDE DEF f
  <2>3. f[ref[h]].watch_item \cup AsSet(w) \in SUBSET WatchIds
    BY <1>0, <2>1 DEF ItemRecord
  <2>4. item' \in [Items -> ItemRecord] /\ SameNames(item', f)
    BY <1>0, <2>1, <2>2, <2>3, FieldUpdates
  <2>5. seen' \subseteq [watch: WatchIds, key: Keys, id: Nat, op: Ops]
    <3>1. "concat" \in Ops
      OBVIOUS
    <3>. QED
      BY <1>0, <1>3, <3>1, TellType
  <2>. QED
    BY <1>0, <1>3, <2>4, <2>5, HandleFinish, NewStep DEF f
<1>. HIDE DEF k
<1>4. \/ Refuse(h)
      \/ \E old \in find(k) : LoseReference(old) /\ Finish(h) /\ UNCHANGED <<notified, seen>>
      \/ \E old \in find(k), i \in Items \ allocated :
            /\ ReplaceByNew(old, i)
            /\ item' = [ItemsAfter({old}) EXCEPT ![i] = NewItem(old, v),
                          ![ref[h]].watch_item = @ \cup AsSet(w)]
            /\ Finish(h) /\ Tell(w, k, get_cache_id, "concat")
  BY DEF append, k
<1>. QED
  BY <1>1, <1>2, <1>3, <1>4

LEMMA Delta ==
  ASSUME StoreInv, NoWrap, NEW k \in Keys, NEW cid, NEW v \in Values, delta(k, cid, v)
  PROVE  StoreInv'
<1>0. /\ UNCHANGED <<ref, use, wid, watch_map_, watch_expire, last_watch_id_, curr_time,
                     last_check_expired_time_>>
      /\ TypeOK /\ get_cache_id \in Nat
  BY HelperTypes DEF delta, handleVars, timeVars, StoreInv
<1>1. ASSUME NEW it \in find(k), NEW i \in Items \ allocated, ReplaceByNew(it, i),
             item' = [ItemsAfter({it}) EXCEPT ![i] = NewItem(it, v)], UNCHANGED seen
      PROVE  StoreInv'
  <2>1. item' \in [Items -> ItemRecord]
        /\ SameNames(item', [ItemsAfter({it}) EXCEPT ![i] = NewItem(it, v)])
    BY <1>1, NewItemType DEF SameNames
  <2>2. /\ use' \in [Handles -> Uses] /\ wid' \in [Handles -> 0..MaxWatch]
        /\ seen' \subseteq [watch: WatchIds, key: Keys, id: Nat, op: Ops]
    BY <1>0, <1>1 DEF TypeOK
  <2>. QED
    BY <1>0, <1>1, <2>1, <2>2, NewStep
<1>2. ASSUME NEW it \in find(k),
             item' = [item EXCEPT ![it].content = v, ![it].cache_id = get_cache_id],
             last_cache_id_' = get_cache_id,
             seen' = {IF s.id = item[it].cache_id /\ s.op \in {"get", "write"}
                      THEN [s EXCEPT !.op = "overwritten"] ELSE s : s \in seen},
             UNCHANGED <<allocated, ref_count, leaked, cache_hash_map_, expire_list_, notified>>
      PROVE  StoreInv'
  <2>1. it \in Items
    BY FindType
  <2>2. item' \in [Items -> ItemRecord] /\ SameNames(item', item)
    BY <1>0, <1>2, <2>1, FieldUpdates DEF TypeOK
  <2>3. seen' \subseteq [watch: WatchIds, key: Keys, id: Nat, op: Ops]
    <3>1. seen \subseteq [watch: WatchIds, key: Keys, id: Nat, op: Ops]
      BY <1>0 DEF TypeOK
    <3>. QED
      BY <1>2, <3>1
  <2>4. TypeOK'
    BY <1>0, <1>2, <2>2, <2>3 DEF TypeOK
  <2>5. Counts' /\ Structure'
    BY <1>0, <1>2, <2>2, FieldStep DEF SameNames
  <2>. QED
    BY <2>4, <2>5 DEF StoreInv, Counts, Structure
<1>. QED
  BY <1>1, <1>2 DEF delta

LEMMA LoadFromFile ==
  ASSUME StoreInv, NoWrap, NEW h \in Handles, NEW w \in WatchArgs, load_from_file(h, w)
  PROVE  StoreInv'
<1> DEFINE k == item[ref[h]].key
<1>0. /\ use[h] = "upload" /\ k \in Keys /\ ref[h] \in Items /\ ref[h] # NULL
      /\ ref[h] \notin cache_hash_map_
      /\ UNCHANGED <<watch_map_, watch_expire, last_watch_id_, curr_time,
                     last_check_expired_time_, seen>>
      /\ TypeOK /\ 0 \in WatchArgs
  BY UploadAlone, CacheMgrAssumption DEF load_from_file, timeVars, StoreInv, WatchArgs
<1>1. ASSUME find(k) = {}, ReplaceBy({}, ref[h], w), Hold(h, ref[h], "got", w)
      PROVE  StoreInv'
  <2>1. /\ UNCHANGED ref /\ use'[h] # "upload"
        /\ \A g \in Handles : /\ use'[g] = "idle" <=> use[g] = "idle"
                              /\ use'[g] = "upload" => use[g] = "upload"
    BY <1>0, <1>1 DEF Hold, TypeOK
  <2>2. use' \in [Handles -> Uses] /\ wid' \in [Handles -> 0..MaxWatch]
    BY <1>0, <1>1, HandleTypes
  <2>3. seen' \subseteq [watch: WatchIds, key: Keys, id: Nat, op: Ops]
    BY <1>0 DEF TypeOK
  <2>4. {} \in SUBSET cache_hash_map_
    OBVIOUS
  <2>. QED
    BY <1>0, <1>1, <2>1, <2>2, <2>3, <2>4, ReplaceStep
<1>2. ASSUME NEW x \in cache_hash_map_ \cup {NULL}, NEW u \in {"idle", "loaded"},
             u = "idle" <=> x = NULL, NEW y \in WatchArgs,
             References({ref[h]}, {x} \ {NULL}), item' = ItemsAfter({ref[h]}),
             Hold(h, x, u, y),
             UNCHANGED <<cache_hash_map_, expire_list_, last_cache_id_, notified>>
      PROVE  StoreInv'
  <2>1. \A j \in Items \ Freed({ref[h]}) : /\ item'[j].key = item[j].key
                                           /\ item'[j].expiration_id = item[j].expiration_id
    BY <1>0, <1>2 DEF TypeOK, ItemRecord, ItemsAfter
  <2>2. x # ref[h] /\ u \in Uses \ {"upload"} /\ x \in Items \cup {NULL}
    BY <1>0 DEF TypeOK
  <2>3. Counts' /\ Structure'
    BY <1>0, <1>2, <2>1, <2>2, DropStep
  <2>4. TypeOK'
    <3>1. /\ ref_count' \in [Items -> 0..(RefMod - 1)]
          /\ allocated' \subseteq Items
          /\ leaked' \in [Items -> Nat]
      BY <1>0, <1>2, <2>2, ReferencesType
    <3>2. /\ ref' \in [Handles -> Items \cup {NULL}]
          /\ use' \in [Handles -> Uses]
          /\ wid' \in [Handles -> 0..MaxWatch]
      BY <1>0, <1>2, <2>2, HandleTypes
    <3>3. item' \in [Items -> ItemRecord]
      BY <1>0, <1>2, HelperTypes
    <3>. QED
      BY <1>0, <1>2, <3>1, <3>2, <3>3 DEF TypeOK
  <2>. QED
    BY <2>3, <2>4 DEF StoreInv, Counts, Structure
<1>3. CASE /\ References({ref[h]}, {}) /\ item' = ItemsAfter({ref[h]})
           /\ Hold(h, NULL, "idle", 0)
           /\ UNCHANGED <<cache_hash_map_, expire_list_, last_cache_id_, notified>>
  <2>1. {NULL} \ {NULL} = {}
    OBVIOUS
  <2>. QED
    BY <1>0, <1>2, <1>3, <2>1
<1>4. ASSUME NEW old \in find(k), References({ref[h]}, {old}), item' = ItemsAfter({ref[h]}),
             Hold(h, old, "loaded", IF w \in WatchIds THEN w ELSE 0),
             UNCHANGED <<cache_hash_map_, expire_list_, last_cache_id_, notified>>
      PROVE  StoreInv'
  <2>1. old \in cache_hash_map_ /\ old # NULL /\ {old} \ {NULL} = {old}
    BY <1>0, FindType, CacheMgrAssumption
  <2>2. (IF w \in WatchIds THEN w ELSE 0) \in WatchArgs
    BY <1>0
  <2>. QED
    BY <1>2, <1>4, <2>1, <2>2
<1>. QED
  BY <1>1, <1>3, <1>4 DEF load_from_file
-----------------------------------------------------------------------------
LEMMA InitStoreInv == Init => StoreInv
<1> SUFFICES ASSUME Init PROVE StoreInv
  OBVIOUS
<1>1. TypeOK
  BY BlankType, CacheMgrAssumption DEF Init, TypeOK
<1>2. \A i \in Items : RefsTo(i) = {} /\ Linked(i) = 0
  BY CacheMgrAssumption DEF Init, RefsTo, Linked
<1>3. RefCountExact
  <2>1. \A i \in Items : Cardinality(RefsTo(i)) = 0
    BY <1>2, FS_EmptySet
  <2>. QED
    BY <1>2, <2>1 DEF Init, RefCountExact
<1>. QED
  BY <1>1, <1>3, CacheMgrAssumption DEF Init, StoreInv, TableAndListsAgree, OneItemPerKey,
     HandleShape, UploadPrivate, AllocatedIsCounted, LeakBounded, KeysKnown

LEMMA NextStoreInv ==
  ASSUME NoWrap, StoreInv, [Next]_vars
  PROVE  StoreInv'
<1>1. CASE Next
  BY <1>1, Abandon, ReleaseReference, EncodeReply, AllocItem, Get, GetTouch, Add, LoadFromFile,
     Set, Replace, AppendItem, Remove, UpdateFlags, Delta, UpdateExpiration, Flush, WatchAndClock,
     CheckExpired DEF Next
<1>2. CASE UNCHANGED vars
  <2>1. UNCHANGED <<allocated, item, ref_count, cache_hash_map_, expire_list_, last_cache_id_,
                    leaked, ref, use, wid, watch_map_, watch_expire, last_watch_id_, notified,
                    curr_time, last_check_expired_time_, seen>>
    BY <1>2 DEF vars, storeVars, handleVars, watchVars, timeVars
  <2>2. TypeOK'
    BY <2>1 DEF StoreInv, TypeOK
  <2>3. Counts' /\ Structure'
    BY <2>1, FieldStep DEF SameNames
  <2>. QED
    BY <2>2, <2>3 DEF StoreInv, Counts, Structure
<1>. QED
  BY <1>1, <1>2
-----------------------------------------------------------------------------
(* Theorems.  NoWrap is the one thing the code does not see to: that the   *)
(* 16 bits of ref_count hold every reference, lost ones included.          *)

(***************************************************************************)
(* StoreInv is an inductive invariant of the store: it holds at start and  *)
(* every operation of cache.cpp preserves it.                              *)
(***************************************************************************)
THEOREM StoreIsSound == ASSUME NoWrap PROVE Spec => []StoreInv
<1>1. NoWrap => (Init => StoreInv)
  BY InitStoreInv
<1>2. NoWrap => (StoreInv /\ [Next]_vars => StoreInv')
  BY NextStoreInv
<1>. QED
  BY <1>1, <1>2, PTL DEF Spec

(***************************************************************************)
(* The state keeps its type: ref_count its 16 bits, watch lists known      *)
(* watches only.                                                           *)
(***************************************************************************)
THEOREM TypeCorrect == ASSUME NoWrap PROVE Spec => []TypeOK
<1>1. StoreInv => TypeOK
  BY DEF StoreInv
<1>. QED
  BY <1>1, StoreIsSound, PTL

(***************************************************************************)
(* The count of every item is exactly the number of its references, after  *)
(* any sequence of operations of any number of connections.                *)
(***************************************************************************)
THEOREM CountsAreExact == ASSUME NoWrap PROVE Spec => []RefCountExact
<1>1. StoreInv => RefCountExact
  BY DEF StoreInv
<1>. QED
  BY <1>1, StoreIsSound, PTL

(***************************************************************************)
(* An item in the table is on the one expiry list its expiration_id names, *)
(* and the lists hold nothing else: the asserts of do_unlink.              *)
(***************************************************************************)
THEOREM TableMatchesLists == ASSUME NoWrap PROVE Spec => []TableAndListsAgree
<1>1. StoreInv => TableAndListsAgree
  BY DEF StoreInv
<1>. QED
  BY <1>1, StoreIsSound, PTL

(***************************************************************************)
(* No key is linked twice, although hash_map::insert does not look.        *)
(***************************************************************************)
THEOREM KeysAreUnique == ASSUME NoWrap PROVE Spec => []OneItemPerKey
<1>1. StoreInv => OneItemPerKey
  BY DEF StoreInv
<1>. QED
  BY <1>1, StoreIsSound, PTL

(***************************************************************************)
(* Nothing points at a freed item: neither a connection that is sending,   *)
(* nor the table, nor an expiry list (free_item against all the rest).     *)
(***************************************************************************)
THEOREM NothingUsedAfterFree == ASSUME NoWrap PROVE Spec => []NoUseAfterFree
<1>1. StoreInv => NoUseAfterFree
  <2> SUFFICES ASSUME StoreInv PROVE NoUseAfterFree
    OBVIOUS
  <2>1. \A l \in Lists : expire_list_[l] \subseteq cache_hash_map_
    BY DEF StoreInv, TypeOK, TableAndListsAgree
  <2>. QED
    BY <2>1, Alive DEF NoUseAfterFree
<1>. QED
  BY <1>1, StoreIsSound, PTL
-----------------------------------------------------------------------------
(* Versions and watches.                                                   *)

\* The watch of a get that is not answered yet is on the item, or has been
\* told of the id the reply will carry.
GotRegistered ==
  \A h \in Handles : use[h] = "got" =>
     /\ wid[h] <= last_watch_id_
     /\ wid[h] \in watch_map_ =>
           IF ref[h] \in cache_hash_map_ THEN wid[h] \in item[ref[h]].watch_item
           ELSE item[ref[h]].cache_id \in notified[wid[h]]

\* Watch ids are not given out twice.
WatchesNumbered ==
  /\ watch_map_ \subseteq 1..last_watch_id_
  /\ \A s \in seen : s.op \in {"get", "write"} => s.watch <= last_watch_id_

WatchInv == StoreInv /\ GotRegistered /\ WatchesNumbered /\ WatchCoherence

\* What a step may do to watches, linked items and versions.  A linked item
\* stays as it is; or it goes, and its watches are told; or its id changes, and
\* they are told unless nobody relies on the id any more.
WatchMoves ==
  /\ last_watch_id_ <= last_watch_id_' /\ watch_map_' \subseteq 1..last_watch_id_'
  /\ watch_map_' \cap (1..last_watch_id_) \subseteq watch_map_
  /\ \A w \in watch_map_' : w <= last_watch_id_ => notified[w] \subseteq notified'[w]

LinkedMoves ==
  \A i \in cache_hash_map_ :
     \/ /\ i \in cache_hash_map_' /\ item[i].watch_item \cap watch_map_' \subseteq item'[i].watch_item
        /\ item'[i].key = item[i].key
        /\ \/ item'[i].cache_id = item[i].cache_id
           \/ \A w \in item[i].watch_item \cap watch_map_' : item[i].cache_id \in notified'[w]
           \/ \A s \in seen' : s.id = item[i].cache_id => s.op \notin {"get", "write"}
     \/ /\ i \notin cache_hash_map_' /\ \A w \in item[i].watch_item \cap watch_map_' : item[i].cache_id \in notified'[w]
        /\ RefsTo(i) # {} => item'[i].cache_id = item[i].cache_id

\* What a connection has got and is no longer linked keeps its id.
IdsKept ==
  \A h \in Handles : use[h] = "got" /\ ref[h] \notin cache_hash_map_ =>
     ref[h] \notin cache_hash_map_' /\ item'[ref[h]].cache_id = item[ref[h]].cache_id

GotMoves ==
  \A h \in Handles : use'[h] = "got" =>
     \/ use[h] = "got" /\ ref'[h] = ref[h] /\ wid'[h] = wid[h]
     \/ /\ wid'[h] <= last_watch_id_'
        /\ wid'[h] \in watch_map_' => /\ ref'[h] \in cache_hash_map_'
                                      /\ wid'[h] \in item'[ref'[h]].watch_item

SeenMoves ==
  \A s \in seen' : s.op \in {"get", "write"} =>
     \/ s \in seen
     \/ /\ s.watch <= last_watch_id_'
        /\ s.watch \in watch_map_' =>
              \/ s.id \in notified'[s.watch]
              \/ \E i \in cache_hash_map_' : /\ item'[i].key = s.key /\ item'[i].cache_id = s.id
                                             /\ s.watch \in item'[i].watch_item

\* Content under a key is new only under the next id.
VersionMoves ==
  \A j \in cache_hash_map_' :
     \/ j \in cache_hash_map_ /\ item'[j].key = item[j].key /\ item'[j].content = item[j].content
     \/ item'[j].cache_id = last_cache_id_ + 1

WorldMoves == WatchMoves /\ LinkedMoves /\ IdsKept /\ VersionMoves

LEMMA WatchNumbers ==
  ASSUME WatchInv
  PROVE  /\ last_watch_id_ \in Nat /\ MaxWatch \in Nat
         /\ watch_map_ \subseteq 1..last_watch_id_ /\ watch_map_ \subseteq WatchIds
         /\ \A s \in seen : s.watch \in Nat
         /\ \A h \in Handles : wid[h] \in Nat
  BY CacheMgrAssumption DEF WatchInv, StoreInv, TypeOK, WatchesNumbered, WatchIds

LEMMA MovesKeepWatchInv ==
  ASSUME WatchInv, StoreInv', WorldMoves, GotMoves, SeenMoves
  PROVE  WatchInv'
<1>0. /\ last_watch_id_ \in Nat /\ last_watch_id_' \in Nat /\ last_watch_id_ <= last_watch_id_'
      /\ watch_map_ \subseteq 1..last_watch_id_ /\ watch_map_' \subseteq 1..last_watch_id_'
      /\ \A w \in watch_map_' : w <= last_watch_id_ => w \in watch_map_ /\ notified[w] \subseteq notified'[w]
  <2>1. last_watch_id_ \in Nat /\ watch_map_ \subseteq 1..last_watch_id_
    BY WatchNumbers
  <2>2. last_watch_id_' \in Nat
    BY CacheMgrAssumption DEF StoreInv, TypeOK
  <2>. QED
    BY <2>1, <2>2 DEF WorldMoves, WatchMoves
<1>1. ASSUME NEW h \in Handles, use'[h] = "got"
      PROVE  /\ wid'[h] <= last_watch_id_'
             /\ wid'[h] \in watch_map_' =>
                   IF ref'[h] \in cache_hash_map_' THEN wid'[h] \in item'[ref'[h]].watch_item
                   ELSE item'[ref'[h]].cache_id \in notified'[wid'[h]]
  <2>1. CASE use[h] = "got" /\ ref'[h] = ref[h] /\ wid'[h] = wid[h]
    <3>1. wid[h] <= last_watch_id_ /\ wid[h] \in Nat /\ h \in RefsTo(ref[h])
      BY <2>1, WatchNumbers DEF WatchInv, GotRegistered, RefsTo
    <3>2. SUFFICES ASSUME wid[h] \in watch_map_'
                   PROVE  IF ref[h] \in cache_hash_map_' THEN wid[h] \in item'[ref[h]].watch_item
                          ELSE item'[ref[h]].cache_id \in notified'[wid[h]]
      BY <1>0, <2>1, <3>1
    <3>3. wid[h] \in watch_map_ /\ notified[wid[h]] \subseteq notified'[wid[h]]
      BY <1>0, <3>1, <3>2
    <3>4. CASE ref[h] \in cache_hash_map_
      <4>1. wid[h] \in item[ref[h]].watch_item \cap watch_map_'
        BY <2>1, <3>2, <3>3, <3>4 DEF WatchInv, GotRegistered
      <4>. QED
        BY <3>1, <3>4, <4>1 DEF WorldMoves, LinkedMoves
    <3>5. CASE ref[h] \notin cache_hash_map_
      <4>1. item[ref[h]].cache_id \in notified[wid[h]]
        BY <2>1, <3>3, <3>5 DEF WatchInv, GotRegistered
      <4>. QED
        BY <2>1, <3>3, <3>5, <4>1 DEF WorldMoves, IdsKept
    <3>. QED
      BY <3>4, <3>5
  <2>2. CASE ~(use[h] = "got" /\ ref'[h] = ref[h] /\ wid'[h] = wid[h])
    BY <1>1, <2>2 DEF GotMoves
  <2>. QED
    BY <2>1, <2>2
<1>2. ASSUME NEW s \in seen', s.op \in {"get", "write"}
      PROVE  /\ s.watch <= last_watch_id_'
             /\ s.watch \in watch_map_' =>
                   \/ s.id \in notified'[s.watch]
                   \/ \E i \in cache_hash_map_' : /\ item'[i].key = s.key /\ item'[i].cache_id = s.id
                                                  /\ s.watch \in item'[i].watch_item
  <2>1. CASE s \in seen
    <3>1. s.watch <= last_watch_id_ /\ s.watch \in Nat
      BY <1>2, <2>1, WatchNumbers DEF WatchInv, WatchesNumbered
    <3>2. SUFFICES ASSUME s.watch \in watch_map_', s.id \notin notified'[s.watch]
                   PROVE  \E i \in cache_hash_map_' : /\ item'[i].key = s.key /\ item'[i].cache_id = s.id
                                                      /\ s.watch \in item'[i].watch_item
      BY <1>0, <3>1
    <3>3. s.watch \in watch_map_ /\ s.id \notin notified[s.watch]
      BY <1>0, <3>1, <3>2
    <3>4. PICK i \in cache_hash_map_ : item[i].key = s.key /\ item[i].cache_id = s.id /\ s.watch \in item[i].watch_item
      BY <1>2, <2>1, <3>3 DEF WatchInv, WatchCoherence, Covered, find
    <3>. QED
      BY <1>2, <3>2, <3>4 DEF WorldMoves, LinkedMoves
  <2>2. CASE s \notin seen
    BY <1>2, <2>2 DEF SeenMoves
  <2>. QED
    BY <2>1, <2>2
<1>3. GotRegistered'
  BY <1>1 DEF GotRegistered
<1>4. WatchesNumbered'
  BY <1>0, <1>2 DEF WatchesNumbered
<1>5. WatchCoherence'
  BY <1>2 DEF WatchCoherence, Covered, find
<1>. QED
  BY <1>3, <1>4, <1>5 DEF WatchInv

\* The watches are left alone.
LEMMA WatchesSame ==
  ASSUME WatchInv, UNCHANGED <<watch_map_, last_watch_id_>>, \A w \in watch_map_ : notified[w] \subseteq notified'[w]
  PROVE  WatchMoves
  BY WatchNumbers DEF WatchMoves

LEMMA Told ==
  ASSUME TypeOK, NEW U \in SUBSET Items, NEW live, Notify(U, live), live \subseteq WatchIds
  PROVE  /\ \A w \in live : notified[w] \subseteq notified'[w]
         /\ \A i \in U, w \in live : w \in item[i].watch_item => item[i].cache_id \in notified'[w]
  BY DEF Notify

\* Items nobody got change, or fields the watches do not depend on.
LEMMA QuietMoves ==
  ASSUME WatchInv, UNCHANGED <<watch_map_, last_watch_id_, cache_hash_map_, notified>>,
         \A i \in cache_hash_map_ : /\ item'[i].key = item[i].key /\ item'[i].cache_id = item[i].cache_id
                                    /\ item'[i].content = item[i].content
                                    /\ item[i].watch_item \subseteq item'[i].watch_item,
         \A h \in Handles : use[h] = "got" => item'[ref[h]].cache_id = item[ref[h]].cache_id
  PROVE  WorldMoves
<1>1. WatchMoves
  BY WatchesSame
<1>2. LinkedMoves /\ IdsKept /\ VersionMoves
  BY DEF LinkedMoves, IdsKept, VersionMoves
<1>. QED
  BY <1>1, <1>2 DEF WorldMoves

LEMMA HandlesSame ==
  ASSUME UNCHANGED <<ref, use, wid>>
  PROVE  GotMoves
  BY DEF GotMoves

LEMMA SeenSame ==
  ASSUME seen' \subseteq seen
  PROVE  SeenMoves
  BY DEF SeenMoves

\* The handle h stops being used for a get, or was not.
LEMMA HandleDropped ==
  ASSUME StoreInv, NEW h \in Handles, Finish(h) \/ \E x, u, w : Hold(h, x, u, w) /\ u # "got"
  PROVE  GotMoves
<1>1. /\ use'[h] # "got"
      /\ \A g \in Handles : g # h => use'[g] = use[g] /\ ref'[g] = ref[g] /\ wid'[g] = wid[g]
  BY DEF StoreInv, TypeOK, Finish, Hold
<1>. QED
  BY <1>1 DEF GotMoves

LEMMA AfterUnlink ==
  ASSUME StoreInv, NEW U \in SUBSET Items
  PROVE  /\ \A i \in Items \ U : ItemsAfter(U)[i] = item[i]
         /\ \A i \in U : ref_count[i] # 1 => /\ ItemsAfter(U)[i].cache_id = item[i].cache_id
                                             /\ ItemsAfter(U)[i].key = item[i].key
<1>1. \A i \in Items : ItemsAfter(U)[i] = IF i \in Freed(U) THEN Blank
                                          ELSE IF i \in U THEN [item[i] EXCEPT !.watch_item = {}] ELSE item[i]
  BY DEF ItemsAfter
<1>2. \A i \in Items : [item[i] EXCEPT !.watch_item = {}].cache_id = item[i].cache_id
                       /\ [item[i] EXCEPT !.watch_item = {}].key = item[i].key
  BY DEF StoreInv, TypeOK, ItemRecord
<1>. QED
  BY <1>1, <1>2 DEF Freed

LEMMA UnlinkWorld ==
  ASSUME WatchInv, NEW U \in SUBSET cache_hash_map_, Unlink(U, watch_map_'), watch_map_' \subseteq watch_map_,
         UNCHANGED last_watch_id_
  PROVE  WorldMoves
<1>0. StoreInv /\ TypeOK /\ cache_hash_map_ \subseteq Items /\ U \in SUBSET Items /\ watch_map_' \subseteq WatchIds
  BY WatchNumbers DEF WatchInv, StoreInv, TypeOK
<1>1. Notify(U, watch_map_') /\ item' = ItemsAfter(U) /\ cache_hash_map_' = cache_hash_map_ \ U
  BY DEF Unlink, Links
<1>2. /\ \A w \in watch_map_' : notified[w] \subseteq notified'[w]
      /\ \A i \in U, w \in watch_map_' : w \in item[i].watch_item => item[i].cache_id \in notified'[w]
  BY <1>0, <1>1, Told
<1>3. /\ \A i \in Items \ U : item'[i] = item[i]
      /\ \A i \in U : ref_count[i] # 1 => item'[i].cache_id = item[i].cache_id
  BY <1>0, <1>1, AfterUnlink
<1>4. \A i \in cache_hash_map_ : ref_count[i] = 1 => RefsTo(i) = {}
  BY <1>0, Alive
<1>5. WatchMoves
  BY <1>2, WatchNumbers DEF WatchMoves
<1>6. LinkedMoves
  BY <1>0, <1>1, <1>2, <1>3, <1>4 DEF LinkedMoves
<1>7. IdsKept
  <2>1. \A h \in Handles : use[h] = "got" => ref[h] \in Items
    BY <1>0, Alive
  <2>. QED
    BY <1>1, <1>3, <2>1 DEF IdsKept
<1>8. VersionMoves
  BY <1>0, <1>1, <1>3 DEF VersionMoves
<1>. QED
  BY <1>5, <1>6, <1>7, <1>8 DEF WorldMoves

\* The item i, which no get has returned, takes the place of U.
LEMMA LinkWorld ==
  ASSUME WatchInv, NEW U \in SUBSET cache_hash_map_, NEW i \in Items \ cache_hash_map_,
         \A h \in Handles : use[h] = "got" => ref[h] # i,
         cache_hash_map_' = (cache_hash_map_ \ U) \cup {i}, Notify(U, watch_map_),
         UNCHANGED <<watch_map_, last_watch_id_>>, item'[i].cache_id = last_cache_id_ + 1,
         \A j \in cache_hash_map_ \ U : item'[j] = item[j],
         \A h \in Handles : use[h] = "got" => item'[ref[h]].cache_id = item[ref[h]].cache_id,
         \A j \in U : RefsTo(j) # {} => item'[j].cache_id = item[j].cache_id
  PROVE  WorldMoves
<1>0. StoreInv /\ TypeOK /\ cache_hash_map_ \subseteq Items /\ U \in SUBSET Items /\ watch_map_ \subseteq WatchIds
  BY WatchNumbers DEF WatchInv, StoreInv, TypeOK
<1>1. /\ \A w \in watch_map_ : notified[w] \subseteq notified'[w]
      /\ \A j \in U, w \in watch_map_ : w \in item[j].watch_item => item[j].cache_id \in notified'[w]
  BY <1>0, Told
<1>2. WatchMoves
  BY <1>1, WatchesSame
<1>3. LinkedMoves
  <2>1. ASSUME NEW j \in cache_hash_map_, j \notin U
        PROVE  j \in cache_hash_map_' /\ item'[j] = item[j]
    BY <2>1
  <2>2. ASSUME NEW j \in U
        PROVE  /\ j \notin cache_hash_map_' /\ \A w \in item[j].watch_item \cap watch_map_' : item[j].cache_id \in notified'[w]
               /\ RefsTo(j) # {} => item'[j].cache_id = item[j].cache_id
    BY <1>1, <2>2
  <2>. QED
    BY <2>1, <2>2 DEF LinkedMoves
<1>4. IdsKept
  BY DEF IdsKept
<1>5. VersionMoves
  BY DEF VersionMoves
<1>. QED
  BY <1>2, <1>3, <1>4, <1>5 DEF WorldMoves

Moves == WorldMoves /\ GotMoves /\ SeenMoves

\* A get holds an item whose watch_item its watch is on.
LEMMA GotHeld ==
  ASSUME WatchInv, NEW h \in Handles, NEW it \in cache_hash_map_', NEW w \in WatchArgs, Hold(h, it, "got", w),
         WatchOk(w), AsSet(w) \subseteq item'[it].watch_item, UNCHANGED <<watch_map_, last_watch_id_>>
  PROVE  GotMoves
<1>1. /\ ref'[h] = it /\ wid'[h] = w
      /\ \A g \in Handles : g # h => use'[g] = use[g] /\ ref'[g] = ref[g] /\ wid'[g] = wid[g]
  BY DEF WatchInv, StoreInv, TypeOK, Hold
<1>2. w <= last_watch_id_ /\ (w \in watch_map_ => w \in AsSet(w))
  BY WatchNumbers DEF WatchOk, is_valid_watch_id, AsSet
<1>. QED
  BY <1>1, <1>2 DEF GotMoves

\* What is told under w is true of an item that is linked.
LEMMA ToldOfLinked ==
  ASSUME WatchInv, NEW w \in WatchArgs, NEW k, NEW c, NEW op, Tell(w, k, c, op), WatchOk(w),
         UNCHANGED <<watch_map_, last_watch_id_>>, NEW i \in cache_hash_map_',
         item'[i].key = k, item'[i].cache_id = c, AsSet(w) \subseteq item'[i].watch_item
  PROVE  SeenMoves
<1>1. ASSUME NEW s \in seen', s \notin seen
      PROVE  s.watch = w /\ s.key = k /\ s.id = c /\ w \in AsSet(w)
  BY <1>1 DEF Tell, AsSet
<1>2. w <= last_watch_id_
  BY WatchNumbers DEF WatchOk, is_valid_watch_id
<1>. QED
  BY <1>1, <1>2 DEF SeenMoves

LEMMA ReplaceWorld ==
  ASSUME WatchInv, NEW h \in Handles, use[h] = "upload", NEW i, i = ref[h], NEW w \in WatchArgs,
         NEW U \in SUBSET cache_hash_map_, ReplaceBy(U, i, w), UNCHANGED <<watch_map_, last_watch_id_>>
  PROVE  /\ WorldMoves
         /\ i \in cache_hash_map_' /\ item'[i].key = item[i].key
         /\ item'[i].cache_id = get_cache_id /\ AsSet(w) \subseteq item'[i].watch_item
<1>0. /\ StoreInv /\ TypeOK /\ U \in SUBSET Items /\ i \in Items \ cache_hash_map_ /\ i \notin U
      /\ \A g \in Handles : use[g] = "got" => ref[g] # i
      /\ \A g \in Handles : use[g] = "got" => ref[g] \in Items
  BY UploadAlone, Alive DEF WatchInv, StoreInv, TypeOK
<1>1. /\ cache_hash_map_' = (cache_hash_map_ \ U) \cup {i} /\ Notify(U, watch_map_)
      /\ item' = [ItemsAfter(U) EXCEPT ![i].cache_id = get_cache_id, ![i].watch_item = AsSet(w)]
  BY DEF ReplaceBy, Links
<1>2. ItemsAfter(U) \in [Items -> ItemRecord]
  BY <1>0, HelperTypes
<1>3. /\ \A j \in Items \ {i} : item'[j] = ItemsAfter(U)[j]
      /\ item'[i].cache_id = get_cache_id /\ item'[i].watch_item = AsSet(w)
      /\ item'[i].key = ItemsAfter(U)[i].key
  BY <1>0, <1>1, <1>2 DEF ItemRecord
<1>4. /\ \A j \in Items \ U : ItemsAfter(U)[j] = item[j]
      /\ \A j \in U : ref_count[j] # 1 => ItemsAfter(U)[j].cache_id = item[j].cache_id
  BY <1>0, AfterUnlink
<1>5. \A j \in cache_hash_map_ : ref_count[j] = 1 => RefsTo(j) = {}
  BY <1>0, Alive DEF TypeOK
<1>6. /\ \A j \in U : RefsTo(j) # {} => item'[j].cache_id = item[j].cache_id
      /\ \A j \in cache_hash_map_ \ U : item'[j] = item[j]
  BY <1>0, <1>3, <1>4, <1>5 DEF TypeOK
<1>7. \A g \in Handles : use[g] = "got" => item'[ref[g]].cache_id = item[ref[g]].cache_id
  BY <1>0, <1>3, <1>4, <1>6 DEF RefsTo
<1>8. WorldMoves
  BY <1>0, <1>1, <1>3, <1>6, <1>7, LinkWorld DEF get_cache_id
<1>. QED
  BY <1>0, <1>1, <1>3, <1>4, <1>8

LEMMA NewWorld ==
  ASSUME WatchInv, NEW old \in cache_hash_map_, NEW i \in Items \ allocated, ReplaceByNew(old, i),
         UNCHANGED <<watch_map_, last_watch_id_>>, item'[i].cache_id = get_cache_id,
         \A j \in Items : j # i => item'[j].cache_id = ItemsAfter({old})[j].cache_id,
         \A j \in cache_hash_map_ : j # i => item'[j] = ItemsAfter({old})[j]
  PROVE  WorldMoves
<1> DEFINE U == {old}
<1>0. /\ StoreInv /\ TypeOK /\ U \in SUBSET Items /\ U \in SUBSET cache_hash_map_ /\ i \in Items \ cache_hash_map_
      /\ \A g \in Handles : use[g] = "got" => ref[g] \in Items /\ ref[g] # i
  BY Alive DEF WatchInv, StoreInv, TypeOK
<1>1. /\ cache_hash_map_' = (cache_hash_map_ \ U) \cup {i} /\ Notify(U, watch_map_)
  BY DEF ReplaceByNew, Links
<1>2. /\ \A j \in Items : j # i => item'[j].cache_id = ItemsAfter(U)[j].cache_id
      /\ \A j \in cache_hash_map_ : j # i => item'[j] = ItemsAfter(U)[j]
  OBVIOUS
<1>. HIDE DEF U
<1>4. /\ \A j \in Items \ U : ItemsAfter(U)[j] = item[j]
      /\ \A j \in U : ref_count[j] # 1 => ItemsAfter(U)[j].cache_id = item[j].cache_id
  BY <1>0, AfterUnlink
<1>5. \A j \in cache_hash_map_ : ref_count[j] = 1 => RefsTo(j) = {}
  BY <1>0, Alive DEF TypeOK
<1>6. /\ \A j \in U : RefsTo(j) # {} => item'[j].cache_id = item[j].cache_id
      /\ \A j \in cache_hash_map_ \ U : item'[j] = item[j]
  BY <1>0, <1>2, <1>4, <1>5 DEF TypeOK
<1>7. \A g \in Handles : use[g] = "got" => item'[ref[g]].cache_id = item[ref[g]].cache_id
  BY <1>0, <1>2, <1>4, <1>6 DEF RefsTo
<1>. QED
  BY <1>0, <1>1, <1>6, <1>7, LinkWorld DEF get_cache_id

\* The handle h gives up an item that is not linked: nobody else has it.
LEMMA DroppedQuiet ==
  ASSUME WatchInv, NEW h \in Handles, use[h] # "got", NEW i \in Items, i = ref[h],
         \A j \in Items \ Freed({i}) : item'[j].cache_id = item[j].cache_id,
         \A j \in cache_hash_map_ \ Freed({i}) : item'[j] = item[j],
         UNCHANGED <<watch_map_, last_watch_id_, cache_hash_map_, notified>>
  PROVE  WorldMoves
<1>0. StoreInv /\ cache_hash_map_ \subseteq Items
  BY DEF WatchInv, StoreInv, TypeOK
<1>1. h \in RefsTo(i)
  BY DEF RefsTo
<1>2. \A j \in cache_hash_map_ : j \notin Freed({i})
  BY <1>0, <1>1, Alive DEF Freed
<1>3. \A g \in Handles : use[g] = "got" => ref[g] \in Items /\ ref[g] \notin Freed({i})
  BY <1>0, Alive DEF Freed
<1>. QED
  BY <1>2, <1>3, QuietMoves
-----------------------------------------------------------------------------
(* The operations, one by one.                                             *)

LEMMA AllocMoves ==
  ASSUME WatchInv, NEW h \in Handles, NEW k \in Keys, NEW v \in Values, NEW e \in Expirations,
         alloc_item(h, k, v, e)
  PROVE  Moves
<1>0. StoreInv /\ cache_hash_map_ \subseteq allocated
      /\ \A g \in Handles : use[g] = "got" => ref[g] \in allocated /\ ref[g] \in Items
  BY Alive DEF WatchInv
<1>1. PICK i \in Items \ allocated : (\A j \in Items \ {i} : item'[j] = item[j]) /\ Hold(h, i, "upload", 0)
  BY <1>0 DEF alloc_item, StoreInv, TypeOK
<1>2. UNCHANGED <<watch_map_, last_watch_id_, cache_hash_map_, notified>> /\ seen' = seen
  BY DEF alloc_item, watchVars
<1>3. WorldMoves
  BY <1>0, <1>1, <1>2, QuietMoves DEF StoreInv, TypeOK
<1>4. GotMoves
  BY <1>0, <1>1, HandleDropped
<1>. QED
  BY <1>2, <1>3, <1>4, SeenSame DEF Moves

LEMMA AbandonMoves ==
  ASSUME WatchInv, NEW h \in Handles, abandon(h)
  PROVE  Moves
<1>1. UNCHANGED <<watch_map_, last_watch_id_, cache_hash_map_, notified>> /\ seen' = seen /\ item' = item
      /\ Hold(h, NULL, "idle", 0)
  BY DEF abandon, watchVars
<1>2. WorldMoves
  BY <1>1, QuietMoves
<1>3. GotMoves
  BY <1>1, HandleDropped DEF WatchInv
<1>. QED
  BY <1>1, <1>2, <1>3, SeenSame DEF Moves

LEMMA ReleaseMoves ==
  ASSUME WatchInv, NEW h \in Handles, release_reference(h)
  PROVE  Moves
<1>1. PICK i \in Items : i = ref[h]
  BY Alive DEF WatchInv, release_reference
<1>2. UNCHANGED <<watch_map_, last_watch_id_, cache_hash_map_, notified>> /\ seen' = seen
      /\ Hold(h, NULL, "idle", 0) /\ use[h] # "got"
      /\ item' = [j \in Items |-> IF j \in Freed({i}) THEN Blank ELSE item[j]]
  BY <1>1 DEF release_reference, watchVars
<1>3. \A j \in Items \ Freed({i}) : item'[j] = item[j]
  BY <1>2
<1>4. cache_hash_map_ \subseteq Items
  BY DEF WatchInv, StoreInv, TypeOK
<1>5. WorldMoves
  BY <1>1, <1>2, <1>3, <1>4, DroppedQuiet
<1>6. GotMoves
  BY <1>2, HandleDropped DEF WatchInv
<1>. QED
  BY <1>2, <1>5, <1>6, SeenSame DEF Moves

\* Items change only in their expiry, or gain a watch.
LEMMA ItemKept ==
  ASSUME WatchInv, UNCHANGED <<watch_map_, last_watch_id_, cache_hash_map_, notified>>,
         \A i \in Items : /\ item'[i].key = item[i].key /\ item'[i].cache_id = item[i].cache_id
                          /\ item'[i].content = item[i].content
                          /\ item[i].watch_item \subseteq item'[i].watch_item
  PROVE  WorldMoves
<1>1. /\ cache_hash_map_ \subseteq Items
      /\ \A g \in Handles : use[g] = "got" => ref[g] \in Items
  BY Alive DEF WatchInv, StoreInv, TypeOK
<1>. QED
  BY <1>1, QuietMoves

LEMMA GetMoves ==
  ASSUME WatchInv, NEW h \in Handles, NEW k \in Keys, NEW w \in WatchArgs, get(h, k, w)
  PROVE  Moves
<1>0. StoreInv /\ TypeOK /\ watch_map_' = watch_map_ /\ UNCHANGED <<watch_map_, last_watch_id_>> /\ seen' = seen
  BY DEF WatchInv, StoreInv, get
<1>1. PICK it \in find(k) :
          \/ /\ WatchOk(w)
             /\ item' = [item EXCEPT ![it].watch_item = item[it].watch_item \cup AsSet(w)]
             /\ Hold(h, it, "got", w)
             /\ UNCHANGED <<cache_hash_map_, notified>>
          \/ /\ Unlink({it}, watch_map_)
             /\ UNCHANGED <<ref, use, wid>>
  BY DEF get, handleVars
<1>2. it \in cache_hash_map_ /\ it \in Items
  BY <1>0, FindType
<1>3. CASE /\ WatchOk(w)
           /\ item' = [item EXCEPT ![it].watch_item = item[it].watch_item \cup AsSet(w)]
           /\ Hold(h, it, "got", w)
           /\ UNCHANGED <<cache_hash_map_, notified>>
  <2>1. /\ \A i \in Items : /\ item'[i].key = item[i].key /\ item'[i].cache_id = item[i].cache_id
                            /\ item'[i].content = item[i].content
                            /\ item[i].watch_item \subseteq item'[i].watch_item
        /\ AsSet(w) \subseteq item'[it].watch_item
    BY <1>0, <1>2, <1>3 DEF TypeOK, ItemRecord
  <2>2. UNCHANGED <<watch_map_, last_watch_id_, cache_hash_map_, notified>> /\ it \in cache_hash_map_'
    BY <1>0, <1>2, <1>3
  <2>3. WorldMoves
    BY <2>1, <2>2, ItemKept
  <2>4. GotMoves
    BY <1>0, <1>3, <2>1, <2>2, GotHeld
  <2>. QED
    BY <1>0, <2>3, <2>4, SeenSame DEF Moves
<1>4. CASE Unlink({it}, watch_map_) /\ UNCHANGED <<ref, use, wid>>
  <2>1. Unlink({it}, watch_map_') /\ {it} \in SUBSET cache_hash_map_ /\ watch_map_' \subseteq watch_map_
    BY <1>0, <1>2, <1>4
  <2>2. WorldMoves
    BY <1>0, <2>1, UnlinkWorld
  <2>. QED
    BY <1>0, <1>4, <2>2, HandlesSame, SeenSame DEF Moves
<1>. QED
  BY <1>1, <1>3, <1>4

LEMMA GetTouchMoves ==
  ASSUME WatchInv, NEW h \in Handles, NEW k \in Keys, NEW w \in WatchArgs, NEW e \in Expirations,
         get_touch(h, k, w, e)
  PROVE  Moves
<1>0. StoreInv /\ TypeOK /\ UNCHANGED <<watch_map_, last_watch_id_, cache_hash_map_, notified>>
      /\ UNCHANGED <<watch_map_, last_watch_id_>> /\ seen' = seen
  BY DEF WatchInv, StoreInv, get_touch, watchVars
<1> DEFINE touched(it) == [item EXCEPT ![it].expire_time = realtime(e)]
<1>1. PICK it \in find(k) :
          \/ /\ WatchOk(w)
             /\ item' = [touched(it) EXCEPT ![it].watch_item = touched(it)[it].watch_item \cup AsSet(w)]
             /\ Hold(h, it, "got", w)
          \/ item' = touched(it) /\ UNCHANGED <<ref, use, wid>>
  BY DEF get_touch, handleVars
<1>2. it \in cache_hash_map_ /\ it \in Items /\ it \in cache_hash_map_'
  BY <1>0, FindType
<1>3. /\ \A i \in Items : /\ touched(it)[i].key = item[i].key /\ touched(it)[i].cache_id = item[i].cache_id
                          /\ touched(it)[i].content = item[i].content
                          /\ touched(it)[i].watch_item = item[i].watch_item
      /\ touched(it) \in [Items -> ItemRecord]
  BY <1>0, <1>2, HelperTypes, SMTT(30) DEF TypeOK, ItemRecord
<1> DEFINE t == touched(it)
<1>. HIDE DEF touched
<1>4. CASE /\ WatchOk(w)
           /\ item' = [t EXCEPT ![it].watch_item = t[it].watch_item \cup AsSet(w)]
           /\ Hold(h, it, "got", w)
  <2>0. /\ \A i \in Items : /\ t[i].key = item[i].key /\ t[i].cache_id = item[i].cache_id
                            /\ t[i].content = item[i].content
                            /\ t[i].watch_item = item[i].watch_item
        /\ t \in [Items -> ItemRecord]
    BY <1>3
  <2>. HIDE DEF t
  <2>1. /\ \A i \in Items : /\ item'[i].key = t[i].key /\ item'[i].cache_id = t[i].cache_id
                            /\ item'[i].content = t[i].content
                            /\ t[i].watch_item \subseteq item'[i].watch_item
        /\ AsSet(w) \subseteq item'[it].watch_item
    BY <1>2, <1>4, <2>0 DEF ItemRecord
  <2>2. \A i \in Items : /\ item'[i].key = item[i].key /\ item'[i].cache_id = item[i].cache_id
                         /\ item'[i].content = item[i].content
                         /\ item[i].watch_item \subseteq item'[i].watch_item
    BY <2>0, <2>1
  <2>3. WorldMoves
    BY <1>0, <2>2, ItemKept
  <2>4. GotMoves
    BY <1>0, <1>2, <1>4, <2>1, GotHeld
  <2>. QED
    BY <1>0, <2>3, <2>4, SeenSame DEF Moves
<1>5. CASE item' = touched(it) /\ UNCHANGED <<ref, use, wid>>
  <2>1. WorldMoves
    BY <1>0, <1>3, <1>5, ItemKept
  <2>. QED
    BY <1>0, <1>5, <2>1, HandlesSame, SeenSame DEF Moves
<1>. QED
  BY <1>1, <1>4, <1>5

\* The id in the reply is that of the item now, whatever happened since the
\* get: the watch has been on the item all along, or has been told.
LEMMA ReplyMoves ==
  ASSUME WatchInv, NEW h \in Handles, encode_reply(h)
  PROVE  Moves
<1>0. /\ use[h] \in {"got", "loaded"} /\ Finish(h) /\ item' = item
      /\ Tell(wid[h], item[ref[h]].key, item[ref[h]].cache_id, IF use[h] = "got" THEN "get" ELSE "load")
      /\ UNCHANGED <<watch_map_, last_watch_id_, cache_hash_map_, notified>>
  BY DEF encode_reply, storeVars, watchVars
<1>1. WorldMoves
  BY <1>0, ItemKept
<1>2. GotMoves
  BY <1>0, HandleDropped DEF WatchInv
<1>3. SeenMoves
  <2>1. ASSUME NEW s \in seen', s \notin seen, s.op \in {"get", "write"}
        PROVE  /\ use[h] = "got" /\ s.watch = wid[h] /\ s.key = item[ref[h]].key /\ s.id = item[ref[h]].cache_id
    BY <1>0, <2>1 DEF Tell, AsSet
  <2>. QED
    BY <1>0, <2>1 DEF SeenMoves, WatchInv, GotRegistered
<1>. QED
  BY <1>1, <1>2, <1>3 DEF Moves

LEMMA LoseMoves ==
  ASSUME WatchInv, NEW it, LoseReference(it), UNCHANGED <<watch_map_, last_watch_id_, notified>>
  PROVE  WorldMoves
  BY ItemKept DEF LoseReference

LEMMA FlagsMoves ==
  ASSUME WatchInv, NEW k \in Keys, NEW cid, NEW v \in Values, update_flags(k, cid, v)
  PROVE  Moves
<1>0. StoreInv /\ TypeOK /\ UNCHANGED <<ref, use, wid>> /\ UNCHANGED <<watch_map_, last_watch_id_>> /\ seen' = seen
  BY DEF WatchInv, StoreInv, update_flags, handleVars
<1>1. PICK it \in find(k) :
          \/ /\ Notify({it}, watch_map_)
             /\ item' = [item EXCEPT ![it].content = v, ![it].cache_id = get_cache_id,
                                     ![it].watch_item = item[it].watch_item \cap watch_map_]
             /\ UNCHANGED cache_hash_map_
          \/ LoseReference(it) /\ UNCHANGED notified
  BY DEF update_flags
<1>2. it \in cache_hash_map_ /\ it \in Items /\ cache_hash_map_ \subseteq Items
  BY <1>0, FindType
<1>3. CASE /\ Notify({it}, watch_map_)
           /\ item' = [item EXCEPT ![it].content = v, ![it].cache_id = get_cache_id,
                                   ![it].watch_item = item[it].watch_item \cap watch_map_]
           /\ UNCHANGED cache_hash_map_
  <2>1. /\ \A i \in Items \ {it} : item'[i] = item[i]
        /\ item'[it].key = item[it].key /\ item'[it].cache_id = get_cache_id
        /\ item'[it].watch_item = item[it].watch_item \cap watch_map_
    BY <1>0, <1>2, <1>3 DEF TypeOK, ItemRecord
  <2>2. watch_map_ \subseteq WatchIds /\ {it} \in SUBSET Items /\ it \in {it}
    BY <1>0, <1>2 DEF TypeOK
  <2>3. /\ \A w \in watch_map_ : notified[w] \subseteq notified'[w]
        /\ \A i \in {it}, w \in watch_map_ : w \in item[i].watch_item => item[i].cache_id \in notified'[w]
    BY <1>0, <1>3, <2>2, Told
  <2>4. WatchMoves
    BY <1>0, <2>3, WatchesSame
  <2>5. LinkedMoves
    BY <1>0, <1>2, <1>3, <2>1, <2>2, <2>3 DEF LinkedMoves
  <2>6. VersionMoves
    BY <1>2, <1>3, <2>1 DEF VersionMoves, get_cache_id
  <2>7. IdsKept
    <3>1. \A g \in Handles : use[g] = "got" => ref[g] \in Items
      BY <1>0, Alive
    <3>. QED
      BY <1>2, <1>3, <2>1, <3>1 DEF IdsKept
  <2>. QED
    BY <1>0, <2>4, <2>5, <2>6, <2>7, HandlesSame, SeenSame DEF Moves, WorldMoves
<1>4. CASE LoseReference(it) /\ UNCHANGED notified
  <2>1. WorldMoves
    BY <1>0, <1>4, LoseMoves
  <2>. QED
    BY <1>0, <2>1, HandlesSame, SeenSame DEF Moves
<1>. QED
  BY <1>1, <1>3, <1>4

LEMMA ExpirationMoves ==
  ASSUME WatchInv, NEW k \in Keys, NEW cid, NEW e \in Expirations, update_expiration(k, cid, e)
  PROVE  Moves
<1>0. /\ StoreInv /\ TypeOK /\ UNCHANGED <<ref, use, wid>>
      /\ UNCHANGED <<watch_map_, last_watch_id_, notified>> /\ seen' = seen
  BY DEF WatchInv, StoreInv, update_expiration, handleVars, watchVars
<1> DEFINE l == get_expiration_id(realtime(e))
           t == realtime(e)
<1>1. PICK it \in find(k) :
          \/ /\ item' = [item EXCEPT ![it].expiration_id = l, ![it].expire_time = t]
             /\ UNCHANGED cache_hash_map_
          \/ LoseReference(it)
  BY DEF update_expiration
<1>2. it \in Items
  BY <1>0, FindType
<1>. HIDE DEF l, t
<1>3. CASE /\ item' = [item EXCEPT ![it].expiration_id = l, ![it].expire_time = t]
           /\ UNCHANGED cache_hash_map_
  <2>1. \A i \in Items : /\ item'[i].key = item[i].key /\ item'[i].cache_id = item[i].cache_id
                         /\ item'[i].content = item[i].content
                         /\ item[i].watch_item \subseteq item'[i].watch_item
    BY <1>0, <1>2, <1>3 DEF TypeOK, ItemRecord
  <2>2. WorldMoves
    BY <1>0, <1>3, <2>1, ItemKept
  <2>. QED
    BY <1>0, <2>2, HandlesSame, SeenSame DEF Moves
<1>4. CASE LoseReference(it)
  <2>1. WorldMoves
    BY <1>0, <1>4, LoseMoves
  <2>. QED
    BY <1>0, <2>1, HandlesSame, SeenSame DEF Moves
<1>. QED
  BY <1>1, <1>3, <1>4

LEMMA RefuseMoves ==
  ASSUME WatchInv, NEW h \in Handles, Refuse(h), UNCHANGED <<watch_map_, last_watch_id_>>
  PROVE  Moves
<1>1. UNCHANGED <<watch_map_, last_watch_id_, cache_hash_map_, notified>> /\ item' = item /\ seen' = seen /\ Finish(h)
  BY DEF Refuse, storeVars
<1>2. WorldMoves
  BY <1>1, ItemKept
<1>3. GotMoves
  BY <1>1, HandleDropped DEF WatchInv
<1>. QED
  BY <1>1, <1>2, <1>3, SeenSame DEF Moves

\* A write that is done: the watch named is on the new item.
LEMMA WriteMoves ==
  ASSUME WatchInv, NEW h \in Handles, use[h] = "upload", NEW w \in WatchArgs, WatchOk(w),
         NEW U \in SUBSET cache_hash_map_, ReplaceBy(U, ref[h], w), Finish(h),
         Tell(w, item[ref[h]].key, get_cache_id, "write"), UNCHANGED <<watch_map_, last_watch_id_>>
  PROVE  Moves
<1>1. PICK i : i = ref[h]
  OBVIOUS
<1>2. PICK k, c : k = item[i].key /\ c = get_cache_id
  OBVIOUS
<1>3. ReplaceBy(U, i, w) /\ Tell(w, k, c, "write")
  BY <1>1, <1>2
<1>4. /\ WorldMoves /\ i \in cache_hash_map_' /\ item'[i].key = k
      /\ item'[i].cache_id = c /\ AsSet(w) \subseteq item'[i].watch_item
  BY <1>1, <1>2, <1>3, ReplaceWorld
<1>5. SeenMoves
  BY <1>3, <1>4, ToldOfLinked
<1>6. GotMoves
  BY HandleDropped DEF WatchInv
<1>. QED
  BY <1>4, <1>5, <1>6 DEF Moves

LEMMA OverwriteMoves ==
  ASSUME WatchInv, NEW h \in Handles, use[h] = "upload", NEW w \in WatchArgs, NEW cid,
         Overwrite(h, w, cid), UNCHANGED <<watch_map_, last_watch_id_>>
  PROVE  Moves
<1>1. StoreInv /\ item[ref[h]].key \in Keys
  BY UploadAlone DEF WatchInv
<1>2. PICK old \in find(item[ref[h]].key) :
          \/ /\ WatchOk(w) /\ ReplaceBy({old}, ref[h], w) /\ Finish(h)
             /\ Tell(w, item[ref[h]].key, get_cache_id, "write")
          \/ Refuse(h)
  BY DEF Overwrite
<1>3. {old} \in SUBSET cache_hash_map_
  BY <1>1, FindType
<1>. QED
  BY <1>2, <1>3, WriteMoves, RefuseMoves

LEMMA PutMoves ==
  ASSUME WatchInv, NEW h \in Handles, NEW w \in WatchArgs,
         add(h, w) \/ \E cid \in RequestIds : set(h, w, cid) \/ replace(h, w, cid)
  PROVE  Moves
<1>1. use[h] = "upload" /\ UNCHANGED <<watch_map_, last_watch_id_>>
  BY DEF add, set, replace
<1>2. \/ WatchOk(w) /\ ReplaceBy({}, ref[h], w) /\ Finish(h) /\ Tell(w, item[ref[h]].key, get_cache_id, "write")
      \/ \E cid \in RequestIds : Overwrite(h, w, cid)
      \/ Refuse(h)
  BY DEF add, set, replace
<1>3. {} \in SUBSET cache_hash_map_
  OBVIOUS
<1>. QED
  BY <1>1, <1>2, <1>3, WriteMoves, OverwriteMoves, RefuseMoves

LEMMA AppendMoves ==
  ASSUME WatchInv, NEW h \in Handles, NEW w \in WatchArgs, NEW cid, NEW v \in Values, append(h, w, cid, v)
  PROVE  Moves
<1>0. /\ StoreInv /\ TypeOK /\ use[h] = "upload" /\ UNCHANGED <<watch_map_, last_watch_id_>>
      /\ ref[h] \in Items \ cache_hash_map_ /\ ref[h] \in allocated /\ item[ref[h]].key \in Keys
  BY UploadAlone DEF WatchInv, StoreInv, append
<1>1. PICK it, k : it = ref[h] /\ k = item[it].key
  OBVIOUS
<1>2. \/ Refuse(h)
      \/ \E old \in find(k) : LoseReference(old) /\ Finish(h) /\ UNCHANGED <<notified, seen>>
      \/ \E old \in find(k), i \in Items \ allocated :
            /\ ReplaceByNew(old, i)
            /\ item' = [ItemsAfter({old}) EXCEPT ![i] = NewItem(old, v), ![it].watch_item = @ \cup AsSet(w)]
            /\ Finish(h) /\ Tell(w, k, get_cache_id, "concat")
  BY <1>1 DEF append
<1>3. CASE Refuse(h)
  BY <1>0, <1>3, RefuseMoves
<1>4. ASSUME NEW old \in find(k), LoseReference(old), Finish(h), UNCHANGED <<notified, seen>>
      PROVE  Moves
  <2>1. WorldMoves
    BY <1>0, <1>4, LoseMoves
  <2>2. GotMoves
    BY <1>0, <1>4, HandleDropped
  <2>. QED
    BY <1>4, <2>1, <2>2, SeenSame DEF Moves
<1>5. ASSUME NEW old \in find(k), NEW i \in Items \ allocated, ReplaceByNew(old, i),
             item' = [ItemsAfter({old}) EXCEPT ![i] = NewItem(old, v), ![it].watch_item = @ \cup AsSet(w)],
             Finish(h), Tell(w, k, get_cache_id, "concat")
      PROVE  Moves
  <2>1. /\ old \in cache_hash_map_ /\ old \in Items /\ cache_hash_map_ \subseteq Items
        /\ it \in Items /\ it \notin cache_hash_map_ /\ it # i
    BY <1>0, <1>1, FindType
  <2>2. ItemsAfter({old}) \in [Items -> ItemRecord]
    BY <1>0, <2>1, HelperTypes
  <2>3. /\ item'[i] = NewItem(old, v)
        /\ \A j \in Items : j # i /\ j # it => item'[j] = ItemsAfter({old})[j]
        /\ item'[it].cache_id = ItemsAfter({old})[it].cache_id
    BY <1>5, <2>1, <2>2 DEF ItemRecord
  <2>4. NewItem(old, v).cache_id = get_cache_id
    BY DEF NewItem, Blank
  <2>5. WorldMoves
    BY <1>0, <1>5, <2>1, <2>3, <2>4, NewWorld
  <2>6. GotMoves
    BY <1>0, <1>5, HandleDropped
  <2>7. SeenMoves
    BY <1>5 DEF Tell, SeenMoves
  <2>. QED
    BY <2>5, <2>6, <2>7 DEF Moves
<1>. QED
  BY <1>2, <1>3, <1>4, <1>5

LEMMA LoadMoves ==
  ASSUME WatchInv, NEW h \in Handles, NEW w \in WatchArgs, load_from_file(h, w)
  PROVE  Moves
<1>0. /\ StoreInv /\ TypeOK /\ use[h] = "upload" /\ UNCHANGED <<watch_map_, last_watch_id_>> /\ seen' = seen
      /\ ref[h] \in Items \ cache_hash_map_
  BY UploadAlone DEF WatchInv, StoreInv, load_from_file
<1>1. PICK i \in Items \ cache_hash_map_ : i = ref[h]
  BY <1>0
<1>2. \/ WatchOk(w) /\ ReplaceBy({}, i, w) /\ Hold(h, i, "got", w)
      \/ /\ item' = ItemsAfter({i}) /\ \E x, u, y : Hold(h, x, u, y) /\ u # "got"
         /\ UNCHANGED <<cache_hash_map_, notified>>
  <2>1. "idle" # "got" /\ "loaded" # "got"
    OBVIOUS
  <2>. QED
    BY <1>1, <2>1 DEF load_from_file
<1>3. CASE WatchOk(w) /\ ReplaceBy({}, i, w) /\ Hold(h, i, "got", w)
  <2>1. {} \in SUBSET cache_hash_map_
    OBVIOUS
  <2>2. WorldMoves /\ i \in cache_hash_map_' /\ AsSet(w) \subseteq item'[i].watch_item
    BY <1>0, <1>1, <1>3, <2>1, ReplaceWorld
  <2>3. GotMoves
    BY <1>0, <1>3, <2>2, GotHeld
  <2>. QED
    BY <1>0, <2>2, <2>3, SeenSame DEF Moves
<1>4. CASE /\ item' = ItemsAfter({i}) /\ \E x, u, y : Hold(h, x, u, y) /\ u # "got"
           /\ UNCHANGED <<cache_hash_map_, notified>>
  <2>1. {i} \in SUBSET Items /\ cache_hash_map_ \subseteq Items /\ use[h] # "got"
    BY <1>0 DEF TypeOK
  <2>2. /\ \A j \in Items \ {i} : item'[j] = item[j]
        /\ \A j \in {i} : ref_count[j] # 1 => item'[j].cache_id = item[j].cache_id
    BY <1>0, <1>4, <2>1, AfterUnlink
  <2>3. /\ \A j \in Items \ Freed({i}) : item'[j].cache_id = item[j].cache_id
        /\ \A j \in cache_hash_map_ \ Freed({i}) : item'[j] = item[j]
    BY <1>1, <2>1, <2>2 DEF Freed
  <2>4. WorldMoves
    BY <1>0, <1>1, <1>4, <2>1, <2>3, DroppedQuiet
  <2>5. GotMoves
    BY <1>0, <1>4, HandleDropped
  <2>. QED
    BY <1>0, <2>4, <2>5, SeenSame DEF Moves
<1>. QED
  BY <1>2, <1>3, <1>4

LEMMA DeltaMoves ==
  ASSUME WatchInv, NEW k \in Keys, NEW cid, NEW v \in Values, delta(k, cid, v)
  PROVE  Moves
<1>0. StoreInv /\ TypeOK /\ UNCHANGED <<ref, use, wid>> /\ UNCHANGED <<watch_map_, last_watch_id_>>
  BY DEF WatchInv, StoreInv, delta, handleVars
<1>1. ASSUME NEW it \in find(k), NEW i \in Items \ allocated, ReplaceByNew(it, i),
             item' = [ItemsAfter({it}) EXCEPT ![i] = NewItem(it, v)], UNCHANGED seen
      PROVE  Moves
  <2>1. it \in cache_hash_map_ /\ it \in Items /\ cache_hash_map_ \subseteq Items
    BY <1>0, FindType
  <2>2. ItemsAfter({it}) \in [Items -> ItemRecord]
    BY <1>0, <2>1, HelperTypes
  <2>3. /\ item'[i] = NewItem(it, v)
        /\ \A j \in Items : j # i => item'[j] = ItemsAfter({it})[j]
    BY <1>1, <2>1, <2>2
  <2>4. NewItem(it, v).cache_id = get_cache_id
    BY DEF NewItem, Blank
  <2>5. WorldMoves
    BY <1>0, <1>1, <2>1, <2>3, <2>4, NewWorld
  <2>. QED
    BY <1>0, <1>1, <2>5, HandlesSame, SeenSame DEF Moves
<1>2. ASSUME NEW it \in find(k),
             item' = [item EXCEPT ![it].content = v, ![it].cache_id = get_cache_id],
             seen' = {IF s.id = item[it].cache_id /\ s.op \in {"get", "write"}
                      THEN [s EXCEPT !.op = "overwritten"] ELSE s : s \in seen},
             UNCHANGED <<cache_hash_map_, notified>>
      PROVE  Moves
  <2>1. it \in cache_hash_map_ /\ it \in Items /\ cache_hash_map_ \subseteq Items
    BY <1>0, FindType
  <2>2. /\ \A i \in Items \ {it} : item'[i] = item[i]
        /\ item'[it].key = item[it].key /\ item'[it].cache_id = get_cache_id
        /\ item'[it].watch_item = item[it].watch_item
    BY <1>0, <1>2, <2>1 DEF TypeOK, ItemRecord
  <2>3. ASSUME NEW s \in seen', s.op \in {"get", "write"}
        PROVE  s \in seen /\ s.id # item[it].cache_id
    <3>1. PICK r \in seen : s = IF r.id = item[it].cache_id /\ r.op \in {"get", "write"}
                                THEN [r EXCEPT !.op = "overwritten"] ELSE r
      BY <1>2
    <3>2. r \in [watch: WatchIds, key: Keys, id: Nat, op: Ops]
      BY <1>0 DEF TypeOK
    <3>3. [r EXCEPT !.op = "overwritten"].op = "overwritten"
      BY <3>2
    <3>. QED
      BY <2>3, <3>1, <3>3
  <2>4. WatchMoves
    BY <1>0, <1>2, WatchesSame
  <2>5. LinkedMoves
    <3>1. \A s \in seen' : s.id = item[it].cache_id => s.op \notin {"get", "write"}
      BY <2>3
    <3>2. it \in cache_hash_map_' /\ item[it].watch_item \cap watch_map_' \subseteq item'[it].watch_item
      BY <1>2, <2>1, <2>2
    <3>3. \A i \in cache_hash_map_ : i # it => i \in cache_hash_map_' /\ item'[i] = item[i]
      BY <1>2, <2>1, <2>2
    <3>. QED
      BY <2>2, <3>1, <3>2, <3>3 DEF LinkedMoves
  <2>6. VersionMoves
    BY <1>2, <2>1, <2>2 DEF VersionMoves, get_cache_id
  <2>7. IdsKept
    <3>1. \A g \in Handles : use[g] = "got" => ref[g] \in Items
      BY <1>0, Alive
    <3>. QED
      BY <1>2, <2>1, <2>2, <3>1 DEF IdsKept
  <2>8. SeenMoves
    BY <2>3 DEF SeenMoves
  <2>. QED
    BY <1>0, <2>4, <2>5, <2>6, <2>7, <2>8, HandlesSame DEF Moves, WorldMoves
<1>. QED
  BY <1>1, <1>2 DEF delta

LEMMA RemoveMoves ==
  ASSUME WatchInv, (\E k \in Keys, cid \in RequestIds : remove(k, cid)) \/ (\E g \in Groups : flush(g))
  PROVE  Moves
<1>1. /\ UNCHANGED <<ref, use, wid>> /\ seen' = seen /\ UNCHANGED last_watch_id_
      /\ watch_map_' \subseteq watch_map_ /\ watch_map_' = watch_map_
  BY DEF remove, flush, handleVars
<1>2. StoreInv
  BY DEF WatchInv
<1>3. PICK U \in SUBSET cache_hash_map_ : Unlink(U, watch_map_')
  <2>1. ASSUME NEW k \in Keys, NEW cid \in RequestIds, remove(k, cid)
        PROVE  \E U \in SUBSET cache_hash_map_ : Unlink(U, watch_map_)
    <3>1. PICK it \in find(k) : Unlink({it}, watch_map_)
      BY <2>1 DEF remove
    <3>2. {it} \in SUBSET cache_hash_map_
      BY <1>2, FindType
    <3>. QED
      BY <3>1, <3>2
  <2>2. ASSUME NEW g \in Groups, flush(g)
        PROVE  \E U \in SUBSET cache_hash_map_ : Unlink(U, watch_map_)
    <3> DEFINE U == {i \in expire_list_["timed"] \cup expire_list_["never"] : GroupOf[item[i].key] = g}
    <3>1. Unlink(U, watch_map_)
      BY <2>2 DEF flush
    <3>2. U \in SUBSET cache_hash_map_
      BY <1>2 DEF StoreInv, TypeOK, TableAndListsAgree
    <3>. HIDE DEF U
    <3>. QED
      BY <3>1, <3>2
  <2>. QED
    BY <1>1, <2>1, <2>2
<1>4. WorldMoves
  BY <1>1, <1>3, UnlinkWorld
<1>. QED
  BY <1>1, <1>4, HandlesSame, SeenSame DEF Moves

LEMMA ExpiredMoves ==
  ASSUME WatchInv, check_expired
  PROVE  Moves
<1>1. /\ UNCHANGED <<ref, use, wid>> /\ seen' \subseteq seen /\ UNCHANGED last_watch_id_
      /\ watch_map_' \subseteq watch_map_
  BY DEF check_expired, handleVars
<1>2. PICK U \in SUBSET {i \in expire_list_["timed"] : item[i].expire_time <= curr_time} : Unlink(U, watch_map_')
  BY DEF check_expired
<1>3. U \in SUBSET cache_hash_map_
  BY DEF WatchInv, StoreInv, TypeOK, TableAndListsAgree
<1>4. WorldMoves
  BY <1>1, <1>2, <1>3, UnlinkWorld
<1>. QED
  BY <1>1, <1>4, HandlesSame, SeenSame DEF Moves

LEMMA WatchesAndClockMoves ==
  ASSUME WatchInv,
         \/ \E e \in Expirations : create_watch(e)
         \/ \E w \in WatchIds, e \in Expirations : check_watch(w, e)
         \/ Tick \/ UNCHANGED vars
  PROVE  Moves
<1>1. UNCHANGED <<item, cache_hash_map_, notified>> /\ UNCHANGED <<ref, use, wid>> /\ seen' = seen
  BY DEF create_watch, check_watch, Tick, vars, storeVars, handleVars, watchVars
<1>2. \/ UNCHANGED <<watch_map_, last_watch_id_>>
      \/ last_watch_id_' = last_watch_id_ + 1 /\ watch_map_' = watch_map_ \cup {last_watch_id_ + 1}
  BY DEF create_watch, check_watch, Tick, vars, watchVars, get_watch_id
<1>3. WatchMoves
  BY <1>1, <1>2, WatchNumbers DEF WatchMoves
<1>4. LinkedMoves /\ IdsKept /\ VersionMoves
  BY <1>1 DEF LinkedMoves, IdsKept, VersionMoves
<1>. QED
  BY <1>1, <1>3, <1>4, HandlesSame, SeenSame DEF Moves, WorldMoves

LEMMA NextMoves ==
  ASSUME WatchInv, [Next]_vars
  PROVE  Moves
<1>1. CASE Next
  BY <1>1, AllocMoves, AbandonMoves, ReleaseMoves, ReplyMoves, GetMoves, GetTouchMoves, PutMoves, LoadMoves,
     AppendMoves, FlagsMoves, DeltaMoves, ExpirationMoves, RemoveMoves, WatchesAndClockMoves, ExpiredMoves
  DEF Next
<1>2. CASE UNCHANGED vars
  BY <1>2, WatchesAndClockMoves
<1>. QED
  BY <1>1, <1>2

(***************************************************************************)
(* WatchInv is an inductive invariant: the watch of a get in progress, the *)
(* numbering of the watches and the coherence of what clients were told.   *)
(***************************************************************************)
THEOREM WatchesAreSound == ASSUME NoWrap PROVE Spec => []WatchInv
<1>1. ASSUME Init PROVE WatchInv
  <2>1. StoreInv
    BY <1>1, InitStoreInv
  <2>2. GotRegistered /\ WatchesNumbered /\ WatchCoherence
    BY <1>1 DEF Init, GotRegistered, WatchesNumbered, WatchCoherence
  <2>. QED
    BY <2>1, <2>2 DEF WatchInv
<1>2. ASSUME NoWrap, WatchInv, [Next]_vars PROVE WatchInv'
  <2>1. StoreInv'
    BY <1>2, NextStoreInv DEF WatchInv
  <2>. QED
    BY <1>2, <2>1, NextMoves, MovesKeepWatchInv DEF Moves
<1>3. NoWrap => (WatchInv /\ [Next]_vars => WatchInv')
  BY <1>2
<1>. QED
  BY <1>1, <1>3, PTL DEF Spec

(***************************************************************************)
(* A client that was told a version under a live watch either still has    *)
(* the current one with its watch on it, or that watch has been told that  *)
(* the version is gone: do_unlink and update_flags against the replies of  *)
(* get and of the writes, sent after the lock is released.                 *)
(***************************************************************************)
THEOREM WatchesAreCoherent == ASSUME NoWrap PROVE Spec => []WatchCoherence
<1>1. WatchInv => WatchCoherence
  BY DEF WatchInv
<1>. QED
  BY <1>1, WatchesAreSound, PTL

(***************************************************************************)
(* No id ever stands for two contents of a key: where a step changes the   *)
(* content linked under a key, get_cache_id gave it an id that is new.     *)
(***************************************************************************)
THEOREM IdsNameContents == ASSUME NoWrap PROVE Spec => IdNamesContent
<1>1. ASSUME WatchInv, [Next]_vars
      PROVE  [\A i \in cache_hash_map_, j \in cache_hash_map_' :
                /\ item[i].key = item'[j].key
                /\ item[i].content # item'[j].content
                => item'[j].cache_id > last_cache_id_]_vars
  <2>1. VersionMoves /\ last_cache_id_ \in Nat /\ OneItemPerKey
    BY <1>1, NextMoves DEF Moves, WorldMoves, WatchInv, StoreInv, TypeOK
  <2>2. ASSUME NEW i \in cache_hash_map_, NEW j \in cache_hash_map_', item[i].key = item'[j].key,
               item[i].content # item'[j].content
        PROVE  item'[j].cache_id > last_cache_id_
    <3>1. ~(j \in cache_hash_map_ /\ item'[j].key = item[j].key /\ item'[j].content = item[j].content)
      BY <2>1, <2>2 DEF OneItemPerKey
    <3>2. item'[j].cache_id = last_cache_id_ + 1
      BY <2>1, <3>1 DEF VersionMoves
    <3>. QED
      BY <2>1, <3>2
  <2>. QED
    BY <2>2
<1>. QED
  BY <1>1, WatchesAreSound, PTL DEF Spec, IdNamesContent
=============================================================================
