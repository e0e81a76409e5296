-------------------------- MODULE CachePartsProofs --------------------------
(***************************************************************************)
(* Proofs about two parts of Cache_Mgr that share no state with each other:*)
(* the expiry lists (ExpireList), for any widths of the lists, any number  *)
(* of lists and items and any step of the clock, and the memory of items   *)
(* (ItemAlloc), for any sizes, any growth factor above 1 and any limits.   *)
(***************************************************************************)
EXTENDS ExpireList, ItemAlloc, DataLemmas
-----------------------------------------------------------------------------
(* The expiry lists.                                                       *)

USE DEF Timed, Never

LEMMA RealTime ==
  ASSUME NEW t \in Nat, NEW e \in Nat
  PROVE  realtime(t, e) \in Nat /\ realtime(t, e) <= t + e
         /\ (realtime(t, e) # 0 => realtime(t, e) = t + e)
         /\ (t > 0 /\ realtime(t, e) # 0 => realtime(t, e) > t)
  BY ExpireListAssumption DEF realtime

\* The list chosen is no wider than what is left; a time already past gets the
\* first one.
LEMMA ChosenFits ==
  ASSUME NEW now \in Nat, NEW t \in Nat, NEW l \in 0..(Never + 1),
         get_expiration_id(now, t, l)
  PROVE  /\ l \in 0..Never
         /\ t = 0 <=> l = Never
         /\ l # Never /\ t > now => now + expiration_time_[l] <= t
         /\ l # Never /\ t <= now => l = 0
  BY ExpireListAssumption DEF get_expiration_id

LEMMA InitWheelInv == Init => WheelInv
  BY ExpireListAssumption DEF Init, WheelInv, TypeOK, ScanBound, UploadFits, WheelInTime,
     SweptClean, Deadline

\* What a request's expiration becomes, and the list for it.
LEMMA NewTime ==
  ASSUME WheelInv, NEW e \in Expirations, NEW l \in 0..(Never + 1),
         get_expiration_id(curr_time, realtime(curr_time, e), l)
  PROVE  LET t == realtime(curr_time, e) IN
         /\ t \in Nat
         /\ l \in 0..Never
         /\ t = 0 <=> l = Never
         /\ l # Never => t > curr_time /\ curr_time + expiration_time_[l] <= t
<1> DEFINE t == realtime(curr_time, e)
<1>1. curr_time \in Nat /\ curr_time > 0 /\ e \in Nat
  BY ExpireListAssumption DEF WheelInv, TypeOK, ScanBound
<1>2. t \in Nat /\ (t = 0 \/ t > curr_time)
  BY <1>1, RealTime
<1>. HIDE DEF t
<1>3. get_expiration_id(curr_time, t, l)
  BY DEF t
<1>4. /\ l \in 0..Never /\ (t = 0 <=> l = Never)
      /\ l # Never => t > curr_time /\ curr_time + expiration_time_[l] <= t
  BY <1>1, <1>2, <1>3, ChosenFits
<1>. QED
  BY <1>2, <1>4 DEF t

LEMMA AllocItem ==
  ASSUME WheelInv, NEW x \in Items, NEW e \in Expirations, alloc_item(x, e)
  PROVE  WheelInv'
<1> DEFINE t == realtime(curr_time, e)
<1>1. PICK l \in 0..(Never + 1) : /\ get_expiration_id(curr_time, t, l)
                                  /\ expiration_id' = [expiration_id EXCEPT ![x] = l]
  BY DEF alloc_item
<1>2. /\ t \in Nat /\ l \in 0..Never /\ (t = 0 <=> l = Never)
      /\ l # Never => t > curr_time /\ curr_time + expiration_time_[l] <= t
  BY <1>1, NewTime
<1>3. /\ expire_time' = [expire_time EXCEPT ![x] = t]
      /\ where[x] = "free" /\ where' = [where EXCEPT ![x] = "upload"]
      /\ born' = [born EXCEPT ![x] = curr_time]
      /\ UNCHANGED <<curr_time, last_check_expired_time_, timer, expire_check_time_, slack, misfiled>>
  BY DEF alloc_item, clockVars
<1>. HIDE DEF t
<1>4. TypeOK'
  BY <1>1, <1>2, <1>3 DEF WheelInv, TypeOK
<1>5. ScanBound'
  BY <1>3 DEF WheelInv, ScanBound
<1>6. UploadFits'
  BY <1>1, <1>2, <1>3 DEF WheelInv, TypeOK, UploadFits
<1>7. WheelInTime' /\ SweptClean'
  BY <1>1, <1>3 DEF WheelInv, TypeOK, WheelInTime, SweptClean, Deadline
<1>. QED
  BY <1>4, <1>5, <1>6, <1>7 DEF WheelInv

LEMMA DoLink ==
  ASSUME WheelInv, NEW x \in Items, do_link(x)
  PROVE  WheelInv'
<1>1. /\ where[x] = "upload" /\ where' = [where EXCEPT ![x] = "linked"]
      /\ slack' = [slack EXCEPT ![x] = curr_time - born[x]]
      /\ UNCHANGED <<curr_time, last_check_expired_time_, timer, expire_check_time_,
                     expire_time, expiration_id, born, misfiled>>
  BY DEF do_link, clockVars
<1>2. /\ curr_time \in Nat /\ born[x] \in Nat /\ expire_time[x] \in Nat
      /\ born[x] <= curr_time /\ expiration_id[x] \in 0..Never
      /\ last_check_expired_time_ \in Nat /\ last_check_expired_time_ <= curr_time
  BY DEF WheelInv, TypeOK, UploadFits, ScanBound
<1>3. TypeOK'
  BY <1>1, <1>2 DEF WheelInv, TypeOK
<1>4. ScanBound' /\ UploadFits'
  BY <1>1 DEF WheelInv, TypeOK, ScanBound, UploadFits
<1>5. expiration_id[x] # Never =>
          /\ Deadline(x)' > last_check_expired_time_
          /\ expire_check_time_[expiration_id[x]] <= Deadline(x)'
  <2> SUFFICES ASSUME expiration_id[x] # Never
               PROVE  /\ Deadline(x)' > last_check_expired_time_
                      /\ expire_check_time_[expiration_id[x]] <= Deadline(x)'
    OBVIOUS
  <2> DEFINE i == expiration_id[x]
  <2>1. /\ i \in Timed /\ expiration_time_[i] \in Nat /\ expire_check_time_[i] \in Nat
        /\ expire_check_time_[i] <= curr_time + expiration_time_[i]
        /\ expire_time[x] > born[x] /\ born[x] + expiration_time_[i] <= expire_time[x]
    <3>1. i \in Timed
      BY <1>2, ExpireListAssumption
    <3>2. expire_time[x] > born[x] /\ born[x] + expiration_time_[i] <= expire_time[x]
      BY <1>1 DEF WheelInv, UploadFits
    <3>3. expire_check_time_[i] <= curr_time + expiration_time_[i]
      BY <3>1 DEF WheelInv, ScanBound
    <3>4. expiration_time_[i] \in Nat /\ expire_check_time_[i] \in Nat
      BY <3>1, ExpireListAssumption DEF WheelInv, TypeOK
    <3>. QED
      BY <3>1, <3>2, <3>3, <3>4
  <2>2. Deadline(x)' = expire_time[x] + (curr_time - born[x])
    BY <1>1 DEF WheelInv, TypeOK, Deadline
  <2>. QED
    BY <1>2, <2>1, <2>2
<1>6. expire_time[x] = 0 <=> expiration_id[x] = Never
  BY <1>1 DEF WheelInv, UploadFits
<1>7. \A y \in Items : y # x => Deadline(y)' = Deadline(y) /\ where'[y] = where[y]
  BY <1>1 DEF WheelInv, TypeOK, Deadline
<1>8. WheelInTime' /\ SweptClean'
  BY <1>1, <1>5, <1>6, <1>7 DEF WheelInv, WheelInTime, SweptClean
<1>. QED
  BY <1>3, <1>4, <1>8 DEF WheelInv

LEMMA Leaving ==
  ASSUME WheelInv, NEW x \in Items, Leave(x)
  PROVE  WheelInv'
<1>1. /\ where' = [where EXCEPT ![x] = "free"]
      /\ expire_time' = [expire_time EXCEPT ![x] = 0]
      /\ expiration_id' = [expiration_id EXCEPT ![x] = 0]
      /\ born' = [born EXCEPT ![x] = 0]
      /\ slack' = [slack EXCEPT ![x] = 0]
      /\ misfiled' = [misfiled EXCEPT ![x] = FALSE]
      /\ UNCHANGED <<curr_time, last_check_expired_time_, timer, expire_check_time_>>
  BY DEF Leave, clockVars
<1>2. TypeOK'
  BY <1>1, ExpireListAssumption DEF WheelInv, TypeOK
<1>3. UploadFits'
  BY <1>1 DEF WheelInv, TypeOK, UploadFits
<1>4. WheelInTime' /\ SweptClean'
  BY <1>1 DEF WheelInv, TypeOK, WheelInTime, SweptClean, Deadline
<1>5. ScanBound'
  BY <1>1 DEF WheelInv, ScanBound
<1>. QED
  BY <1>2, <1>3, <1>4, <1>5 DEF WheelInv

\* An item is given another time or another list: what is left to show of it.
LEMMA Placed ==
  ASSUME WheelInv, NEW x \in Items, NEW t \in Nat, NEW l \in 0..Never, NEW s \in Nat,
         NEW m \in BOOLEAN, NEW b \in Nat, b <= curr_time, where[x] = "linked",
         ~m => /\ t = 0 <=> l = Never
               /\ l # Never => /\ t + s > last_check_expired_time_
                               /\ expire_check_time_[l] <= t + s,
         expire_time' = [expire_time EXCEPT ![x] = t],
         expiration_id' = [expiration_id EXCEPT ![x] = l],
         slack' = [slack EXCEPT ![x] = s],
         misfiled' = [misfiled EXCEPT ![x] = m],
         born' = [born EXCEPT ![x] = b],
         UNCHANGED <<curr_time, last_check_expired_time_, timer, expire_check_time_, where>>
  PROVE  WheelInv'
<1>1. TypeOK'
  BY DEF WheelInv, TypeOK
<1>2. ScanBound'
  BY DEF WheelInv, ScanBound
<1>3. UploadFits'
  BY DEF WheelInv, TypeOK, UploadFits
<1>4. /\ expire_time'[x] = t /\ expiration_id'[x] = l /\ misfiled'[x] = m /\ Deadline(x)' = t + s
      /\ \A y \in Items : y # x => /\ expire_time'[y] = expire_time[y]
                                   /\ expiration_id'[y] = expiration_id[y]
                                   /\ misfiled'[y] = misfiled[y]
                                   /\ Deadline(y)' = Deadline(y)
  BY DEF WheelInv, TypeOK, Deadline
<1>5. WheelInTime'
  BY <1>4 DEF WheelInv, WheelInTime
<1>6. SweptClean'
  BY <1>4 DEF WheelInv, SweptClean
<1>. QED
  BY <1>1, <1>2, <1>3, <1>5, <1>6 DEF WheelInv

LEMMA UpdateExpiration ==
  ASSUME WheelInv, NEW x \in Items, NEW e \in Expirations, update_expiration(x, e)
  PROVE  WheelInv'
<1> DEFINE t == realtime(curr_time, e)
<1>1. PICK l \in 0..(Never + 1) : /\ get_expiration_id(curr_time, t, l)
                                  /\ expiration_id' = [expiration_id EXCEPT ![x] = l]
  BY DEF update_expiration
<1>2. /\ t \in Nat /\ l \in 0..Never /\ (t = 0 <=> l = Never)
      /\ l # Never => t > curr_time /\ curr_time + expiration_time_[l] <= t
  BY <1>1, NewTime
<1>3. /\ expire_time' = [expire_time EXCEPT ![x] = t]
      /\ slack' = [slack EXCEPT ![x] = 0]
      /\ misfiled' = [misfiled EXCEPT ![x] = FALSE]
      /\ where[x] = "linked"
      /\ UNCHANGED <<curr_time, last_check_expired_time_, timer, expire_check_time_, where, born>>
  BY DEF update_expiration, clockVars
<1>. HIDE DEF t
<1>4. l # Never => t + 0 > last_check_expired_time_ /\ expire_check_time_[l] <= t + 0
  BY <1>2, ExpireListAssumption, SMTT(30) DEF WheelInv, TypeOK, ScanBound
<1>5. /\ born' = [born EXCEPT ![x] = born[x]] /\ born[x] \in Nat /\ born[x] <= curr_time
  BY <1>3 DEF WheelInv, TypeOK, UploadFits
<1>. QED
  BY <1>1, <1>2, <1>3, <1>4, <1>5, Placed

LEMMA AppendCopies ==
  ASSUME WheelInv, NEW x \in Items, append(x)
  PROVE  WheelInv'
<1>1. PICK t \in Nat : t = expire_time[x]
  BY DEF WheelInv, TypeOK
<1>2. PICK l \in 0..(Never + 1) : /\ get_expiration_id(curr_time, t, l)
                                  /\ expiration_id' = [expiration_id EXCEPT ![x] = l]
  BY <1>1 DEF append
<1>3. /\ curr_time \in Nat /\ last_check_expired_time_ \in Nat
      /\ last_check_expired_time_ <= curr_time
      /\ expire_check_time_[0] <= last_check_expired_time_ + 1
      /\ \A i \in Timed : expire_check_time_[i] <= curr_time + expiration_time_[i]
      /\ \A i \in Timed : expire_check_time_[i] \in Nat /\ expiration_time_[i] \in Nat
  BY ExpireListAssumption DEF WheelInv, TypeOK, ScanBound
<1>4. /\ l \in 0..Never /\ (t = 0 <=> l = Never)
      /\ l # Never /\ t > curr_time => curr_time + expiration_time_[l] <= t
      /\ l # Never /\ t <= curr_time => l = 0
  BY <1>2, <1>3, ChosenFits
<1>5. PICK s \in Nat : s = IF t # 0 /\ t <= last_check_expired_time_
                           THEN last_check_expired_time_ + 1 - t ELSE 0
  <2>1. t <= last_check_expired_time_ => last_check_expired_time_ + 1 - t \in Nat
    BY <1>3
  <2>. QED
    BY <2>1
<1>6. /\ slack' = [slack EXCEPT ![x] = s]
      /\ misfiled' = [misfiled EXCEPT ![x] = FALSE]
      /\ born' = [born EXCEPT ![x] = curr_time]
      /\ where[x] = "linked"
      /\ UNCHANGED <<curr_time, last_check_expired_time_, timer, expire_check_time_, where, expire_time>>
  BY <1>1, <1>5 DEF append, clockVars
<1>7. expire_time' = [expire_time EXCEPT ![x] = t]
  BY <1>1, <1>6 DEF WheelInv, TypeOK
<1>8. ASSUME l # Never
      PROVE  t + s > last_check_expired_time_ /\ expire_check_time_[l] <= t + s
  <2>0. l \in Timed /\ 0 \in Timed /\ t # 0
    BY <1>4, <1>8, ExpireListAssumption
  <2>1. CASE t > curr_time
    BY <1>3, <1>4, <1>5, <1>8, <2>0, <2>1
  <2>2. CASE t <= curr_time
    <3>1. l = 0 /\ t + s >= last_check_expired_time_ + 1
      BY <1>3, <1>4, <1>5, <1>8, <2>0, <2>2
    <3>. QED
      BY <1>3, <2>0, <3>1
  <2>. QED
    BY <1>3, <2>1, <2>2
<1>9. curr_time <= curr_time /\ FALSE \in BOOLEAN
  BY <1>3
<1>. QED
  BY <1>2, <1>3, <1>4, <1>6, <1>7, <1>8, <1>9, Placed

LEMMA GetTouch ==
  ASSUME WheelInv, NEW x \in Items, NEW e \in Expirations, do_get_touch(x, e)
  PROVE  WheelInv'
<1>1. PICK t \in Nat : t = realtime(curr_time, e)
  BY RealTime, ExpireListAssumption DEF WheelInv, TypeOK
<1>2. PICK m \in BOOLEAN : m <=> (misfiled[x] \/ expire_time[x] = 0 \/ t < Deadline(x))
  OBVIOUS
<1>3. /\ where[x] = "linked"
      /\ expire_time' = [expire_time EXCEPT ![x] = t]
      /\ slack' = [slack EXCEPT ![x] = 0]
      /\ UNCHANGED <<curr_time, last_check_expired_time_, timer, expire_check_time_, where,
                     expiration_id, born>>
  BY <1>1 DEF do_get_touch, clockVars
<1>4. misfiled' = [misfiled EXCEPT ![x] = m]
  <2>1. misfiled[x] \in BOOLEAN
    BY DEF WheelInv, TypeOK
  <2>2. misfiled' = [misfiled EXCEPT ![x] = misfiled[x] \/ expire_time[x] = 0 \/ t < Deadline(x)]
    BY <1>1 DEF do_get_touch
  <2>3. (misfiled[x] \/ expire_time[x] = 0 \/ t < Deadline(x)) = m
    BY <1>2, <2>1
  <2>. QED
    BY <2>2, <2>3
<1>5. PICK l \in 0..Never : l = expiration_id[x]
  BY DEF WheelInv, TypeOK
<1>6. /\ expiration_id' = [expiration_id EXCEPT ![x] = l]
      /\ born' = [born EXCEPT ![x] = born[x]] /\ born[x] \in Nat /\ born[x] <= curr_time
  BY <1>3, <1>5 DEF WheelInv, TypeOK, UploadFits
<1>7. ASSUME ~m
      PROVE  /\ t = 0 <=> l = Never
             /\ l # Never => /\ t + 0 > last_check_expired_time_
                             /\ expire_check_time_[l] <= t + 0
  <2>1. ~misfiled[x] /\ expire_time[x] # 0 /\ ~(t < Deadline(x))
    BY <1>2, <1>7
  <2>2. /\ Deadline(x) \in Nat /\ Deadline(x) >= expire_time[x] /\ expire_time[x] \in Nat
        /\ last_check_expired_time_ \in Nat
    BY DEF WheelInv, TypeOK, Deadline
  <2>3. /\ l # Never /\ Deadline(x) > last_check_expired_time_
        /\ expire_check_time_[l] <= Deadline(x)
    BY <1>3, <1>5, <2>1 DEF WheelInv, WheelInTime, SweptClean
  <2>4. expire_check_time_[l] \in Nat
    <3>1. l \in Timed
      BY <2>3, ExpireListAssumption
    <3>. QED
      BY <3>1 DEF WheelInv, TypeOK
  <2>. QED
    BY <2>1, <2>2, <2>3, <2>4
<1>. QED
  BY <1>3, <1>4, <1>6, <1>7, Placed

LEMMA SetCurrentTime ==
  ASSUME WheelInv, NEW d \in 0..MaxStep, set_current_time(d)
  PROVE  WheelInv'
<1>1. /\ curr_time' = curr_time + d /\ timer' = "check"
      /\ UNCHANGED <<last_check_expired_time_, expire_check_time_, where, expire_time,
                     expiration_id, born, slack, misfiled>>
      /\ d \in Nat
  BY ExpireListAssumption DEF set_current_time, itemVars
<1>2. TypeOK' /\ WheelInTime' /\ SweptClean'
  BY <1>1 DEF WheelInv, TypeOK, WheelInTime, SweptClean, Deadline
<1>3. ScanBound'
  BY <1>1, ExpireListAssumption DEF WheelInv, TypeOK, ScanBound
<1>4. UploadFits'
  BY <1>1 DEF WheelInv, TypeOK, UploadFits
<1>. QED
  BY <1>2, <1>3, <1>4 DEF WheelInv

LEMMA CheckExpired ==
  ASSUME WheelInv, check_expired
  PROVE  WheelInv'
<1>0. /\ timer' = "set" /\ last_check_expired_time_' = curr_time /\ UNCHANGED curr_time
      /\ curr_time \in Nat /\ curr_time > 0
  BY DEF check_expired, WheelInv, TypeOK, ScanBound
<1>1. CASE curr_time = last_check_expired_time_
             /\ UNCHANGED <<expire_check_time_, where, expire_time, expiration_id, born, slack, misfiled>>
  BY <1>0, <1>1 DEF WheelInv, TypeOK, ScanBound, UploadFits, WheelInTime, SweptClean, Deadline
<1>2. CASE expire_items
  <2>0. ASSUME NEW i \in Timed
        PROVE  /\ expire_check_time_'[i] \in Nat
               /\ expire_check_time_'[i] <= curr_time + expiration_time_[i]
               /\ i \in DueLists => expire_check_time_'[i] <= curr_time + expiration_time_[i]
               /\ i \notin DueLists => /\ expire_check_time_'[i] = expire_check_time_[i]
                                      /\ expire_check_time_[i] > curr_time
    <3>1. /\ expiration_time_[i] \in Nat /\ expire_check_time_[i] \in Nat
          /\ expire_check_time_[i] <= curr_time + expiration_time_[i]
      BY ExpireListAssumption DEF WheelInv, TypeOK, ScanBound
    <3>2. /\ realtime(curr_time, expiration_time_[i]) \in Nat
          /\ realtime(curr_time, expiration_time_[i]) <= curr_time + expiration_time_[i]
      BY <1>0, <3>1, RealTime
    <3>3. expire_check_time_'[i] = IF i \in DueLists THEN realtime(curr_time, expiration_time_[i])
                                   ELSE expire_check_time_[i]
      BY <1>2 DEF expire_items
    <3>. QED
      BY <1>0, <3>1, <3>2, <3>3 DEF DueLists
  <2>1. ASSUME NEW x \in Items
        PROVE  /\ where'[x] = IF x \in Expired THEN "free" ELSE where[x]
               /\ expire_time'[x] = IF x \in Expired THEN 0 ELSE expire_time[x]
               /\ born'[x] = IF x \in Expired THEN 0 ELSE born[x]
               /\ slack'[x] = IF x \in Scanned THEN 0 ELSE slack[x]
               /\ misfiled'[x] = (x \notin Scanned /\ misfiled[x])
               /\ expiration_id'[x] \in 0..Never
               /\ x \in Expired => expiration_id'[x] = 0
               /\ x \in Scanned \ Expired =>
                     /\ expire_time[x] > curr_time
                     /\ expiration_id'[x] \in Timed
                     /\ expiration_time_[expiration_id'[x]] <= expire_time[x] - curr_time
               /\ x \notin Scanned => expiration_id'[x] = expiration_id[x]
    <3>1. Expired \subseteq Scanned
      BY DEF Expired
    <3>2. /\ expiration_id'[x] \in 0..Never
          /\ x \in Expired => expiration_id'[x] = 0
          /\ x \in Scanned \ Expired =>
                rebucket(x, expire_time[x] - curr_time, expiration_id'[x])
          /\ x \notin Scanned => expiration_id'[x] = expiration_id[x]
      BY <1>2, <3>1 DEF expire_items
    <3>3. x \in Scanned => expiration_id[x] \in Timed
      BY DEF Scanned, DueLists
    <3>4. x \in Scanned \ Expired => expire_time[x] > curr_time
      BY <1>0 DEF Expired, WheelInv, TypeOK
    <3>5. /\ where'[x] = IF x \in Expired THEN "free" ELSE where[x]
          /\ expire_time'[x] = IF x \in Expired THEN 0 ELSE expire_time[x]
          /\ born'[x] = IF x \in Expired THEN 0 ELSE born[x]
          /\ slack'[x] = IF x \in Scanned THEN 0 ELSE slack[x]
          /\ misfiled'[x] = (x \notin Scanned /\ misfiled[x])
      BY <1>2, <3>1 DEF expire_items
    <3>6. x \in Scanned \ Expired =>
             /\ expiration_id'[x] \in Timed
             /\ expiration_time_[expiration_id'[x]] <= expire_time[x] - curr_time
      BY <3>2, <3>3, ExpireListAssumption DEF rebucket
    <3>. QED
      BY <3>1, <3>2, <3>4, <3>5, <3>6
  <2>2. TypeOK'
    <3>1. expire_check_time_' \in [Timed -> Nat]
      BY <1>2, <2>0 DEF expire_items
    <3>2. /\ where' \in [Items -> {"free", "upload", "linked"}]
          /\ expire_time' \in [Items -> Nat]
          /\ born' \in [Items -> Nat]
          /\ expiration_id' \in [Items -> 0..Never]
      BY <1>2 DEF expire_items, WheelInv, TypeOK
    <3>3. slack' \in [Items -> Nat] /\ misfiled' \in [Items -> BOOLEAN]
      BY <1>2 DEF expire_items, WheelInv, TypeOK
    <3>. QED
      BY <1>0, <3>1, <3>2, <3>3 DEF TypeOK
  <2>3. ScanBound'
    <3>1. curr_time # last_check_expired_time_ => 0 \in DueLists
      <4>1. 0 \in Timed
        BY ExpireListAssumption
      <4>2. /\ expire_check_time_[0] <= last_check_expired_time_ + 1
            /\ expire_check_time_[0] \in Nat /\ last_check_expired_time_ \in Nat
            /\ last_check_expired_time_ <= curr_time
        BY <4>1 DEF WheelInv, TypeOK, ScanBound
      <4>. QED
        BY <1>0, <4>1, <4>2 DEF DueLists
    <3>2. 0 \in Timed /\ expiration_time_[0] = 1
      BY ExpireListAssumption
    <3>3. expire_check_time_'[0] <= curr_time + 1
      BY <2>0, <3>2
    <3>. QED
      BY <1>0, <2>0, <3>3 DEF ScanBound
  <2>4. UploadFits'
    <3>1. \A x \in Items : x \in Scanned => where[x] = "linked"
      BY DEF Scanned
    <3>2. Expired \subseteq Scanned
      BY DEF Expired
    <3>3. ASSUME NEW x \in Items PROVE where'[x] # "linked" => ~misfiled'[x]
      BY <2>1, <3>1, <3>2 DEF UploadFits, WheelInv
    <3>4. ASSUME NEW x \in Items, where'[x] = "upload"
          PROVE  /\ where[x] = "upload" /\ expire_time'[x] = expire_time[x]
                 /\ expiration_id'[x] = expiration_id[x] /\ born'[x] = born[x]
      BY <2>1, <3>1, <3>2, <3>4
    <3>5. ASSUME NEW x \in Items PROVE born'[x] <= curr_time
      BY <1>0, <2>1 DEF UploadFits, WheelInv
    <3>. QED
      BY <1>0, <3>3, <3>4, <3>5 DEF UploadFits, WheelInv
  <2>5. ASSUME NEW x \in Items, where'[x] = "linked", ~misfiled'[x]
        PROVE  /\ expire_time'[x] = 0 <=> expiration_id'[x] = Never
               /\ expiration_id'[x] # Never =>
                     /\ expire_check_time_'[expiration_id'[x]] <= Deadline(x)'
                     /\ Deadline(x)' > last_check_expired_time_'
    <3>0. /\ x \notin Expired /\ where[x] = "linked" /\ expire_time'[x] = expire_time[x]
          /\ expiration_id'[x] \in 0..Never /\ expire_time[x] \in Nat
      BY <2>1, <2>5 DEF WheelInv, TypeOK
    <3>1. CASE x \in Scanned
      <4>1. /\ expire_time[x] > curr_time /\ expiration_id'[x] \in Timed
            /\ expiration_time_[expiration_id'[x]] <= expire_time[x] - curr_time
            /\ slack'[x] = 0
        BY <2>1, <3>0, <3>1
      <4>2. Deadline(x)' = expire_time[x]
        BY <3>0, <4>1 DEF Deadline
      <4>3. expire_check_time_'[expiration_id'[x]] <= curr_time + expiration_time_[expiration_id'[x]]
        BY <2>0, <4>1
      <4>4. /\ expiration_time_[expiration_id'[x]] \in Nat
            /\ expire_check_time_'[expiration_id'[x]] \in Nat
        BY <2>0, <4>1, ExpireListAssumption
      <4>5. expiration_id'[x] # Never
        BY <4>1, ExpireListAssumption
      <4>. QED
        BY <1>0, <3>0, <4>1, <4>2, <4>3, <4>4, <4>5
    <3>2. CASE x \notin Scanned
      <4>1. /\ slack'[x] = slack[x] /\ expiration_id'[x] = expiration_id[x] /\ ~misfiled[x]
        BY <2>1, <2>5, <3>2
      <4>2. Deadline(x)' = Deadline(x)
        BY <3>0, <4>1 DEF Deadline
      <4>3. /\ expire_time[x] = 0 <=> expiration_id[x] = Never
            /\ expiration_id[x] # Never => expire_check_time_[expiration_id[x]] <= Deadline(x)
        BY <3>0, <4>1 DEF WheelInv, WheelInTime
      <4>4. ASSUME expiration_id[x] # Never
            PROVE  /\ expire_check_time_'[expiration_id[x]] <= Deadline(x)
                   /\ Deadline(x) > curr_time
        <5>0. expiration_id[x] \in Timed
          BY <3>0, <4>1, <4>4, ExpireListAssumption
        <5>1. expiration_id[x] \notin DueLists
          BY <3>0, <3>2 DEF Scanned
        <5>2. /\ expire_check_time_'[expiration_id[x]] = expire_check_time_[expiration_id[x]]
              /\ expire_check_time_[expiration_id[x]] > curr_time
          BY <2>0, <5>0, <5>1
        <5>3. expire_check_time_[expiration_id[x]] \in Nat /\ Deadline(x) \in Nat
          BY <5>0 DEF WheelInv, TypeOK, Deadline
        <5>. QED
          BY <1>0, <4>3, <4>4, <5>2, <5>3
      <4>. QED
        BY <1>0, <3>0, <4>1, <4>2, <4>3, <4>4
    <3>. QED
      BY <3>1, <3>2
  <2>6. WheelInTime' /\ SweptClean'
    BY <2>5 DEF WheelInTime, SweptClean
  <2>. QED
    BY <2>2, <2>3, <2>4, <2>6 DEF WheelInv
<1>. QED
  BY <1>1, <1>2 DEF check_expired, itemVars

LEMMA NextWheelInv == WheelInv /\ [Next]_vars => WheelInv'
<1> SUFFICES ASSUME WheelInv, [Next]_vars PROVE WheelInv'
  OBVIOUS
<1>1. CASE Next
  BY <1>1, AllocItem, DoLink, Leaving, UpdateExpiration, AppendCopies, GetTouch, SetCurrentTime, CheckExpired
     DEF Next, do_unlink, do_get_expired
<1>2. CASE UNCHANGED vars
  BY <1>2 DEF vars, clockVars, itemVars, WheelInv, TypeOK, ScanBound, UploadFits, WheelInTime,
     SweptClean, Deadline
<1>. QED
  BY <1>1, <1>2

(***************************************************************************)
(* The wheel's state keeps its type; the list of an item exists.           *)
(***************************************************************************)
THEOREM WheelTypeCorrect == Spec => []TypeOK
<1>1. WheelInv => TypeOK
  BY DEF WheelInv
<1>. QED
  BY <1>1, InitWheelInv, NextWheelInv, PTL DEF Spec

(***************************************************************************)
(* The list of every linked item that no touch by get has misfiled is      *)
(* scanned by the item's deadline, for any list widths: expire_items,      *)
(* do_alloc, do_link, update_expiration, append.                           *)
(***************************************************************************)
THEOREM WheelIsInTime == Spec => []WheelInTime
<1>1. WheelInv => WheelInTime
  BY DEF WheelInv
<1>. QED
  BY <1>1, InitWheelInv, NextWheelInv, PTL DEF Spec

(***************************************************************************)
(* No item survives check_expired past its deadline, unless a touch by get *)
(* has misfiled it.                                                        *)
(***************************************************************************)
THEOREM SweepIsComplete == Spec => []SweptClean
<1>1. WheelInv => SweptClean
  BY DEF WheelInv
<1>. QED
  BY <1>1, InitWheelInv, NextWheelInv, PTL DEF Spec
-----------------------------------------------------------------------------
(* The memory of items: ItemAlloc, for any sizes, factor above 1 and limit.  *)

CMax == class_id_max_

LEMMA SumOfFunction ==
  \A f : SumFunction(f) = SumFunctionOnSet(f, DOMAIN f)
BY DEF SumFunction, SumFunctionOnSet, FoldFunctionOnSet, MapThenFoldSet

LEMMA Rounded ==
  ASSUME NEW n \in Nat
  PROVE  RoundedUp(n) \in Nat /\ n <= RoundedUp(n)
BY DEF RoundedUp, CHUNK_ALIGN_BYTES

\* A size times the factor is no smaller.
LEMMA Scaled ==
  ASSUME NEW y \in Nat, NEW num \in Nat, NEW den \in Nat, den > 0, num > den
  PROVE  (y * num) \div den \in Nat /\ y <= (y * num) \div den
<1>1. y * num \in Nat
  OBVIOUS
<1>2. PICK a \in Nat : a = y * num
  BY <1>1
<1>3. PICK q \in Nat : q = a \div den
  BY Divides
<1>4. a < den * q + den
  BY <1>3, Divides
<1>5. ASSUME q < y PROVE FALSE
  <2>1. q + 1 <= y
    BY <1>5
  <2>2. den * (q + 1) <= den * y
    BY <2>1
  <2>3. den * (q + 1) = den * q + den
    OBVIOUS
  <2>4. den * y <= y * num
    OBVIOUS
  <2>5. PICK u \in Int, v \in Int : u = den * (q + 1) /\ v = den * y
    OBVIOUS
  <2>. QED
    BY <1>2, <1>4, <2>2, <2>3, <2>4, <2>5
<1>. QED
  BY <1>2, <1>3, <1>5

\* The sizes init goes through.
LEMMA SizesOfClasses ==
  /\ \A c \in Nat : SizeAt[c] \in Nat /\ SizeAt[c] > 0
  /\ \A c \in Nat : c >= 1 => RoundedUp(SizeAt[c]) <= SizeAt[c + 1]
<1> DEFINE a == HeaderSize + item_size_min
           G == [x \in Nat |-> (RoundedUp(x) * FactorNum) \div FactorDen]
           f == SizeAt
<1>1. a \in Nat /\ a > 0 /\ FactorNum \in Nat /\ FactorDen \in Nat /\ FactorDen > 0 /\ FactorNum > FactorDen
  BY ItemAllocAssumption
<1>2. ASSUME NEW x \in Nat PROVE G[x] \in Nat /\ RoundedUp(x) <= G[x] /\ x <= G[x]
  <2>1. PICK y \in Nat : y = RoundedUp(x) /\ x <= y
    BY Rounded
  <2>2. (y * FactorNum) \div FactorDen \in Nat /\ y <= (y * FactorNum) \div FactorDen
    BY <1>1, Scaled
  <2>3. G[x] = (y * FactorNum) \div FactorDen
    BY <2>1
  <2>. QED
    BY <2>1, <2>2, <2>3
<1> HIDE DEF a, G
<1>3. PICK g : Iterates(g, a, G, Nat)
  BY IteratesExists
<1>4. \A c \in Nat : g[c] \in Nat /\ g[c] > 0
  <2> DEFINE B == {c \in Nat : ~(g[c] \in Nat /\ g[c] > 0)}
  <2>1. SUFFICES ASSUME B # {} PROVE FALSE
    OBVIOUS
  <2>2. PICK c \in B : \A d \in B : c <= d
    <3>1. B \in SUBSET Nat
      OBVIOUS
    <3> HIDE DEF B
    <3>. QED
      BY <2>1, <3>1, Least
  <2>3. c \in Nat /\ ~(g[c] \in Nat /\ g[c] > 0)
    OBVIOUS
  <2>4. g[c] = IF c <= 1 THEN a ELSE G[g[c - 1]]
    BY <1>3, <2>3 DEF Iterates
  <2>5. c > 1 /\ c - 1 \in Nat /\ ~(c <= c - 1)
    BY <1>1, <2>3, <2>4
  <2>6. g[c - 1] \in Nat /\ g[c - 1] > 0
    BY <2>2, <2>5
  <2>7. g[c] = G[g[c - 1]]
    BY <2>4, <2>5
  <2>. QED
    BY <1>2, <2>3, <2>6, <2>7
<1>5. g = [c \in Nat |-> IF c <= 1 THEN HeaderSize + item_size_min
                          ELSE (RoundedUp(g[c - 1]) * FactorNum) \div FactorDen]
  <2>1. \A c \in Nat : ~(c <= 1) => G[g[c - 1]] = (RoundedUp(g[c - 1]) * FactorNum) \div FactorDen
    <3>1. \A c \in Nat : ~(c <= 1) => c - 1 \in Nat
      OBVIOUS
    <3>. QED
      BY <1>4, <3>1 DEF G
  <2>2. [c \in Nat |-> IF c <= 1 THEN a ELSE G[g[c - 1]]]
          = [c \in Nat |-> IF c <= 1 THEN HeaderSize + item_size_min
                           ELSE (RoundedUp(g[c - 1]) * FactorNum) \div FactorDen]
    BY <2>1 DEF a
  <2>. QED
    BY <1>3, <2>2 DEF Iterates
<1>6. f = [c \in Nat |-> IF c <= 1 THEN HeaderSize + item_size_min
                          ELSE (RoundedUp(f[c - 1]) * FactorNum) \div FactorDen]
  BY <1>5 DEF SizeAt, CLASSID_MIN
<1> HIDE DEF f
<1>7. \A c \in Nat : f[c] \in Nat /\ f[c] > 0
  <2> DEFINE B == {c \in Nat : ~(f[c] \in Nat /\ f[c] > 0)}
  <2>1. SUFFICES ASSUME B # {} PROVE FALSE
    OBVIOUS
  <2>2. PICK c \in B : \A d \in B : c <= d
    <3>1. B \in SUBSET Nat
      OBVIOUS
    <3> HIDE DEF B
    <3>. QED
      BY <2>1, <3>1, Least
  <2>3. c \in Nat /\ ~(f[c] \in Nat /\ f[c] > 0)
    OBVIOUS
  <2>4. f[c] = IF c <= 1 THEN a ELSE (RoundedUp(f[c - 1]) * FactorNum) \div FactorDen
    BY <1>6, <2>3 DEF a
  <2>5. c > 1 /\ c - 1 \in Nat /\ ~(c <= c - 1)
    BY <1>1, <2>3, <2>4
  <2>6. f[c - 1] \in Nat /\ f[c - 1] > 0
    BY <2>2, <2>5
  <2>7. f[c] = G[f[c - 1]]
    BY <2>4, <2>5, <2>6 DEF G
  <2>. QED
    BY <1>2, <2>3, <2>6, <2>7
<1>8. ASSUME NEW c \in Nat, c >= 1 PROVE RoundedUp(f[c]) <= f[c + 1]
  <2>1. c + 1 \in Nat /\ ~(c + 1 <= 1) /\ (c + 1) - 1 = c
    BY <1>8
  <2>2. f[c + 1] = G[f[c]]
    BY <1>6, <1>7, <2>1 DEF G
  <2>. QED
    BY <1>2, <1>7, <2>2
<1>. QED
  BY <1>7, <1>8 DEF f

LEMMA LastClass ==
  CMax \in 1..ClassIdMax /\ CMax \in Nat /\ CMax >= 1 /\ Classes = 1..CMax
<1>1. ClassIdMax \in Nat /\ ClassIdMax >= 1
  BY ItemAllocAssumption
<1> DEFINE T == {c \in 1..ClassIdMax : ~Grows(c)}
<1>2. ClassIdMax \in T
  BY <1>1 DEF Grows
<1>3. PICK c \in T : \A d \in T : c <= d
  <2>1. T \in SUBSET Nat /\ T # {}
    BY <1>2
  <2> HIDE DEF T
  <2>. QED
    BY <2>1, Least
<1>4. ~Grows(c) /\ \A d \in 1..(c - 1) : Grows(d)
  <2>1. \A d \in 1..(c - 1) : d \in 1..ClassIdMax /\ ~(c <= d)
    BY <1>1
  <2>. QED
    BY <1>3, <2>1
<1>5. CMax \in 1..ClassIdMax
  BY <1>4 DEF CMax, class_id_max_, CLASSID_MIN
<1>. QED
  BY <1>1, <1>5 DEF CMax, Classes, CLASSID_MIN

\* The sizes of the classes: those before the last do not get smaller.
LEMMA MaxSizes ==
  /\ max_size_[0] = 0
  /\ \A c \in 0..CMax : max_size_[c] \in Nat
  /\ \A c \in 1..CMax : max_size_[c] > 0
  /\ \A c \in 1..CMax, d \in 1..CMax : (d < c /\ c < CMax) => max_size_[d] <= max_size_[c]
<1> DEFINE f == SizeAt
           m == max_size_
           A(n) == RoundedUp(n)
<1>1. CMax \in Nat /\ CMax >= 1
  BY LastClass
<1>2. /\ \A c \in Nat : f[c] \in Nat /\ f[c] > 0
      /\ \A c \in Nat : c >= 1 => A(f[c]) <= f[c + 1]
  BY SizesOfClasses
<1>3. m = [c \in 0..CMax |->
             CASE c = 0 -> 0
               [] c \in 1..(CMax - 1) -> A(f[c])
               [] OTHER -> HeaderSize + item_size_max]
  BY DEF max_size_, CMax, CLASSID_MIN
<1> HIDE DEF f, m, A
<1>4. m[0] = 0
  BY <1>1, <1>3
<1>5. \A c \in 1..(CMax - 1) : m[c] = A(f[c])
  <2>1. \A c \in 1..(CMax - 1) : c \in 0..CMax /\ c # 0
    BY <1>1
  <2>. QED
    BY <1>3, <2>1
<1>6. m[CMax] = HeaderSize + item_size_max
  <2>1. CMax \in 0..CMax /\ CMax # 0 /\ CMax \notin 1..(CMax - 1)
    BY <1>1
  <2>. QED
    BY <1>3, <2>1
<1>7. \A n \in Nat : A(n) \in Nat /\ n <= A(n)
  BY Rounded DEF A
<1>8. \A c \in 0..CMax : m[c] \in Nat
  <2>1. \A c \in 0..CMax : c = 0 \/ c \in 1..(CMax - 1) \/ c = CMax
    BY <1>1
  <2>2. \A c \in 1..(CMax - 1) : m[c] \in Nat
    <3>1. \A c \in 1..(CMax - 1) : c \in Nat
      OBVIOUS
    <3>. QED
      BY <1>2, <1>5, <1>7, <3>1
  <2>3. HeaderSize + item_size_max \in Nat
    BY ItemAllocAssumption
  <2>. QED
    BY <1>4, <1>6, <2>1, <2>2, <2>3
<1>9. ASSUME NEW d \in 1..CMax, NEW e \in 1..CMax, d < e, e < CMax
      PROVE  m[d] <= m[e]
  <2> DEFINE B == {c \in Nat : d <= c /\ c < CMax /\ ~(m[d] <= m[c])}
  <2>1. SUFFICES ASSUME B # {} PROVE FALSE
    BY <1>9
  <2>2. PICK c \in B : \A b \in B : c <= b
    <3>1. B \in SUBSET Nat
      OBVIOUS
    <3> HIDE DEF B
    <3>. QED
      BY <2>1, <3>1, Least
  <2>3. c \in Nat /\ d <= c /\ c < CMax /\ ~(m[d] <= m[c])
    OBVIOUS
  <2>4. m[d] \in Nat /\ m[c] \in Nat
    BY <1>1, <1>8, <2>3
  <2>5. c # d
    BY <2>3, <2>4
  <2>6. c - 1 \in 1..(CMax - 1) /\ c \in 1..(CMax - 1) /\ d <= c - 1 /\ ~(c <= c - 1) /\ (c - 1) + 1 = c
        /\ c - 1 \in Nat /\ c - 1 < CMax /\ c - 1 >= 1
    BY <1>1, <2>3, <2>5
  <2>7. m[d] <= m[c - 1]
    BY <2>2, <2>6
  <2>8. m[c - 1] = A(f[c - 1]) /\ m[c] = A(f[c])
    BY <1>5, <2>6
  <2>9. A(f[c - 1]) <= f[c] /\ f[c] \in Nat
    BY <1>2, <2>3, <2>6
  <2>10. f[c] <= A(f[c]) /\ A(f[c - 1]) \in Nat /\ A(f[c]) \in Nat
    BY <1>2, <1>7, <2>6, <2>9
  <2>. QED
    BY <2>3, <2>4, <2>7, <2>8, <2>9, <2>10
<1>10. \A c \in 1..CMax : m[c] > 0
  <2>1. \A c \in 1..CMax : c \in 1..(CMax - 1) \/ c = CMax
    BY <1>1
  <2>2. ASSUME NEW c \in 1..(CMax - 1) PROVE m[c] > 0
    <3>1. PICK x \in Nat : x = f[c] /\ x > 0
      BY <1>2
    <3>2. A(x) \in Nat /\ x <= A(x)
      BY <1>7
    <3>. QED
      BY <1>5, <3>1, <3>2
  <2>3. HeaderSize + item_size_max > 0
    BY ItemAllocAssumption
  <2>. QED
    BY <1>6, <2>1, <2>2, <2>3
<1>. QED
  BY <1>4, <1>8, <1>9, <1>10 DEF m

LEMMA FreeCounts ==
  ASSUME NEW c \in Classes
  PROVE  free_cache_max_count[c] \in Nat
<1>1. c \in Nat /\ CMax \in Nat
  BY LastClass
<1>2. CASE c = CMax
  BY <1>2 DEF free_cache_max_count, CMax
<1>3. CASE c # CMax
  <2>1. PICK a \in Nat : a = RoundedUp(SizeAt[c]) /\ a > 0
    <3>1. PICK x \in Nat : x = SizeAt[c] /\ x > 0
      BY <1>1, SizesOfClasses
    <3>2. RoundedUp(x) \in Nat /\ x <= RoundedUp(x)
      BY Rounded
    <3>. QED
      BY <3>1, <3>2
  <2>2. FreeBytes \in Nat /\ FreeCountMax \in Nat
    BY ItemAllocAssumption
  <2>3. PICK q \in Nat : q = FreeBytes \div a
    BY <2>1, <2>2, Divides
  <2>4. free_cache_max_count[c] = Min({q, FreeCountMax})
    BY <1>3, <2>1, <2>3 DEF free_cache_max_count, CMax
  <2>. QED
    BY <2>2, <2>3, <2>4, MinOfTwo
<1>. QED
  BY <1>2, <1>3

\* Every class below c is smaller: so is every class a search ends at, and the
\* search that starts there misses none.
Widest(c) == \A d \in 1..(c - 1) : max_size_[d] < max_size_[c]

\* What the class of the size n is.
LEMMA TightestIs ==
  ASSUME NEW n \in Nat, n > 0, NEW c \in 1..CMax, n <= max_size_[c],
         \A d \in 1..(c - 1) : max_size_[d] < n
  PROVE  Tightest(n) = c /\ Widest(c)
<1> DEFINE m == max_size_
           fits == {d \in 1..CMax : n <= m[d]}
<1>1. /\ CMax \in Nat /\ Classes = 1..CMax /\ \A d \in 0..CMax : m[d] \in Nat
  BY LastClass, MaxSizes
<1> HIDE DEF m
<1>2. \A d \in fits : c <= d
  <2>1. ASSUME NEW d \in 1..CMax, d < c PROVE ~(n <= m[d])
    <3>1. d \in 1..(c - 1) /\ d \in 0..CMax
      BY <1>1, <2>1
    <3>2. m[d] < n /\ m[d] \in Nat
      BY <1>1, <3>1 DEF m
    <3>. QED
      BY <3>2
  <2>. QED
    BY <1>1, <2>1
<1>3. c \in fits /\ fits \in SUBSET Nat
  BY DEF m
<1>4. Tightest(n) = IF n = 0 \/ fits = {} THEN 0 ELSE Min(fits)
  BY <1>1 DEF Tightest, m
<1>5. Widest(c)
  <2>1. ASSUME NEW d \in 1..(c - 1) PROVE m[d] < m[c]
    <3>1. m[d] < n /\ n <= m[c]
      BY DEF m
    <3>2. m[d] \in Nat /\ m[c] \in Nat
      BY <1>1
    <3>. QED
      BY <3>1, <3>2
  <2>. QED
    BY <2>1 DEF Widest, m
<1> HIDE DEF fits
<1>6. Min(fits) = c
  BY <1>2, <1>3, MinIs
<1>. QED
  BY <1>3, <1>4, <1>5, <1>6

LEMMA SearchSome ==
  ASSUME NEW n \in Nat, n > 0, NEW last \in 0..CMax, Widest(last)
  PROVE  /\ get_class_id(n, last) = Tightest(n)
         /\ Tightest(n) \in 0..CMax
         /\ Tightest(n) # 0 => Widest(Tightest(n))
<1> DEFINE m == max_size_
<1>1. /\ CMax \in Nat /\ Classes = 1..CMax /\ \A d \in 0..CMax : m[d] \in Nat
      /\ m[0] = 0
  BY LastClass, MaxSizes
<1>2. \A c \in 1..CMax, d \in 1..CMax : (d < c /\ c < CMax) => m[d] <= m[c]
  BY MaxSizes
<1>3. \A d \in 1..(last - 1) : m[d] < m[last]
  BY DEF Widest
<1>4. last \in Nat /\ last \in 0..CMax /\ m[last] \in Nat
  BY <1>1
<1>5. CASE n < m[last]
  <2> DEFINE Stops(c) == n > m[c - 1] /\ \A d \in (c + 1)..last : n <= m[d - 1]
             Ends(c) == (c = 0 \/ n > m[c - 1]) /\ \A d \in (c + 1)..last : n <= m[d - 1]
  <2>1. get_class_id(n, last) = CHOOSE c \in 0..last : Ends(c)
    BY <1>5 DEF get_class_id
  <2> HIDE DEF m
  <2>0. last >= 1
    BY <1>1, <1>4, <1>5
  <2>2. \E c \in 1..last : Stops(c)
    <3> DEFINE T == {i \in Nat : i < last /\ n > m[(last - i) - 1]}
    <3>1. last - 1 \in T
      <4>1. (last - (last - 1)) - 1 = 0 /\ last - 1 \in Nat /\ last - 1 < last
        BY <1>4, <2>0
      <4>. QED
        BY <1>1, <4>1
    <3>2. PICK i \in T : \A j \in T : i <= j
      <4>1. T \in SUBSET Nat /\ T # {}
        BY <3>1
      <4> HIDE DEF T
      <4>. QED
        BY <4>1, Least
    <3>3. i \in Nat /\ i < last /\ n > m[(last - i) - 1]
      OBVIOUS
    <3>4. last - i \in 1..last
      BY <1>4, <3>3
    <3>5. ASSUME NEW d \in ((last - i) + 1)..last PROVE n <= m[d - 1]
      <4>1. last - d \in Nat /\ last - d < last /\ ~(i <= last - d) /\ (last - (last - d)) - 1 = d - 1
        BY <1>4, <3>3
      <4>2. ~(n > m[d - 1])
        BY <3>2, <4>1
      <4>3. d - 1 \in 0..CMax
        BY <1>1, <1>4, <3>3
      <4>. QED
        BY <1>1, <4>2, <4>3
    <3>. QED
      BY <3>3, <3>4, <3>5
  <2>3. PICK c \in 1..last : c = get_class_id(n, last) /\ Stops(c)
    <3>1. \A c \in 1..last : c \in 0..last /\ (Stops(c) => Ends(c))
      BY <1>4
    <3>2. PICK c \in 0..last : c = get_class_id(n, last) /\ Ends(c)
      <4> HIDE DEF Stops, Ends
      <4>. QED
        BY <2>1, <2>2, <3>1
    <3>3. c # 0
      <4>1. SUFFICES ASSUME c = 0 PROVE FALSE
        OBVIOUS
      <4>2. 1 \in (c + 1)..last /\ 1 - 1 = 0
        BY <1>4, <2>0, <4>1
      <4>. QED
        BY <1>1, <3>2, <4>2
    <3>4. c \in 1..last
      BY <1>4, <3>3
    <3>. QED
      BY <3>2, <3>3, <3>4
  <2>4. c \in 1..CMax /\ c \in Nat /\ c \in 0..CMax
    BY <1>1, <1>4
  <2>5. n <= m[c]
    <3>1. CASE c = last
      BY <1>4, <1>5, <3>1
    <3>2. CASE c # last
      <4>1. c + 1 \in (c + 1)..last /\ (c + 1) - 1 = c
        BY <1>4, <2>4, <3>2
      <4>. QED
        BY <2>3, <4>1
    <3>. QED
      BY <3>1, <3>2
  <2>6. ASSUME NEW d \in 1..(c - 1) PROVE m[d] < n
    <3>1. m[c - 1] < n /\ c - 1 \in 1..CMax /\ c - 1 < CMax /\ d \in 1..CMax /\ d \in 0..CMax /\ c - 1 \in 0..CMax
      BY <1>1, <2>3, <2>4
    <3>2. m[c - 1] \in Nat /\ m[d] \in Nat
      BY <1>1, <3>1
    <3>3. d = c - 1 \/ d < c - 1
      BY <2>4
    <3>4. m[d] <= m[c - 1]
      BY <1>2, <3>1, <3>2, <3>3
    <3>. QED
      BY <3>1, <3>2, <3>4
  <2>7. Tightest(n) = c /\ Widest(c)
    BY <2>4, <2>5, <2>6, TightestIs DEF m
  <2>. QED
    BY <2>3, <2>4, <2>7
<1>6. CASE ~(n < m[last])
  <2> DEFINE up == {c \in last..CMax : n <= m[c]}
             fits == {c \in 1..CMax : n <= m[c]}
  <2>1. get_class_id(n, last) = IF up = {} THEN 0 ELSE Min(up)
    BY <1>6 DEF get_class_id, CMax
  <2>2. Tightest(n) = IF fits = {} THEN 0 ELSE Min(fits)
    BY <1>1 DEF Tightest, m
  <2> HIDE DEF m
  <2>3. up = fits
    <3>1. ASSUME NEW c \in 1..CMax, c < last PROVE ~(n <= m[c])
      <4>1. c \in 1..(last - 1) /\ c \in 0..CMax
        BY <1>4, <3>1
      <4>2. m[c] < m[last] /\ m[c] \in Nat
        BY <1>1, <1>3, <4>1
      <4>. QED
        BY <1>4, <1>6, <4>2
    <3>2. \A c \in 1..CMax : c < last \/ c \in last..CMax
      BY <1>1, <1>4
    <3>3. \A c \in last..CMax : c \in 1..CMax \/ c = 0
      BY <1>1, <1>4
    <3>4. ~(n <= m[0])
      BY <1>1
    <3>. QED
      BY <3>1, <3>2, <3>3, <3>4
  <2>4. CASE fits = {}
    BY <1>1, <2>1, <2>2, <2>3, <2>4
  <2>5. CASE fits # {}
    <3>1. PICK c \in fits : \A d \in fits : c <= d
      <4>1. fits \in SUBSET Nat
        OBVIOUS
      <4> HIDE DEF fits
      <4>. QED
        BY <2>5, <4>1, Least
    <3>2. c \in 1..CMax /\ c \in Nat /\ n <= m[c] /\ c \in 0..CMax
      BY <1>1
    <3>3. ASSUME NEW d \in 1..(c - 1) PROVE m[d] < n
      <4>1. d \in 1..CMax /\ d \in 0..CMax /\ ~(c <= d)
        BY <1>1, <3>2
      <4>2. d \notin fits
        BY <3>1, <4>1
      <4>3. ~(n <= m[d]) /\ m[d] \in Nat
        BY <1>1, <4>1, <4>2
      <4>. QED
        BY <4>3
    <3>4. Tightest(n) = c /\ Widest(c)
      BY <3>2, <3>3, TightestIs DEF m
    <3>. QED
      BY <2>1, <2>2, <2>3, <3>2, <3>4
  <2>. QED
    BY <2>4, <2>5
<1>. QED
  BY <1>5, <1>6

\* A size that was cut to 0 goes past the smallest class.
LEMMA SearchZero ==
  ASSUME NEW last \in 0..CMax
  PROVE  get_class_id(0, last) = 0 /\ Tightest(0) = 0
<1> DEFINE m == max_size_
<1>1. /\ CMax \in Nat /\ last \in Nat /\ m[0] = 0
      /\ \A d \in 0..CMax : m[d] \in Nat
      /\ \A d \in 1..CMax : m[d] > 0
  BY LastClass, MaxSizes
<1>2. Tightest(0) = 0
  BY DEF Tightest
<1>3. CASE 0 < m[last]
  <2> DEFINE Ends(c) == (c = 0 \/ 0 > m[c - 1]) /\ \A d \in (c + 1)..last : 0 <= m[d - 1]
  <2>1. get_class_id(0, last) = CHOOSE c \in 0..last : Ends(c)
    BY <1>3 DEF get_class_id
  <2> HIDE DEF m
  <2>2. ASSUME NEW c \in 0..last, c # 0 PROVE ~Ends(c)
    <3>1. c - 1 \in 0..CMax
      BY <1>1, <2>2
    <3>2. m[c - 1] \in Nat
      BY <1>1, <3>1
    <3>. QED
      BY <2>2, <3>2
  <2>3. Ends(0) /\ 0 \in 0..last
    <3>1. ASSUME NEW d \in (0 + 1)..last PROVE 0 <= m[d - 1]
      <4>1. d - 1 \in 0..CMax
        BY <1>1
      <4>2. m[d - 1] \in Nat
        BY <1>1, <4>1
      <4>. QED
        BY <4>2
    <3>. QED
      BY <1>1, <3>1
  <2> HIDE DEF Ends
  <2>. QED
    BY <1>2, <2>1, <2>2, <2>3
<1>4. CASE ~(0 < m[last])
  <2> DEFINE up == {c \in last..CMax : 0 <= m[c]}
  <2>1. get_class_id(0, last) = IF up = {} THEN 0 ELSE Min(up)
    BY <1>4 DEF get_class_id, CMax
  <2> HIDE DEF m
  <2>2. last = 0
    <3>1. last \in 1..CMax \/ last = 0
      BY <1>1
    <3>. QED
      BY <1>1, <1>4, <3>1
  <2>3. 0 \in up /\ up \in SUBSET Nat /\ \A c \in up : 0 <= c
    BY <1>1, <2>2
  <2> HIDE DEF up
  <2>4. Min(up) = 0
    BY <2>3, MinIs
  <2>. QED
    BY <1>2, <2>1, <2>3, <2>4
<1>. QED
  BY <1>3, <1>4

LEMMA Search ==
  ASSUME NEW n \in Nat, NEW last \in 0..CMax, Widest(last)
  PROVE  /\ get_class_id(n, last) = Tightest(n)
         /\ Tightest(n) \in 0..CMax
         /\ Widest(Tightest(n))
         /\ n = 0 => Tightest(n) = 0
<1>1. CMax \in Nat
  BY LastClass
<1>2. Widest(0)
  BY DEF Widest
<1>3. CASE n = 0
  BY <1>1, <1>2, <1>3, SearchZero
<1>4. CASE n # 0
  <2>1. n > 0
    BY <1>4
  <2>2. /\ get_class_id(n, last) = Tightest(n)
        /\ Tightest(n) \in 0..CMax
        /\ Tightest(n) # 0 => Widest(Tightest(n))
    BY <2>1, SearchSome
  <2>. QED
    BY <1>2, <1>4, <2>2
<1>. QED
  BY <1>3, <1>4

\* The class of a size has room for it.
LEMMA TightestHasRoom ==
  ASSUME NEW n \in Nat, Tightest(n) # 0
  PROVE  n <= max_size_[Tightest(n)]
<1> DEFINE fits == {c \in Classes : n <= max_size_[c]}
<1>1. Tightest(n) = IF n = 0 \/ fits = {} THEN 0 ELSE Min(fits)
  BY DEF Tightest
<1>2. fits # {} /\ Tightest(n) = Min(fits)
  BY <1>1
<1>3. PICK c \in fits : \A d \in fits : c <= d
  <2>1. fits \in SUBSET Nat
    BY LastClass
  <2> HIDE DEF fits
  <2>. QED
    BY <1>2, <2>1, Least
<1>4. fits \in SUBSET Nat
  BY LastClass
<1>5. n <= max_size_[c]
  OBVIOUS
<1> HIDE DEF fits
<1>6. Min(fits) = c
  BY <1>3, <1>4, MinIs
<1>. QED
  BY <1>2, <1>5, <1>6
-----------------------------------------------------------------------------
(* The blocks: h is what held gives each block, l the free lists.          *)

Kinds == [class : Classes, size : Nat \ {0}]
HeldBy(h) == {b \in Buffers : h[b] # NULL}
FreeIn(l) == UNION {Range(l[c]) : c \in Classes}
BlocksIn(h, l) == HeldBy(h) \cup FreeIn(l)
ClassIn(h, l, b) ==
  IF b \in HeldBy(h) THEN h[b].class ELSE CHOOSE c \in Classes : b \in Range(l[c])

\* The bytes malloc has given for every block there is, and for all of them.
Bytes(h, l) == [b \in BlocksIn(h, l) |-> max_size_[ClassIn(h, l, b)]]
Used(h, l) == SumFunctionOnSet(Bytes(h, l), BlocksIn(h, l))

\* g is f with the value v at x: the form of every assignment below.
Replaced(f, x, v, g) == g = [f EXCEPT ![x] = v]

\* Each block has one owner; there are finitely many.
Sound(h, l) ==
  /\ h \in [Buffers -> Kinds \cup {NULL}]
  /\ l \in [Classes -> Seq(Buffers)]
  /\ HeldBy(h) \cap FreeIn(l) = {}
  /\ \A c \in Classes : Len(l[c]) <= free_cache_max_count[c] /\ IsInjective(l[c])
  /\ \A c, d \in Classes : c # d => Range(l[c]) \cap Range(l[d]) = {}
  /\ IsFiniteSet(BlocksIn(h, l))

LEMMA NullKind ==
  NULL \notin Kinds /\ NULL \notin [size : Nat, last : 0..CMax]
<1>1. Classes \subseteq Nat /\ 0..CMax \subseteq Nat
  BY LastClass
<1>2. NULL \notin [class : Nat, size : Nat] /\ NULL \notin [size : Nat, last : Nat]
  BY ItemAllocAssumption
<1>. QED
  BY <1>1, <1>2 DEF Kinds

LEMMA ClassInIs ==
  ASSUME NEW h, NEW l, Sound(h, l)
  PROVE  /\ \A b \in HeldBy(h) : h[b] \in Kinds /\ ClassIn(h, l, b) = h[b].class /\ h[b].class \in Classes
         /\ \A c \in Classes, b \in Buffers : b \in Range(l[c]) => ClassIn(h, l, b) = c
         /\ BlocksIn(h, l) \subseteq Buffers
         /\ \A b \in BlocksIn(h, l) : Bytes(h, l)[b] = max_size_[ClassIn(h, l, b)]
         /\ \A b \in BlocksIn(h, l) : Bytes(h, l)[b] \in Nat
<1>1. ASSUME NEW b \in HeldBy(h)
      PROVE  h[b] \in Kinds /\ ClassIn(h, l, b) = h[b].class /\ h[b].class \in Classes
  BY DEF Sound, HeldBy, ClassIn, Kinds
<1>2. ASSUME NEW c \in Classes, NEW b \in Buffers, b \in Range(l[c])
      PROVE  ClassIn(h, l, b) = c
  <2>1. b \notin HeldBy(h)
    BY <1>2 DEF Sound, FreeIn
  <2>2. \A d \in Classes : b \in Range(l[d]) => d = c
    BY <1>2 DEF Sound
  <2>. QED
    BY <1>2, <2>1, <2>2 DEF ClassIn
<1>3. ASSUME NEW c \in Classes PROVE Range(l[c]) \subseteq Buffers
  <2>1. l[c] \in Seq(Buffers)
    BY DEF Sound
  <2>. QED
    BY <2>1 DEF Range
<1>4. BlocksIn(h, l) \subseteq Buffers
  BY <1>3 DEF BlocksIn, HeldBy, FreeIn
<1>5. \A b \in BlocksIn(h, l) : ClassIn(h, l, b) \in Classes
  BY <1>1, <1>2, <1>4 DEF BlocksIn, FreeIn
<1>6. \A c \in Classes : max_size_[c] \in Nat
  <2>1. Classes = 1..CMax /\ CMax \in Nat /\ \A c \in 0..CMax : max_size_[c] \in Nat
    BY LastClass, MaxSizes
  <2>. QED
    BY <2>1
<1>. QED
  BY <1>1, <1>2, <1>4, <1>5, <1>6 DEF Bytes

\* The same blocks in the same classes take as many bytes.
LEMMA UsedSame ==
  ASSUME NEW h, NEW l, Sound(h, l), NEW h2, NEW l2, Sound(h2, l2),
         BlocksIn(h2, l2) = BlocksIn(h, l),
         \A b \in BlocksIn(h, l) : ClassIn(h2, l2, b) = ClassIn(h, l, b)
  PROVE  Used(h2, l2) = Used(h, l)
<1>1. Bytes(h2, l2) = Bytes(h, l)
  BY DEF Bytes
<1>. QED
  BY <1>1 DEF Used

\* One block more.
LEMMA UsedMore ==
  ASSUME NEW h, NEW l, Sound(h, l), NEW h2, NEW l2, Sound(h2, l2),
         NEW b, b \notin BlocksIn(h, l), BlocksIn(h2, l2) = BlocksIn(h, l) \cup {b},
         \A a \in BlocksIn(h, l) : ClassIn(h2, l2, a) = ClassIn(h, l, a)
  PROVE  /\ Used(h2, l2) = Used(h, l) + max_size_[ClassIn(h2, l2, b)]
         /\ Used(h, l) \in Nat /\ max_size_[ClassIn(h2, l2, b)] \in Nat
<1>1. PICK S, f, g : S = BlocksIn(h, l) /\ f = Bytes(h, l) /\ g = Bytes(h2, l2)
  OBVIOUS
<1>2. /\ IsFiniteSet(S) /\ \A a \in S : f[a] \in Nat /\ g[a] = f[a]
      /\ g[b] \in Nat /\ g[b] = max_size_[ClassIn(h2, l2, b)]
  <2>1. IsFiniteSet(S)
    BY <1>1 DEF Sound
  <2>2. \A a \in BlocksIn(h, l) : Bytes(h, l)[a] = max_size_[ClassIn(h, l, a)] /\ Bytes(h, l)[a] \in Nat
    BY ClassInIs
  <2>3. \A a \in BlocksIn(h2, l2) : Bytes(h2, l2)[a] = max_size_[ClassIn(h2, l2, a)] /\ Bytes(h2, l2)[a] \in Nat
    BY ClassInIs
  <2>. QED
    BY <1>1, <2>1, <2>2, <2>3
<1>3. \A a \in S \cup {b} : g[a] \in Int
  BY <1>2
<1>4. SumFunctionOnSet(g, S \cup {b}) = SumFunctionOnSet(g, S) + g[b]
  BY <1>1, <1>2, <1>3, SumAdds
<1>5. SumFunctionOnSet(g, S) = SumFunctionOnSet(f, S)
  BY <1>2, SumSame
<1>6. SumFunctionOnSet(f, S) \in Nat
  BY <1>2, SumNat
<1>7. Used(h, l) = SumFunctionOnSet(f, S) /\ Used(h2, l2) = SumFunctionOnSet(g, S \cup {b})
  BY <1>1 DEF Used
<1>. QED
  BY <1>2, <1>4, <1>5, <1>6, <1>7

\* do_alloc takes the first block of the free list.
LEMMA Reused ==
  ASSUME NEW h, NEW l, Sound(h, l), NEW c \in Classes, l[c] # <<>>,
         NEW k \in Kinds, k.class = c, NEW h2, NEW l2,
         Replaced(h, Head(l[c]), k, h2), Replaced(l, c, Tail(l[c]), l2)
  PROVE  /\ Sound(h2, l2) /\ Used(h2, l2) = Used(h, l)
         /\ \A a \in HeldBy(h2) : h2[a] = k \/ (a \in HeldBy(h) /\ h2[a] = h[a])
<1>0. PICK g, m : g = h2 /\ m = l2
  OBVIOUS
<1>1. PICK b, q : b = Head(l[c]) /\ q = l[c]
  OBVIOUS
<1>2. k \in Kinds /\ k # NULL /\ k.class = c
  BY NullKind
<1>3. /\ h \in [Buffers -> Kinds \cup {NULL}] /\ l \in [Classes -> Seq(Buffers)]
      /\ q \in Seq(Buffers) /\ IsInjective(q) /\ q # <<>> /\ Len(q) <= free_cache_max_count[c]
  BY <1>1 DEF Sound
<1>4. /\ Tail(q) \in Seq(Buffers) /\ IsInjective(Tail(q)) /\ Len(Tail(q)) <= Len(q)
      /\ b \in Range(q) /\ b \in Buffers /\ Range(Tail(q)) = Range(q) \ {b}
  BY <1>1, <1>3, Popped
<1>5. /\ g \in [Buffers -> Kinds \cup {NULL}] /\ g[b] = k
      /\ \A a \in Buffers : a # b => g[a] = h[a]
  BY <1>0, <1>1, <1>2, <1>3, <1>4 DEF Replaced
<1>6. /\ m \in [Classes -> Seq(Buffers)] /\ m[c] = Tail(q)
      /\ \A d \in Classes : d # c => m[d] = l[d]
  BY <1>0, <1>1, <1>3, <1>4 DEF Replaced
<1>7. HeldBy(g) = HeldBy(h) \cup {b}
  BY <1>2, <1>4, <1>5 DEF HeldBy
<1>8. \A d \in Classes : Range(m[d]) = Range(l[d]) \ {b}
  <2>1. \A d \in Classes : d # c => b \notin Range(l[d])
    BY <1>1, <1>4 DEF Sound
  <2>. QED
    BY <1>1, <1>4, <1>6, <2>1
<1>9. FreeIn(m) = FreeIn(l) \ {b} /\ b \in FreeIn(l)
  <2>1. b \in FreeIn(l)
    BY <1>1, <1>4 DEF FreeIn
  <2>2. \A a : a \in FreeIn(m) <=> \E d \in Classes : a \in Range(m[d])
    BY DEF FreeIn
  <2>3. \A a : a \in FreeIn(l) <=> \E d \in Classes : a \in Range(l[d])
    BY DEF FreeIn
  <2>4. ASSUME NEW a PROVE a \in FreeIn(m) <=> a \in FreeIn(l) /\ a # b
    <3>1. \A d \in Classes : a \in Range(m[d]) <=> a \in Range(l[d]) /\ a # b
      BY <1>8
    <3>. QED
      BY <2>2, <2>3, <3>1
  <2>5. FreeIn(m) = FreeIn(l) \ {b}
    BY <2>4
  <2>. QED
    BY <2>1, <2>5
<1>10. BlocksIn(g, m) = BlocksIn(h, l)
  BY <1>7, <1>9 DEF BlocksIn
<1>11. ASSUME NEW d \in Classes
       PROVE  Len(m[d]) <= free_cache_max_count[d] /\ IsInjective(m[d])
  <2>1. CASE d = c
    <3>1. Len(Tail(q)) \in Nat /\ Len(q) \in Nat /\ free_cache_max_count[c] \in Nat
      BY <1>3, <1>4, FreeCounts
    <3>2. Len(Tail(q)) <= free_cache_max_count[c]
      BY <1>3, <1>4, <3>1
    <3>. QED
      BY <1>4, <1>6, <2>1, <3>2
  <2>2. CASE d # c
    BY <1>6, <2>2 DEF Sound
  <2>. QED
    BY <2>1, <2>2
<1>12. Sound(g, m)
  <2>1. HeldBy(g) \cap FreeIn(m) = {}
    BY <1>7, <1>9 DEF Sound
  <2>2. \A d, e \in Classes : d # e => Range(m[d]) \cap Range(m[e]) = {}
    BY <1>8 DEF Sound
  <2>3. IsFiniteSet(BlocksIn(g, m))
    BY <1>10 DEF Sound
  <2>. QED
    BY <1>5, <1>6, <1>11, <2>1, <2>2, <2>3 DEF Sound
<1>13. ASSUME NEW a \in BlocksIn(h, l) PROVE ClassIn(g, m, a) = ClassIn(h, l, a)
  <2>0. /\ \A x \in HeldBy(h) : ClassIn(h, l, x) = h[x].class
        /\ \A d \in Classes, x \in Buffers : x \in Range(l[d]) => ClassIn(h, l, x) = d
        /\ BlocksIn(h, l) \subseteq Buffers
    BY ClassInIs
  <2>00. /\ \A x \in HeldBy(g) : ClassIn(g, m, x) = g[x].class
         /\ \A d \in Classes, x \in Buffers : x \in Range(m[d]) => ClassIn(g, m, x) = d
    BY <1>12, ClassInIs
  <2>1. CASE a = b
    BY <1>1, <1>2, <1>4, <1>5, <1>7, <2>0, <2>00, <2>1
  <2>2. CASE a # b /\ a \in HeldBy(h)
    BY <1>5, <1>7, <2>0, <2>00, <2>2
  <2>3. CASE a # b /\ a \in FreeIn(l)
    <3>1. PICK d \in Classes : a \in Range(l[d])
      BY <2>3 DEF FreeIn
    <3>2. a \in Range(m[d])
      BY <1>8, <2>3, <3>1
    <3>. QED
      BY <2>0, <2>00, <3>1, <3>2
  <2>. QED
    BY <2>1, <2>2, <2>3 DEF BlocksIn
<1>14. Used(g, m) = Used(h, l)
  BY <1>10, <1>12, <1>13, UsedSame
<1>15. \A a \in HeldBy(g) : g[a] = k \/ (a \in HeldBy(h) /\ g[a] = h[a])
  BY <1>5, <1>7 DEF HeldBy
<1>. QED
  BY <1>0, <1>1, <1>12, <1>14, <1>15

\* do_alloc takes a new block.
LEMMA Taken ==
  ASSUME NEW h, NEW l, Sound(h, l), NEW c \in Classes,
         NEW n \in Nat \ {0}, NEW b \in Buffers, b \notin BlocksIn(h, l), NEW h2,
         Replaced(h, b, [class |-> c, size |-> n], h2)
  PROVE  /\ Sound(h2, l) /\ Used(h2, l) = Used(h, l) + max_size_[c]
         /\ Used(h, l) \in Nat /\ max_size_[c] \in Nat
         /\ \A a \in HeldBy(h2) : h2[a] = [class |-> c, size |-> n] \/ (a \in HeldBy(h) /\ h2[a] = h[a])
<1>0. PICK g : g = h2
  OBVIOUS
<1>1. PICK k : k = [class |-> c, size |-> n]
  OBVIOUS
<1>2. k \in Kinds /\ k # NULL /\ k.class = c
  BY <1>1, NullKind DEF Kinds
<1>3. h \in [Buffers -> Kinds \cup {NULL}]
  BY DEF Sound
<1>4. /\ g \in [Buffers -> Kinds \cup {NULL}] /\ g[b] = k
      /\ \A a \in Buffers : a # b => g[a] = h[a]
  BY <1>0, <1>1, <1>2, <1>3 DEF Replaced
<1>5. HeldBy(g) = HeldBy(h) \cup {b}
  BY <1>2, <1>4 DEF HeldBy
<1>6. BlocksIn(g, l) = BlocksIn(h, l) \cup {b}
  BY <1>5 DEF BlocksIn
<1>7. Sound(g, l)
  <2>1. IsFiniteSet(BlocksIn(g, l))
    <3>1. IsFiniteSet(BlocksIn(h, l))
      BY DEF Sound
    <3>. QED
      BY <1>6, <3>1, FS_AddElement
  <2>2. HeldBy(g) \cap FreeIn(l) = {}
    BY <1>5 DEF Sound, BlocksIn
  <2>. QED
    BY <1>4, <2>1, <2>2 DEF Sound
<1>8. \A a \in BlocksIn(h, l) : ClassIn(g, l, a) = ClassIn(h, l, a)
  <2>1. ASSUME NEW a \in HeldBy(h) PROVE ClassIn(g, l, a) = ClassIn(h, l, a)
    <3>1. a # b /\ g[a] = h[a] /\ a \in HeldBy(g)
      BY <1>4, <1>5 DEF BlocksIn, HeldBy
    <3>. QED
      BY <3>1 DEF ClassIn
  <2>2. ASSUME NEW a \in FreeIn(l) PROVE ClassIn(g, l, a) = ClassIn(h, l, a)
    <3>1. a \notin HeldBy(h) /\ a \notin HeldBy(g)
      BY <1>7 DEF Sound
    <3>. QED
      BY <3>1 DEF ClassIn
  <2>. QED
    BY <2>1, <2>2 DEF BlocksIn
<1>9. ClassIn(g, l, b) = c
  BY <1>2, <1>4, <1>5 DEF ClassIn
<1>10. /\ Used(g, l) = Used(h, l) + max_size_[c]
       /\ Used(h, l) \in Nat /\ max_size_[c] \in Nat
  BY <1>6, <1>7, <1>8, <1>9, UsedMore
<1>11. \A a \in HeldBy(g) : g[a] = k \/ (a \in HeldBy(h) /\ g[a] = h[a])
  BY <1>4, <1>5 DEF HeldBy
<1>. QED
  BY <1>0, <1>1, <1>7, <1>10, <1>11

\* free_item: the block leaves its item for the free list of its class.
LEMMA Kept ==
  ASSUME NEW h, NEW l, Sound(h, l), NEW b \in HeldBy(h), NEW c, c = h[b].class,
         Len(l[c]) < free_cache_max_count[c], NEW h2, NEW l2,
         Replaced(h, b, NULL, h2), Replaced(l, c, <<b>> \o l[c], l2)
  PROVE  /\ Sound(h2, l2) /\ Used(h2, l2) = Used(h, l)
         /\ \A a \in HeldBy(h2) : a \in HeldBy(h) /\ h2[a] = h[a]
<1>0. PICK g, m : g = h2 /\ m = l2
  OBVIOUS
<1>1. PICK q : q = l[c]
  OBVIOUS
<1>2. b \in Buffers /\ c \in Classes
  BY DEF HeldBy, Sound, Kinds
<1>3. /\ h \in [Buffers -> Kinds \cup {NULL}] /\ l \in [Classes -> Seq(Buffers)]
      /\ q \in Seq(Buffers) /\ IsInjective(q)
  BY <1>1, <1>2 DEF Sound
<1>4. b \notin FreeIn(l) /\ \A d \in Classes : b \notin Range(l[d])
  BY DEF Sound, FreeIn
<1>5. /\ <<b>> \o q \in Seq(Buffers) /\ IsInjective(<<b>> \o q) /\ Len(<<b>> \o q) = Len(q) + 1
      /\ Range(<<b>> \o q) = Range(q) \cup {b}
  BY <1>1, <1>2, <1>3, <1>4, Pushed
<1>6. /\ g \in [Buffers -> Kinds \cup {NULL}] /\ g[b] = NULL
      /\ \A a \in Buffers : a # b => g[a] = h[a]
  BY <1>0, <1>2, <1>3 DEF Replaced
<1>7. /\ m \in [Classes -> Seq(Buffers)] /\ m[c] = <<b>> \o q
      /\ \A d \in Classes : d # c => m[d] = l[d]
  BY <1>0, <1>1, <1>2, <1>3, <1>5 DEF Replaced
<1>8. HeldBy(g) = HeldBy(h) \ {b}
  BY <1>6 DEF HeldBy
<1>9. /\ Range(m[c]) = Range(l[c]) \cup {b}
      /\ \A d \in Classes : d # c => Range(m[d]) = Range(l[d])
  BY <1>1, <1>5, <1>7
<1>10. FreeIn(m) = FreeIn(l) \cup {b}
  BY <1>2, <1>9 DEF FreeIn
<1>11. BlocksIn(g, m) = BlocksIn(h, l)
  BY <1>8, <1>10 DEF BlocksIn
<1>12. ASSUME NEW d \in Classes
       PROVE  Len(m[d]) <= free_cache_max_count[d] /\ IsInjective(m[d])
  <2>1. CASE d = c
    <3>1. Len(q) \in Nat /\ free_cache_max_count[c] \in Nat /\ Len(q) < free_cache_max_count[c]
      BY <1>1, <1>2, <1>3, FreeCounts
    <3>2. Len(q) + 1 <= free_cache_max_count[c]
      BY <3>1
    <3>. QED
      BY <1>5, <1>7, <2>1, <3>2
  <2>2. CASE d # c
    BY <1>7, <2>2 DEF Sound
  <2>. QED
    BY <2>1, <2>2
<1>13. Sound(g, m)
  <2>1. HeldBy(g) \cap FreeIn(m) = {}
    BY <1>8, <1>10 DEF Sound
  <2>2. ASSUME NEW d \in Classes, NEW e \in Classes, d # e
        PROVE  Range(m[d]) \cap Range(m[e]) = {}
    <3>1. Range(l[d]) \cap Range(l[e]) = {} /\ b \notin Range(l[d]) /\ b \notin Range(l[e])
      BY <1>4, <2>2 DEF Sound
    <3>2. CASE d = c
      BY <1>9, <2>2, <3>1, <3>2
    <3>3. CASE e = c
      BY <1>9, <2>2, <3>1, <3>3
    <3>4. CASE d # c /\ e # c
      BY <1>9, <3>1, <3>4
    <3>. QED
      BY <3>2, <3>3, <3>4
  <2>3. IsFiniteSet(BlocksIn(g, m))
    BY <1>11 DEF Sound
  <2>. QED
    BY <1>6, <1>7, <1>12, <2>1, <2>2, <2>3 DEF Sound
<1>14. ASSUME NEW a \in BlocksIn(h, l) PROVE ClassIn(g, m, a) = ClassIn(h, l, a)
  <2>0. /\ \A x \in HeldBy(h) : ClassIn(h, l, x) = h[x].class
        /\ \A d \in Classes, x \in Buffers : x \in Range(l[d]) => ClassIn(h, l, x) = d
        /\ BlocksIn(h, l) \subseteq Buffers
    BY ClassInIs
  <2>00. /\ \A x \in HeldBy(g) : ClassIn(g, m, x) = g[x].class
         /\ \A d \in Classes, x \in Buffers : x \in Range(m[d]) => ClassIn(g, m, x) = d
    BY <1>13, ClassInIs
  <2>1. CASE a = b
    BY <1>2, <1>9, <2>0, <2>00, <2>1
  <2>2. CASE a # b /\ a \in HeldBy(h)
    BY <1>6, <1>8, <2>0, <2>00, <2>2
  <2>3. CASE a \in FreeIn(l)
    <3>1. PICK d \in Classes : a \in Range(l[d])
      BY <2>3 DEF FreeIn
    <3>2. a \in Range(m[d])
      BY <1>9, <3>1
    <3>. QED
      BY <2>0, <2>00, <3>1, <3>2
  <2>. QED
    BY <2>1, <2>2, <2>3 DEF BlocksIn
<1>15. Used(g, m) = Used(h, l)
  BY <1>11, <1>13, <1>14, UsedSame
<1>16. \A a \in HeldBy(g) : a \in HeldBy(h) /\ g[a] = h[a]
  BY <1>6, <1>8 DEF HeldBy
<1>. QED
  BY <1>0, <1>13, <1>15, <1>16

\* free_item: the block goes back to malloc.
LEMMA Returned ==
  ASSUME NEW h, NEW l, Sound(h, l), NEW b \in HeldBy(h), NEW c, c = h[b].class,
         NEW h2, Replaced(h, b, NULL, h2)
  PROVE  /\ Sound(h2, l) /\ Used(h, l) = Used(h2, l) + max_size_[c]
         /\ Used(h2, l) \in Nat /\ max_size_[c] \in Nat
         /\ \A a \in HeldBy(h2) : a \in HeldBy(h) /\ h2[a] = h[a]
<1>0. PICK g : g = h2
  OBVIOUS
<1>1. b \in Buffers /\ h[b] # NULL /\ c \in Classes /\ h \in [Buffers -> Kinds \cup {NULL}]
  BY DEF HeldBy, Sound, Kinds
<1>2. /\ g \in [Buffers -> Kinds \cup {NULL}] /\ g[b] = NULL
      /\ \A a \in Buffers : a # b => g[a] = h[a]
  BY <1>0, <1>1 DEF Replaced
<1>3. HeldBy(g) = HeldBy(h) \ {b} /\ b \notin FreeIn(l)
  BY <1>2 DEF HeldBy, Sound
<1>4. BlocksIn(h, l) = BlocksIn(g, l) \cup {b} /\ b \notin BlocksIn(g, l)
  BY <1>3 DEF BlocksIn
<1>5. Sound(g, l)
  <2>1. IsFiniteSet(BlocksIn(g, l))
    <3>1. BlocksIn(g, l) \in SUBSET BlocksIn(h, l)
      BY <1>4
    <3>. QED
      BY <3>1, FS_Subset DEF Sound
  <2>2. HeldBy(g) \cap FreeIn(l) = {}
    BY <1>3 DEF Sound
  <2>. QED
    BY <1>2, <2>1, <2>2 DEF Sound
<1>6. \A a \in BlocksIn(g, l) : ClassIn(h, l, a) = ClassIn(g, l, a)
  <2>1. ASSUME NEW a \in HeldBy(g) PROVE ClassIn(h, l, a) = ClassIn(g, l, a)
    <3>1. a # b /\ g[a] = h[a] /\ a \in HeldBy(h)
      BY <1>2, <1>3 DEF HeldBy
    <3>. QED
      BY <3>1 DEF ClassIn
  <2>2. ASSUME NEW a \in FreeIn(l) PROVE ClassIn(h, l, a) = ClassIn(g, l, a)
    <3>1. a \notin HeldBy(h) /\ a \notin HeldBy(g)
      BY <1>5 DEF Sound
    <3>. QED
      BY <3>1 DEF ClassIn
  <2>. QED
    BY <2>1, <2>2 DEF BlocksIn
<1>7. ClassIn(h, l, b) = c
  BY DEF ClassIn
<1>8. /\ Used(h, l) = Used(g, l) + max_size_[c]
      /\ Used(g, l) \in Nat /\ max_size_[c] \in Nat
  BY <1>4, <1>5, <1>6, <1>7, UsedMore
<1>9. \A a \in HeldBy(g) : a \in HeldBy(h) /\ g[a] = h[a]
  BY <1>2, <1>3 DEF HeldBy
<1>. QED
  BY <1>0, <1>5, <1>8, <1>9
-----------------------------------------------------------------------------
(* The invariant.                                                          *)

\* What uint32_t keeps of a number of bytes.
Remainder(n) == n % SizeMod

MemoryInv ==
  /\ MemoryTypeOK
  /\ Widest(last_class_id_)
  /\ probe # NULL => Widest(probe.last)
  /\ Sound(held, free_cache_list_)
  /\ mem_used_ = Used(held, free_cache_list_)
  /\ mem_used_ <= mem_limit_
  /\ \A b \in HeldBy(held) : held[b].class = Tightest(Remainder(held[b].size))

LEMMA InModel ==
  /\ Held = HeldBy(held) /\ Free = FreeIn(free_cache_list_)
  /\ \A b : ClassOf(b) = ClassIn(held, free_cache_list_, b)
<1>1. Held = HeldBy(held)
  BY DEF Held, HeldBy
<1>2. Free = FreeIn(free_cache_list_)
  BY DEF Free, FreeIn
<1>3. ASSUME NEW b PROVE ClassOf(b) = ClassIn(held, free_cache_list_, b)
  <2>1. ClassOf(b) = IF b \in Held THEN held[b].class
                     ELSE CHOOSE c \in Classes : b \in Range(free_cache_list_[c])
    BY Zenon DEF ClassOf
  <2>2. ClassIn(held, free_cache_list_, b) = IF b \in HeldBy(held) THEN held[b].class
                     ELSE CHOOSE c \in Classes : b \in Range(free_cache_list_[c])
    BY Zenon DEF ClassIn
  <2>3. CASE b \in Held
    BY <1>1, <2>1, <2>2, <2>3
  <2>4. CASE b \notin Held
    BY <1>1, <2>1, <2>2, <2>4
  <2>. QED
    BY <2>3, <2>4
<1>. QED
  BY <1>1, <1>2, <1>3

LEMMA MemoryInitially ==
  ASSUME MemoryInit
  PROVE  MemoryInv
<1>1. CMax \in Nat /\ CMax >= 1 /\ Classes = 1..CMax
  BY LastClass
<1>2. /\ last_class_id_ = 1 /\ mem_used_ = 0 /\ probe = NULL
      /\ free_cache_list_ = [c \in Classes |-> <<>>] /\ held = [b \in Buffers |-> NULL]
  BY DEF MemoryInit, CLASSID_MIN
<1>3. MemoryTypeOK
  BY <1>1, <1>2 DEF MemoryTypeOK, CMax
<1>4. Widest(last_class_id_)
  BY <1>2 DEF Widest
<1>5. HeldBy(held) = {}
  BY <1>2 DEF HeldBy
<1>6. FreeIn(free_cache_list_) = {}
  <2>1. Range(<<>>) = {}
    BY DEF Range
  <2>2. \A c \in Classes : Range(free_cache_list_[c]) = {}
    BY <1>2, <2>1
  <2>. QED
    BY <2>2 DEF FreeIn
<1>7. BlocksIn(held, free_cache_list_) = {}
  BY <1>5, <1>6 DEF BlocksIn
<1>8. Sound(held, free_cache_list_)
  <2>1. \A c \in Classes : Len(free_cache_list_[c]) <= free_cache_max_count[c] /\ IsInjective(free_cache_list_[c])
    <3>1. \A c \in Classes : free_cache_list_[c] = <<>> /\ free_cache_max_count[c] \in Nat
      BY <1>2, FreeCounts
    <3>2. Len(<<>>) = 0 /\ IsInjective(<<>>)
      BY DEF IsInjective
    <3>. QED
      BY <3>1, <3>2
  <2>2. \A c, d \in Classes : c # d => Range(free_cache_list_[c]) \cap Range(free_cache_list_[d]) = {}
    BY <1>6 DEF FreeIn
  <2>3. held \in [Buffers -> Kinds \cup {NULL}] /\ free_cache_list_ \in [Classes -> Seq(Buffers)]
    BY <1>2
  <2>. QED
    BY <1>5, <1>7, <2>1, <2>2, <2>3, FS_EmptySet DEF Sound
<1>9. Used(held, free_cache_list_) = 0
  BY <1>7, SumOfNone DEF Used
<1>10. mem_limit_ \in Nat
  BY ItemAllocAssumption
<1>. QED
  BY <1>2, <1>3, <1>4, <1>5, <1>8, <1>9, <1>10 DEF MemoryInv

\* What the search for a size finds, from the class remembered last.
LEMMA Found ==
  ASSUME MemoryInv, NEW s \in Sizes
  PROVE  LET n == CALC_ITEM_SIZE(s)
             c == get_class_id(n, last_class_id_)
         IN  /\ n \in Nat /\ c = Tightest(n) /\ (n = 0 => c = 0)
             /\ ItemBytes(s) \in Nat \ {0} /\ n = Remainder(ItemBytes(s))
             /\ c \in 0..CMax /\ Widest(c) /\ (c # 0 => c \in Classes)
<1>1. PICK n \in Nat : n = CALC_ITEM_SIZE(s) /\ ItemBytes(s) \in Nat \ {0} /\ n = Remainder(ItemBytes(s))
  <2>1. s \in Nat /\ HeaderSize \in Nat \ {0} /\ SizeMod \in Nat \ {0}
    BY ItemAllocAssumption
  <2>2. ItemBytes(s) \in Nat \ {0}
    BY <2>1 DEF ItemBytes
  <2>3. CALC_ITEM_SIZE(s) = Remainder(ItemBytes(s))
    BY DEF CALC_ITEM_SIZE, Remainder
  <2>4. \A x \in Nat : Remainder(x) \in Nat
    BY <2>1 DEF Remainder
  <2>. QED
    BY <2>2, <2>3, <2>4
<1>2. last_class_id_ \in 0..CMax /\ Widest(last_class_id_) /\ Classes = 1..CMax /\ CMax \in Nat
  BY LastClass DEF MemoryInv, MemoryTypeOK, CMax
<1>3. PICK k \in 0..CMax : k = last_class_id_
  BY <1>2
<1>4. Widest(k)
  BY <1>2, <1>3
<1>5. /\ get_class_id(n, k) = Tightest(n)
      /\ Tightest(n) \in 0..CMax
      /\ Widest(Tightest(n))
      /\ n = 0 => Tightest(n) = 0
  BY <1>4, Search
<1>6. \A c \in 0..CMax : c # 0 => c \in 1..CMax
  BY <1>2
<1>. QED
  BY <1>1, <1>2, <1>3, <1>5, <1>6

LEMMA AllocReuse ==
  ASSUME MemoryInv, NEW s \in Sizes, alloc_reuse(s)
  PROVE  MemoryInv'
<1>1. PICK n, c : n = CALC_ITEM_SIZE(s) /\ c = get_class_id(n, last_class_id_)
  OBVIOUS
<1>2. /\ ItemBytes(s) \in Nat \ {0} /\ c = Tightest(Remainder(ItemBytes(s)))
      /\ c \in 0..CMax /\ Widest(c) /\ (c # 0 => c \in Classes)
  BY <1>1, Found
<1>3. PICK h, l : h = held /\ l = free_cache_list_
  OBVIOUS
<1>4. PICK h2, l2 : h2 = held' /\ l2 = free_cache_list_'
  OBVIOUS
<1>5. /\ c # 0 /\ l[c] # <<>> /\ last_class_id_' = c /\ mem_used_' = mem_used_ /\ probe' = probe
      /\ Replaced(l, c, Tail(l[c]), l2)
      /\ Replaced(h, Head(l[c]), [class |-> c, size |-> ItemBytes(s)], h2)
  <2>1. /\ c # 0 /\ free_cache_list_[c] # <<>> /\ last_class_id_' = c
        /\ mem_used_' = mem_used_ /\ probe' = probe
    BY <1>1 DEF alloc_reuse
  <2>2. Replaced(free_cache_list_, c, Tail(free_cache_list_[c]), free_cache_list_')
    BY <1>1 DEF alloc_reuse, Replaced
  <2>3. Replaced(held, Head(free_cache_list_[c]), [class |-> c, size |-> ItemBytes(s)], held')
    BY <1>1 DEF alloc_reuse, Replaced
  <2>. QED
    BY <1>3, <1>4, <2>1, <2>2, <2>3
<1>6. Sound(h, l) /\ mem_used_ = Used(h, l) /\ \A b \in HeldBy(h) : h[b].class = Tightest(Remainder(h[b].size))
  BY <1>3 DEF MemoryInv
<1>7. /\ Sound(h2, l2) /\ Used(h2, l2) = Used(h, l)
      /\ \A a \in HeldBy(h2) : h2[a] = [class |-> c, size |-> ItemBytes(s)] \/ (a \in HeldBy(h) /\ h2[a] = h[a])
  <2>1. PICK k : k = [class |-> c, size |-> ItemBytes(s)]
    OBVIOUS
  <2>2. c \in Classes /\ k \in Kinds /\ k.class = c /\ l[c] # <<>>
    BY <1>2, <1>5, <2>1 DEF Kinds
  <2>3. Sound(h, l) /\ Replaced(l, c, Tail(l[c]), l2) /\ Replaced(h, Head(l[c]), k, h2)
    BY <1>5, <1>6, <2>1
  <2>4. /\ Sound(h2, l2) /\ Used(h2, l2) = Used(h, l)
        /\ \A a \in HeldBy(h2) : h2[a] = k \/ (a \in HeldBy(h) /\ h2[a] = h[a])
    BY <2>2, <2>3, Reused
  <2>. QED
    BY <2>1, <2>4
<1>8. \A a \in HeldBy(h2) : h2[a].class = Tightest(Remainder(h2[a].size))
  BY <1>2, <1>6, <1>7
<1>9. MemoryTypeOK'
  BY <1>2, <1>4, <1>5, <1>7 DEF MemoryInv, MemoryTypeOK, Sound, Kinds, CMax
<1>. QED
  BY <1>2, <1>4, <1>5, <1>6, <1>7, <1>8, <1>9 DEF MemoryInv

LEMMA AllocNew ==
  ASSUME MemoryInv, NEW s \in Sizes, NEW b \in Buffers, alloc_new(s, b)
  PROVE  MemoryInv'
<1>1. PICK n, c : n = CALC_ITEM_SIZE(s) /\ c = get_class_id(n, last_class_id_)
  OBVIOUS
<1>2. /\ ItemBytes(s) \in Nat \ {0} /\ c = Tightest(Remainder(ItemBytes(s)))
      /\ c \in 0..CMax /\ Widest(c) /\ (c # 0 => c \in Classes)
  BY <1>1, Found
<1>3. PICK h, l : h = held /\ l = free_cache_list_
  OBVIOUS
<1>4. PICK h2 : h2 = held'
  OBVIOUS
<1>5. /\ c # 0 /\ last_class_id_' = c /\ mem_used_' = mem_used_ + max_size_[c] /\ probe' = probe
      /\ mem_used_ + max_size_[c] <= mem_limit_
      /\ free_cache_list_' = l /\ b \notin BlocksIn(h, l)
      /\ Replaced(h, b, [class |-> c, size |-> ItemBytes(s)], h2)
  BY <1>1, <1>3, <1>4, InModel DEF alloc_new, WithinLimit, BlocksIn, Replaced
<1>6. Sound(h, l) /\ mem_used_ = Used(h, l) /\ \A a \in HeldBy(h) : h[a].class = Tightest(Remainder(h[a].size))
  BY <1>3 DEF MemoryInv
<1>7. /\ Sound(h2, l) /\ Used(h2, l) = Used(h, l) + max_size_[c]
      /\ Used(h, l) \in Nat /\ max_size_[c] \in Nat
      /\ \A a \in HeldBy(h2) : h2[a] = [class |-> c, size |-> ItemBytes(s)] \/ (a \in HeldBy(h) /\ h2[a] = h[a])
  BY <1>2, <1>5, <1>6, Taken
<1>8. \A a \in HeldBy(h2) : h2[a].class = Tightest(Remainder(h2[a].size))
  BY <1>2, <1>6, <1>7
<1>9. mem_used_' \in Nat
  BY <1>5, <1>6, <1>7
<1>10. MemoryTypeOK'
  BY <1>2, <1>4, <1>5, <1>7, <1>9 DEF MemoryInv, MemoryTypeOK, Sound, Kinds, CMax
<1>. QED
  BY <1>2, <1>4, <1>5, <1>6, <1>7, <1>8, <1>10 DEF MemoryInv

LEMMA AllocFails ==
  ASSUME MemoryInv, NEW s \in Sizes, alloc_fails(s)
  PROVE  MemoryInv'
<1>1. PICK n, c : n = CALC_ITEM_SIZE(s) /\ c = get_class_id(n, last_class_id_)
  OBVIOUS
<1>2. c \in 0..CMax /\ Widest(c)
  BY <1>1, Found
<1>3. /\ last_class_id_' = last_class_id_ \/ last_class_id_' = c
      /\ UNCHANGED <<mem_used_, free_cache_list_, held, probe>>
  BY <1>1 DEF alloc_fails, Remembered
<1>4. last_class_id_' \in 0..CMax /\ Widest(last_class_id_')
  BY <1>2, <1>3 DEF MemoryInv, MemoryTypeOK, CMax
<1>5. MemoryTypeOK'
  BY <1>3, <1>4 DEF MemoryInv, MemoryTypeOK, CMax
<1>. QED
  BY <1>3, <1>4, <1>5 DEF MemoryInv

LEMMA FreeItem ==
  ASSUME MemoryInv, NEW b \in Buffers, free_item(b)
  PROVE  MemoryInv'
<1>1. PICK h, l : h = held /\ l = free_cache_list_
  OBVIOUS
<1>2. PICK h2, l2 : h2 = held' /\ l2 = free_cache_list_'
  OBVIOUS
<1>3. PICK c : c = h[b].class
  OBVIOUS
<1>4. Sound(h, l) /\ mem_used_ = Used(h, l) /\ \A a \in HeldBy(h) : h[a].class = Tightest(Remainder(h[a].size))
  BY <1>1 DEF MemoryInv
<1>5. b \in HeldBy(h) /\ Replaced(h, b, NULL, h2) /\ last_class_id_' = last_class_id_ /\ probe' = probe
  BY <1>1, <1>2 DEF free_item, HeldBy, Replaced
<1>6. CASE Len(l[c]) < free_cache_max_count[c] /\ Replaced(l, c, <<b>> \o l[c], l2) /\ mem_used_' = mem_used_
  <2>1. /\ Sound(h2, l2) /\ Used(h2, l2) = Used(h, l)
        /\ \A a \in HeldBy(h2) : a \in HeldBy(h) /\ h2[a] = h[a]
    BY <1>3, <1>4, <1>5, <1>6, Kept
  <2>2. \A a \in HeldBy(h2) : h2[a].class = Tightest(Remainder(h2[a].size))
    BY <1>4, <2>1
  <2>3. MemoryTypeOK'
    BY <1>2, <1>5, <1>6, <2>1 DEF MemoryInv, MemoryTypeOK, Sound, Kinds
  <2>. QED
    BY <1>2, <1>4, <1>5, <1>6, <2>1, <2>2, <2>3 DEF MemoryInv
<1>7. CASE l2 = l /\ mem_used_' = mem_used_ - max_size_[c]
  <2>1. /\ Sound(h2, l) /\ Used(h, l) = Used(h2, l) + max_size_[c]
        /\ Used(h2, l) \in Nat /\ max_size_[c] \in Nat
        /\ \A a \in HeldBy(h2) : a \in HeldBy(h) /\ h2[a] = h[a]
    BY <1>3, <1>4, <1>5, Returned
  <2>2. \A a \in HeldBy(h2) : h2[a].class = Tightest(Remainder(h2[a].size))
    BY <1>4, <2>1
  <2>3. mem_used_' = Used(h2, l) /\ mem_used_' \in Nat /\ mem_used_' <= mem_limit_
    <3>1. \A x, y, z \in Nat : x = y + z => x - z = y /\ y <= x
      OBVIOUS
    <3>2. mem_used_ \in Nat /\ mem_used_ <= mem_limit_ /\ mem_limit_ \in Nat
      BY ItemAllocAssumption DEF MemoryInv, MemoryTypeOK
    <3>3. mem_used_' = Used(h2, l) /\ Used(h2, l) <= mem_used_
      BY <1>4, <1>7, <2>1, <3>1, <3>2
    <3>. QED
      BY <2>1, <3>2, <3>3
  <2>4. MemoryTypeOK'
    BY <1>2, <1>5, <1>7, <2>1, <2>3 DEF MemoryInv, MemoryTypeOK, Sound, Kinds
  <2>. QED
    BY <1>2, <1>5, <1>7, <2>1, <2>2, <2>3, <2>4 DEF MemoryInv
<1>. QED
  BY <1>1, <1>2, <1>3, <1>6, <1>7 DEF free_item, KeepsFree, Replaced

LEMMA SizeOkReads ==
  ASSUME MemoryInv, NEW s \in Sizes, item_size_ok_reads(s)
  PROVE  MemoryInv'
<1>1. PICK n, k : n = CALC_ITEM_SIZE(s) /\ k = last_class_id_
  OBVIOUS
<1>2. n \in Nat /\ k \in 0..CMax /\ Widest(k)
  BY <1>1, Found DEF MemoryInv, MemoryTypeOK, CMax
<1>3. /\ probe' = [size |-> n, last |-> k]
      /\ UNCHANGED <<last_class_id_, mem_used_, free_cache_list_, held>>
  BY <1>1 DEF item_size_ok_reads
<1>4. MemoryTypeOK' /\ Widest(probe.last)'
  BY <1>2, <1>3 DEF MemoryInv, MemoryTypeOK, CMax
<1>. QED
  BY <1>3, <1>4 DEF MemoryInv

\* What the search of item_size_ok finds, from the class it has read.
LEMMA ProbeFound ==
  ASSUME MemoryInv, probe # NULL
  PROVE  LET c == get_class_id(probe.size, probe.last)
         IN  c = Tightest(probe.size) /\ c \in 0..CMax /\ Widest(c)
<1>1. PICK p : p = probe
  OBVIOUS
<1>2. p \in [size : Nat, last : 0..CMax] /\ Widest(p.last)
  BY <1>1 DEF MemoryInv, MemoryTypeOK, CMax
<1>3. PICK n \in Nat, k \in 0..CMax : n = p.size /\ k = p.last
  BY <1>2
<1>4. Widest(k)
  BY <1>2, <1>3
<1>5. /\ get_class_id(n, k) = Tightest(n)
      /\ Tightest(n) \in 0..CMax
      /\ Widest(Tightest(n))
  BY <1>4, Search
<1>. QED
  BY <1>1, <1>3, <1>5

LEMMA SizeOkWrites ==
  ASSUME MemoryInv, item_size_ok_writes
  PROVE  MemoryInv'
<1>1. probe # NULL
  BY DEF item_size_ok_writes
<1>2. PICK c : c = get_class_id(probe.size, probe.last)
  OBVIOUS
<1>3. c \in 0..CMax /\ Widest(c)
  BY <1>1, <1>2, ProbeFound
<1>4. /\ last_class_id_' = last_class_id_ \/ last_class_id_' = c
      /\ probe' = NULL /\ UNCHANGED <<mem_used_, free_cache_list_, held>>
  BY <1>2 DEF item_size_ok_writes, Remembered
<1>5. last_class_id_' \in 0..CMax /\ Widest(last_class_id_')
  BY <1>3, <1>4 DEF MemoryInv, MemoryTypeOK, CMax
<1>6. MemoryTypeOK'
  BY <1>4, <1>5 DEF MemoryInv, MemoryTypeOK, CMax
<1>. QED
  BY <1>4, <1>5, <1>6 DEF MemoryInv

LEMMA MemoryStep ==
  ASSUME MemoryInv, [MemoryNext]_memoryVars
  PROVE  MemoryInv'
<1>1. CASE UNCHANGED memoryVars
  BY <1>1 DEF MemoryInv, MemoryTypeOK, memoryVars
<1>. QED
  BY <1>1, AllocReuse, AllocNew, AllocFails, FreeItem, SizeOkReads, SizeOkWrites DEF MemoryNext

\* The inductive invariant of the memory of items: types, one owner per block,
\* the bytes accounted for, and every class remembered, under cache_lock_ or by
\* the unlocked item_size_ok, wider than all classes below it.
THEOREM MemoryInvariant ==
  MemorySpec => []MemoryInv
<1>1. MemoryInit => MemoryInv
  BY MemoryInitially
<1>2. MemoryInv /\ [MemoryNext]_memoryVars => MemoryInv'
  BY MemoryStep
<1>. QED
  BY <1>1, <1>2, PTL DEF MemorySpec

\* do_alloc and free_item pass a block on in whole: it is in one item or stands
\* once in one free list, and no free list outgrows the count of init.
THEOREM BlocksHaveOneOwner ==
  MemorySpec => []OneOwner
<1>1. MemoryInv => OneOwner
  BY InModel DEF MemoryInv, Sound, OneOwner
<1>. QED
  BY <1>1, MemoryInvariant, PTL

\* mem_used_ is what malloc has given out for the blocks in items and in free
\* lists, and never above mem_limit_.
THEOREM MemoryIsAccounted ==
  MemorySpec => []MemoryExact
<1>1. ASSUME MemoryInv PROVE MemoryExact
  <2>1. PICK f : f = [b \in Held \cup Free |-> max_size_[ClassOf(b)]]
    OBVIOUS
  <2>2. f = Bytes(held, free_cache_list_) /\ DOMAIN f = BlocksIn(held, free_cache_list_)
    BY <2>1, InModel DEF Bytes, BlocksIn
  <2>3. SumFunction(f) = Used(held, free_cache_list_)
    BY <2>2, SumOfFunction DEF Used
  <2>. QED
    BY <1>1, <2>1, <2>3 DEF MemoryInv, MemoryExact
<1>. QED
  BY <1>1, MemoryInvariant, PTL

\* The search of get_class_id from whatever class was found last, or read
\* without the lock by item_size_ok, ends where a search from the smallest
\* class would: also when the factor is so close to 1 that classes repeat or
\* rounding makes one larger than the last.  And do_alloc gives an item a block
\* with room for it, if its size fits in the uint32_t it is computed in.
THEOREM SearchIsTight ==
  MemorySpec => []ClassIsTightest
<1>1. ASSUME MemoryInv PROVE ClassIsTightest
  <2>1. \A b \in Held : held[b].class = Tightest(held[b].size % SizeMod)
    BY <1>1, InModel DEF MemoryInv, Remainder
  <2>2. ASSUME NEW b \in Held, held[b].size < SizeMod
        PROVE  held[b].size <= max_size_[held[b].class]
    <3>1. Held = HeldBy(held) /\ Sound(held, free_cache_list_)
      BY <1>1, InModel DEF MemoryInv
    <3>2. held[b] \in Kinds /\ held[b].class \in Classes
      BY <3>1, ClassInIs
    <3>3. PICK n \in Nat : n = held[b].size
      BY <3>2 DEF Kinds
    <3>4. n % SizeMod = n
      <4>1. SizeMod \in Nat /\ n < SizeMod
        BY <2>2, <3>3, ItemAllocAssumption
      <4>. QED
        BY <4>1
    <3>5. held[b].class = Tightest(n)
      BY <2>1, <3>3, <3>4
    <3>6. held[b].class # 0
      BY <3>2, LastClass
    <3>7. n <= max_size_[Tightest(n)]
      BY <3>5, <3>6, TightestHasRoom
    <3>. QED
      BY <3>3, <3>5, <3>7
  <2>3. \A s \in Sizes : get_class_id(CALC_ITEM_SIZE(s), last_class_id_)
                            = Tightest(CALC_ITEM_SIZE(s))
    BY <1>1, Found
  <2>4. probe # NULL => get_class_id(probe.size, probe.last) = Tightest(probe.size)
    BY <1>1, ProbeFound
  <2>. QED
    BY <2>1, <2>2, <2>3, <2>4 DEF ClassIsTightest
<1>. QED
  BY <1>1, MemoryInvariant, PTL
=============================================================================
