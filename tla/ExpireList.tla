----------------------------- MODULE ExpireList -----------------------------
(***************************************************************************)
(* The expiry wheel of Cache_Mgr (src/src/cache.cpp): timed list i holds   *)
(* items with at least expiration_time_[i] seconds to go and is scanned    *)
(* when expire_check_time_[i] is due.  Last is list 32; list 33, the items *)
(* that never expire, is Never.                                            *)
(*                                                                         *)
(* A block gets its list when it is allocated, but enters it only when the *)
(* request body has been read: other seconds may pass in between.  A touch *)
(* by get gives an item a new time and leaves it on its list.              *)
(*                                                                         *)
(* Items do not meet here: the order within a list is left out, and x is   *)
(* the item of its key before and after a copy of it takes its place.      *)
(***************************************************************************)
EXTENDS Integers

CONSTANTS
    Items,
    Last,             \* 32 in the code
    expiration_time_, \* 2^i, and 2^32 - 1 for the last list
    Expirations,      \* expiration arguments of requests, 0 = never
    MaxStep,          \* 10: the largest step of the clock
    TimeMod,          \* 2^32: times are uint32_t
    Start, MaxTime    \* the clock: its first value (8) and a bound on it

Timed == 0..Last
Never == Last + 1

ASSUME ExpireListAssumption ==
    /\ Last \in Nat
    /\ expiration_time_ \in [Timed -> Nat]
    /\ expiration_time_[0] = 1
    /\ Expirations \subseteq Nat
    /\ MaxStep \in Nat /\ TimeMod \in Nat
    /\ Start \in Nat /\ Start > 0
    /\ MaxTime \in Nat

VARIABLES
    curr_time, last_check_expired_time_,
    timer,              \* Server::handle_timer: "set" the clock or "check"
    expire_check_time_,
    where,              \* "free", "upload" (allocated) or "linked"
    expire_time, expiration_id,
    born,               \* history: when the item got its expiration_id
    slack,              \* history: seconds after its time the wheel may take
    misfiled            \* history: a touch gave it a time its list was not
                        \* chosen for and may be too late for

clockVars == <<curr_time, last_check_expired_time_, timer, expire_check_time_>>
itemVars == <<where, expire_time, expiration_id, born, slack, misfiled>>
vars == <<clockVars, itemVars>>

TypeOK ==
    /\ curr_time \in Nat /\ last_check_expired_time_ \in Nat
    /\ timer \in {"set", "check"}
    /\ expire_check_time_ \in [Timed -> Nat]
    /\ where \in [Items -> {"free", "upload", "linked"}]
    /\ expire_time \in [Items -> Nat]
    /\ expiration_id \in [Items -> 0..Never]
    /\ born \in [Items -> Nat]
    /\ slack \in [Items -> Nat]
    /\ misfiled \in [Items -> BOOLEAN]

Init ==
    /\ curr_time = Start /\ last_check_expired_time_ = 0 /\ timer = "set"
    /\ expire_check_time_ = [i \in Timed |-> 0]
    /\ where = [x \in Items |-> "free"]
    /\ expire_time = [x \in Items |-> 0]
    /\ expiration_id = [x \in Items |-> 0]
    /\ born = [x \in Items |-> 0]
    /\ slack = [x \in Items |-> 0]
    /\ misfiled = [x \in Items |-> FALSE]
-----------------------------------------------------------------------------
\* Current_Time::realtime(now, e): a time beyond 32 bits becomes 0.
realtime(now, e) == IF e # 0 /\ now + e < TimeMod THEN now + e ELSE 0

\* Slip: the number of lists is taken for the last one.
Slip_get_expiration_id(now, t, l) ==
    IF t = 0 THEN l = Never + 1
    ELSE /\ l \in Timed
         /\ \A k \in 1..l : expiration_time_[k] <= t - now
         /\ l = Last \/ t - now < expiration_time_[l + 1]

\* get_expiration_id returns l: the list before the first one too wide for
\* what is left.  (A time that is not ahead of the clock gets list 0.)
get_expiration_id(now, t, l) ==
    \/ t = 0 /\ l = Never
    \/ /\ t > now
       /\ l \in Timed
       /\ \A k \in 1..l : expiration_time_[k] <= t - now
       /\ l = Last \/ t - now < expiration_time_[l + 1]
    \/ 0 < t /\ t <= now /\ l = 0

\* do_alloc for a request: the list is chosen here.
alloc_item(x, e) ==
    /\ where[x] = "free"
    /\ LET t == realtime(curr_time, e) IN
          /\ expire_time' = [expire_time EXCEPT ![x] = t]
          /\ \E l \in 0..(Never + 1) : /\ get_expiration_id(curr_time, t, l)
                             /\ expiration_id' = [expiration_id EXCEPT ![x] = l]
    /\ where' = [where EXCEPT ![x] = "upload"]
    /\ born' = [born EXCEPT ![x] = curr_time]
    /\ UNCHANGED <<clockVars, slack, misfiled>>

\* do_link: the list is entered here, as many seconds later as the upload
\* took, and those are what the wheel may be late by.
do_link(x) ==
    /\ where[x] = "upload"
    /\ where' = [where EXCEPT ![x] = "linked"]
    /\ slack' = [slack EXCEPT ![x] = curr_time - born[x]]
    /\ UNCHANGED <<clockVars, expire_time, expiration_id, born, misfiled>>

\* The item leaves the wheel; free_item resets the block.
Leave(x) ==
    /\ where' = [where EXCEPT ![x] = "free"]
    /\ expire_time' = [expire_time EXCEPT ![x] = 0]
    /\ expiration_id' = [expiration_id EXCEPT ![x] = 0]
    /\ born' = [born EXCEPT ![x] = 0]
    /\ slack' = [slack EXCEPT ![x] = 0]
    /\ misfiled' = [misfiled EXCEPT ![x] = FALSE]
    /\ UNCHANGED clockVars

\* Removed, replaced or flushed, or given back before it was linked.
do_unlink(x) == where[x] # "free" /\ Leave(x)

\* do_get of an item that is past its time, before the wheel comes by.
do_get_expired(x) ==
    /\ where[x] = "linked" /\ expire_time[x] # 0 /\ expire_time[x] <= curr_time
    /\ Leave(x)

\* When the wheel must have looked at the item.
Deadline(x) == expire_time[x] + slack[x]

update_expiration(x, e) ==
    /\ where[x] = "linked"
    /\ LET t == realtime(curr_time, e) IN
          /\ expire_time' = [expire_time EXCEPT ![x] = t]
          /\ \E l \in 0..(Never + 1) : /\ get_expiration_id(curr_time, t, l)
                             /\ expiration_id' = [expiration_id EXCEPT ![x] = l]
    /\ slack' = [slack EXCEPT ![x] = 0]
    /\ misfiled' = [misfiled EXCEPT ![x] = FALSE]
    /\ UNCHANGED <<clockVars, where, born>>

\* append, prepend, and a delta that changes the length: do_alloc with the time
\* of the old item, whose expiry do_get has not looked at, and do_replace, under
\* one lock.  A time already past gives list 0, which the next sweep scans.
append(x) ==
    /\ where[x] = "linked"
    /\ LET t == expire_time[x] IN
          /\ \E l \in 0..(Never + 1) : /\ get_expiration_id(curr_time, t, l)
                             /\ expiration_id' = [expiration_id EXCEPT ![x] = l]
          /\ slack' = [slack EXCEPT ![x] = IF t # 0 /\ t <= last_check_expired_time_
                                          THEN last_check_expired_time_ + 1 - t ELSE 0]
    /\ misfiled' = [misfiled EXCEPT ![x] = FALSE]
    /\ born' = [born EXCEPT ![x] = curr_time]
    /\ UNCHANGED <<clockVars, where, expire_time>>

\* The new time is stored and the item stays on the list it is on.  That is
\* early enough for a time no earlier than the one the item had.
do_get_touch(x, e) ==
    /\ where[x] = "linked"
    /\ LET t == realtime(curr_time, e) IN
          /\ expire_time' = [expire_time EXCEPT ![x] = t]
          /\ misfiled' = [misfiled EXCEPT ![x] =
                @ \/ expire_time[x] = 0 \/ t < Deadline(x)]
    /\ slack' = [slack EXCEPT ![x] = 0]
    /\ UNCHANGED <<clockVars, where, expiration_id, born>>

\* Server::handle_timer, every half second: the clock moves by the seconds
\* that passed, at most MaxStep, ...
set_current_time(d) ==
    /\ timer = "set"
    /\ curr_time + d <= MaxTime
    /\ curr_time' = curr_time + d
    /\ timer' = "check"
    /\ UNCHANGED <<last_check_expired_time_, expire_check_time_, itemVars>>

\* Slip: a list is scanned only after its time.
Slip_DueLists == {i \in Timed : curr_time > expire_check_time_[i]}
DueLists == {i \in Timed : curr_time >= expire_check_time_[i]}
Scanned == {x \in Items : where[x] = "linked" /\ expiration_id[x] \in DueLists}
Expired == {x \in Scanned : expire_time[x] <= curr_time}

\* Slip: an item with time left stays on its list.
Slip_rebucket(x, left, j) == j = expiration_id[x]

\* The inner loop of expire_items: an item with time left goes to the widest
\* list, from its own one down, that still fits.
rebucket(x, left, j) ==
    /\ j \in 0..expiration_id[x]
    /\ expiration_time_[j] <= left
    /\ \A k \in (j + 1)..expiration_id[x] : expiration_time_[k] > left

\* ... and then, if it moved, the lists that are due are scanned, in order.
\* An item only ever moves down the lists, to one that is done already or to
\* the front of its own, so each is looked at once.  An item that never expires
\* and is on a timed list, where a touch has left it, counts as expired.
expire_items ==
    /\ expire_check_time_' = [i \in Timed |->
          IF i \in DueLists THEN realtime(curr_time, expiration_time_[i])
          ELSE expire_check_time_[i]]
    /\ expiration_id' \in [Items -> 0..Never]
    /\ \A x \in Items :
          CASE x \in Expired -> expiration_id'[x] = 0
            [] x \in Scanned \ Expired ->
                  rebucket(x, expire_time[x] - curr_time, expiration_id'[x])
            [] OTHER -> expiration_id'[x] = expiration_id[x]
    /\ where' = [x \in Items |-> IF x \in Expired THEN "free" ELSE where[x]]
    /\ expire_time' = [x \in Items |-> IF x \in Expired THEN 0 ELSE expire_time[x]]
    /\ born' = [x \in Items |-> IF x \in Expired THEN 0 ELSE born[x]]
    /\ slack' = [x \in Items |-> IF x \in Scanned THEN 0 ELSE slack[x]]
    /\ misfiled' = [x \in Items |-> x \notin Scanned /\ misfiled[x]]

check_expired ==
    /\ timer = "check"
    /\ timer' = "set"
    /\ last_check_expired_time_' = curr_time
    /\ \/ curr_time # last_check_expired_time_ /\ expire_items
       \/ curr_time = last_check_expired_time_ /\ UNCHANGED <<expire_check_time_, itemVars>>
    /\ UNCHANGED curr_time

Next ==
    \/ \E x \in Items :
          \/ do_link(x) \/ do_unlink(x) \/ do_get_expired(x) \/ append(x)
          \/ \E e \in Expirations :
                alloc_item(x, e) \/ update_expiration(x, e) \/ do_get_touch(x, e)
    \/ \E d \in 0..MaxStep : set_current_time(d)
    \/ check_expired

Spec == Init /\ [][Next]_vars
-----------------------------------------------------------------------------
(***************************************************************************)
(* No item outstays its time unseen, unless a touch by get has misfiled it *)
(* since the wheel last placed it: an item is on the list for ever exactly *)
(* if it never expires, and the list of any other is scanned no later than *)
(* the item's expiry time plus the seconds its upload took, or, for a copy *)
(* made of an item past its time, by the next sweep (get_expiration_id,    *)
(* do_link, expire_items; do_get_touch is the exception).                  *)
(***************************************************************************)
WheelInTime ==
    \A x \in Items : where[x] = "linked" /\ ~misfiled[x] =>
        /\ expire_time[x] = 0 <=> expiration_id[x] = Never
        /\ expiration_id[x] # Never =>
              expire_check_time_[expiration_id[x]] <= Deadline(x)

(***************************************************************************)
(* What a sweep leaves behind is not overdue: an item whose deadline has   *)
(* come does not survive check_expired, unless a touch by get has misfiled *)
(* it.                                                                     *)
(***************************************************************************)
SweptClean ==
    \A x \in Items : where[x] = "linked" /\ ~misfiled[x] /\ expire_time[x] # 0 =>
        Deadline(x) > last_check_expired_time_

(***************************************************************************)
(* What makes the two inductive: a list is scanned again within its width, *)
(* the first one in every sweep, and a block that waits for its body has a *)
(* list that fitted when it was allocated.                                 *)
(***************************************************************************)
ScanBound ==
    /\ last_check_expired_time_ <= curr_time /\ curr_time > 0
    /\ \A i \in Timed : expire_check_time_[i] <= curr_time + expiration_time_[i]
    /\ expire_check_time_[0] <= last_check_expired_time_ + 1

UploadFits ==
    \A x \in Items :
        /\ born[x] <= curr_time
        /\ where[x] # "linked" => ~misfiled[x]
        /\ where[x] = "upload" =>
              /\ expire_time[x] = 0 <=> expiration_id[x] = Never
              /\ expiration_id[x] # Never =>
                    /\ expire_time[x] > born[x]
                    /\ born[x] + expiration_time_[expiration_id[x]] <= expire_time[x]

WheelInv == TypeOK /\ ScanBound /\ UploadFits /\ WheelInTime /\ SweptClean
=============================================================================
