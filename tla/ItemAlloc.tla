------------------------------ MODULE ItemAlloc ------------------------------
(***************************************************************************)
(* The memory of Cache_Mgr (src/src/cache.cpp): the size classes init      *)
(* computes, the search for a class from the class found last, and the     *)
(* buffers that go round between malloc, the items and the free lists      *)
(* under the limit.                                                        *)
(*                                                                         *)
(* do_alloc and free_item run under cache_lock_.  item_size_ok does not:   *)
(* its read and its write of last_class_id_ are two steps here.            *)
(*                                                                         *)
(* The size of an item is a uint32_t and its parts come from the network:  *)
(* a sum that does not fit is cut, and the search sees what is left of it. *)
(***************************************************************************)
EXTENDS Integers, Sequences, FiniteSets, FiniteSetsExt, Functions

CONSTANTS
    Buffers,                      \* the blocks malloc can return
    HeaderSize,                   \* sizeof(Cache_Item)
    item_size_min, item_size_max,
    FactorNum, FactorDen,         \* the growth factor, a fraction above 1
    FreeBytes,                    \* 1024 * 1024: bytes kept in a free list
    FreeCountMax,                 \* 1000: items kept in a free list
    ClassIdMax,                   \* CLASSID_MAX: length of the arrays
    mem_limit_,
    SizeMod,                      \* 2^32: sizes are uint32_t
    Sizes,                        \* key, data and extra bytes of an item
    NULL

CHUNK_ALIGN_BYTES == 8
CLASSID_MIN == 1

\* What Settings and init give; the factor is above 1 and the sizes init goes
\* through fit in 32 bits.
ASSUME ItemAllocAssumption ==
    /\ HeaderSize \in Nat \ {0} /\ item_size_min \in Nat /\ item_size_max \in Nat
    /\ FactorDen \in Nat \ {0} /\ FactorNum \in Nat /\ FactorNum > FactorDen
    /\ FreeBytes \in Nat /\ FreeCountMax \in Nat /\ mem_limit_ \in Nat
    /\ ClassIdMax \in Nat \ {0}
    /\ Sizes \subseteq Nat /\ SizeMod \in Nat \ {0}
    /\ HeaderSize + item_size_max + CHUNK_ALIGN_BYTES * FactorNum < SizeMod
    /\ NULL \notin [class : Nat, size : Nat] \cup [size : Nat, last : Nat]

VARIABLES
    last_class_id_, mem_used_, free_cache_list_,
    held,       \* buffer -> the class and the bytes of the item in it, NULL if
                \* there is none
    probe       \* an item_size_ok under way: its size and the class it starts at

memoryVars == <<last_class_id_, mem_used_, free_cache_list_, held, probe>>
-----------------------------------------------------------------------------
(* Cache_Mgr::init, the size classes.                                      *)

RoundedUp(n) ==
    IF n % CHUNK_ALIGN_BYTES = 0 THEN n
    ELSE n + CHUNK_ALIGN_BYTES - (n % CHUNK_ALIGN_BYTES)

\* The value of size at the head of the loop, per class.
SizeAt[c \in Nat] ==
    IF c <= CLASSID_MIN THEN HeaderSize + item_size_min
    ELSE (RoundedUp(SizeAt[c - 1]) * FactorNum) \div FactorDen

\* The loop goes on: size <= (sizeof(Cache_Item) + item_size_max) / factor.
Grows(c) == c < ClassIdMax /\ SizeAt[c] * FactorNum <= (HeaderSize + item_size_max) * FactorDen

class_id_max_ ==
    CHOOSE c \in CLASSID_MIN..ClassIdMax :
        ~Grows(c) /\ \A d \in CLASSID_MIN..(c - 1) : Grows(d)

Classes == CLASSID_MIN..class_id_max_

\* Entry 0 is never assigned after the memset.
max_size_ == [c \in 0..class_id_max_ |->
    CASE c = 0 -> 0
      [] c \in CLASSID_MIN..(class_id_max_ - 1) -> RoundedUp(SizeAt[c])
      [] OTHER -> HeaderSize + item_size_max]

\* The last class is not assigned in the loop and keeps no free items.
free_cache_max_count == [c \in Classes |->
    IF c = class_id_max_ THEN 0
    ELSE Min({FreeBytes \div RoundedUp(SizeAt[c]), FreeCountMax})]
-----------------------------------------------------------------------------
\* Slip: an item that fills its class exactly goes into the next one.
Slip_get_class_id(n, last) ==
    IF n < max_size_[last]
    THEN CHOOSE c \in 0..last :
             /\ c = 0 \/ n > max_size_[c - 1]
             /\ \A d \in (c + 1)..last : n <= max_size_[d - 1]
    ELSE LET fits == {c \in last..class_id_max_ : n < max_size_[c]} IN
         IF fits = {} THEN 0 ELSE Min(fits)

\* get_class_id(n) when last is read from last_class_id_: down to the first
\* class whose predecessor is too small, past the first one if the size is 0,
\* or up to the first that fits.
get_class_id(n, last) ==
    IF n < max_size_[last]
    THEN CHOOSE c \in 0..last :
             /\ c = 0 \/ n > max_size_[c - 1]
             /\ \A d \in (c + 1)..last : n <= max_size_[d - 1]
    ELSE LET fits == {c \in last..class_id_max_ : n <= max_size_[c]} IN
         IF fits = {} THEN 0 ELSE Min(fits)

\* The class remembered: none that was not found going up; 0 for the size 0.
Remembered(n, c, old) == IF c = 0 /\ n > 0 THEN old ELSE c

\* The bytes an item takes, and what uint32_t keeps of their number.
ItemBytes(s) == HeaderSize + s
CALC_ITEM_SIZE(s) == ItemBytes(s) % SizeMod

Free == UNION {Range(free_cache_list_[c]) : c \in Classes}
Held == {b \in Buffers : held[b] # NULL}

MemoryInit ==
    /\ last_class_id_ = CLASSID_MIN /\ mem_used_ = 0
    /\ free_cache_list_ = [c \in Classes |-> <<>>]
    /\ held = [b \in Buffers |-> NULL]
    /\ probe = NULL

\* do_alloc from the free list of the class.
alloc_reuse(s) ==
    LET n == CALC_ITEM_SIZE(s)
        c == get_class_id(n, last_class_id_) IN
    /\ c # 0 /\ free_cache_list_[c] # <<>>
    /\ last_class_id_' = c
    /\ free_cache_list_' = [free_cache_list_ EXCEPT ![c] = Tail(@)]
    /\ held' = [held EXCEPT ![Head(free_cache_list_[c])] = [class |-> c, size |-> ItemBytes(s)]]
    /\ UNCHANGED <<mem_used_, probe>>

\* Slip: the limit is compared before the new block is added.
Slip_WithinLimit(n) == mem_used_ <= mem_limit_
WithinLimit(n) == mem_used_ + n <= mem_limit_

\* do_alloc from malloc.
alloc_new(s, b) ==
    LET n == CALC_ITEM_SIZE(s)
        c == get_class_id(n, last_class_id_) IN
    /\ c # 0 /\ free_cache_list_[c] = <<>>
    /\ WithinLimit(max_size_[c])
    /\ b \in Buffers \ (Held \cup Free)
    /\ last_class_id_' = c
    /\ mem_used_' = mem_used_ + max_size_[c]
    /\ held' = [held EXCEPT ![b] = [class |-> c, size |-> ItemBytes(s)]]
    /\ UNCHANGED <<free_cache_list_, probe>>

\* do_alloc returns NULL: the item is too large, or memory has run out.
alloc_fails(s) ==
    LET n == CALC_ITEM_SIZE(s)
        c == get_class_id(n, last_class_id_) IN
    /\ \/ c = 0
       \/ c # 0 /\ free_cache_list_[c] = <<>>     \* the limit, or malloc
    /\ last_class_id_' = Remembered(n, c, last_class_id_)
    /\ UNCHANGED <<mem_used_, free_cache_list_, held, probe>>

\* Slip: the free list is one longer than it may be.
Slip_KeepsFree(c) == Len(free_cache_list_[c]) <= free_cache_max_count[c]
KeepsFree(c) == Len(free_cache_list_[c]) < free_cache_max_count[c]

free_item(b) ==
    /\ held[b] # NULL
    /\ held' = [held EXCEPT ![b] = NULL]
    /\ LET c == held[b].class IN
       \/ /\ KeepsFree(c)
          /\ free_cache_list_' = [free_cache_list_ EXCEPT ![c] = <<b>> \o @]
          /\ UNCHANGED mem_used_
       \/ /\ ~KeepsFree(c)
          /\ mem_used_' = mem_used_ - max_size_[c]
          /\ UNCHANGED free_cache_list_
    /\ UNCHANGED <<last_class_id_, probe>>

\* item_size_ok, after alloc_item has failed, without the lock.
item_size_ok_reads(s) ==
    /\ probe = NULL
    /\ probe' = [size |-> CALC_ITEM_SIZE(s), last |-> last_class_id_]
    /\ UNCHANGED <<last_class_id_, mem_used_, free_cache_list_, held>>

item_size_ok_writes ==
    /\ probe # NULL
    /\ probe' = NULL
    /\ \* a class found where the search starts is not written
       LET c == get_class_id(probe.size, probe.last) IN
       last_class_id_' = IF c = probe.last /\ probe.size < max_size_[c] THEN last_class_id_
                         ELSE Remembered(probe.size, c, last_class_id_)
    /\ UNCHANGED <<mem_used_, free_cache_list_, held>>

MemoryNext ==
    \/ \E s \in Sizes : alloc_reuse(s) \/ alloc_fails(s) \/ item_size_ok_reads(s)
    \/ \E s \in Sizes, b \in Buffers : alloc_new(s, b)
    \/ \E b \in Buffers : free_item(b)
    \/ item_size_ok_writes

MemorySpec == MemoryInit /\ [][MemoryNext]_memoryVars
-----------------------------------------------------------------------------
MemoryTypeOK ==
    /\ last_class_id_ \in 0..class_id_max_
    /\ mem_used_ \in Nat
    /\ free_cache_list_ \in [Classes -> Seq(Buffers)]
    /\ held \in [Buffers -> [class : Classes, size : Nat \ {0}] \cup {NULL}]
    /\ probe \in [size : Nat, last : 0..class_id_max_] \cup {NULL}

\* The class a search from the smallest would find: 0 for the items that fit in
\* none, and for a size that was cut to 0.
Tightest(n) ==
    LET fits == {c \in Classes : n <= max_size_[c]} IN
    IF n = 0 \/ fits = {} THEN 0 ELSE Min(fits)

\* get_class_id finds the tightest class for the size it is given, from
\* whatever class the last search, under the lock or racing in item_size_ok,
\* has left behind; and a block has room for its item, unless the size of the
\* item does not fit in 32 bits: what do_alloc and item_size_ok compute then is
\* what is left of it, and the class is that of a smaller item.
ClassIsTightest ==
    /\ \A b \in Held :
          /\ held[b].class = Tightest(held[b].size % SizeMod)
          /\ held[b].size < SizeMod => held[b].size <= max_size_[held[b].class]
    /\ \A s \in Sizes :
          get_class_id(CALC_ITEM_SIZE(s), last_class_id_) = Tightest(CALC_ITEM_SIZE(s))
    /\ probe # NULL => get_class_id(probe.size, probe.last) = Tightest(probe.size)

ClassOf(b) ==
    IF b \in Held THEN held[b].class
    ELSE CHOOSE c \in Classes : b \in Range(free_cache_list_[c])

\* mem_used_ is the memory malloc has handed out, in items and in free lists,
\* and stays within the limit through every order of do_alloc and free_item.
MemoryExact ==
    /\ mem_used_ = SumFunction([b \in Held \cup Free |-> max_size_[ClassOf(b)]])
    /\ mem_used_ <= mem_limit_

\* A block belongs to one item or stands once in one free list, and a free
\* list stays within the count init gave its class.
OneOwner ==
    /\ Held \cap Free = {}
    /\ \A c \in Classes : /\ Len(free_cache_list_[c]) <= free_cache_max_count[c]
                          /\ IsInjective(free_cache_list_[c])
    /\ \A c, d \in Classes :
          c # d => Range(free_cache_list_[c]) \cap Range(free_cache_list_[d]) = {}
=============================================================================
