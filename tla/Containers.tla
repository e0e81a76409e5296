----------------------------- MODULE Containers -----------------------------
(***************************************************************************)
(* The containers the server is built on, pointer by pointer: xixi::list   *)
(* (doubly linked through fields of its elements, which all the lists of   *)
(* an index share), xixi::hash_map (chains through a field of its          *)
(* elements, growing by rehashing) and Receive_Buffer (a block of memory   *)
(* that is compacted, doubled and shrunk while bytes wait in it).  They    *)
(* have nothing to do with each other; a behaviour uses one of them.       *)
(***************************************************************************)
EXTENDS Integers, Sequences, SequencesExt, FiniteSetsExt

CONSTANTS
  Nodes,         \* the elements (cache items)
  Lists,         \* lists through the same index
  HashValue,     \* HashValue[p]: hash of the element's key
  BucketSize,    \* the constructor's bucket_size
  DEFAULT_SIZE, HIGHWAT_SIZE, \* of Receive_Buffer
  MaxBytes,      \* bound: bytes received in a behaviour
  Parts,         \* which of "list", "map" and "buffer" are used
  NULL

ASSUME ContainersAssumption ==
  /\ NULL \notin Nodes /\ BucketSize \in Nat \ {0} /\ HashValue \in [Nodes -> Nat]
  /\ DEFAULT_SIZE \in Nat \ {0} /\ HIGHWAT_SIZE \in Nat /\ MaxBytes \in Nat

VARIABLES
  part,                       \* the container this behaviour uses
  head_, tail_, size_,        \* per list
  next_, prev_,               \* per element
  hash_table_,                \* bucket -> first element of its chain
  hash_next_, count_,         \* the chains, and hash_map's size_
  read_buf_,                  \* the block: one entry per byte, 0 if unset
  read_curr_, read_data_size_,
  received,                   \* bytes received so far; they are numbered
  room                        \* handle_processed came last: "made" or "refused"; else ""

listVars == <<head_, tail_, size_, next_, prev_>>
mapVars == <<hash_table_, hash_next_, count_>>
bufVars == <<read_buf_, read_curr_, read_data_size_, received, room>>
vars == <<part, listVars, mapVars, bufVars>>

Init ==
  /\ part \in Parts
  /\ head_ = [l \in Lists |-> NULL] /\ tail_ = [l \in Lists |-> NULL]
  /\ size_ = [l \in Lists |-> 0]
  /\ next_ = [p \in Nodes |-> NULL] /\ prev_ = [p \in Nodes |-> NULL]
  /\ hash_table_ = [b \in 0..(BucketSize - 1) |-> NULL]
  /\ hash_next_ = [p \in Nodes |-> NULL] /\ count_ = 0
  /\ read_buf_ = [i \in 1..DEFAULT_SIZE |-> 0]
  /\ read_curr_ = 0 /\ read_data_size_ = 0 /\ received = 0 /\ room = ""

\* f->field = v, where f may be NULL and the code then skips the assignment.
Set(f, p, v) == IF p = NULL THEN f ELSE [f EXCEPT ![p] = v]

\* The elements reached from p along f, at most as many as there are.
RECURSIVE Chain(_, _, _)
Chain(f, p, n) ==
  IF p = NULL \/ n = 0 THEN <<>> ELSE <<p>> \o Chain(f, f[p], n - 1)
Walk(f, p) == Chain(f, p, Cardinality(Nodes) + 1)

------------------------------------------------------------------------------
\* xixi::list

Forward(l) == Walk(next_, head_[l])
is_linked(l, p) == next_[p] # NULL \/ prev_[p] # NULL \/ (p = head_[l] /\ p = tail_[l])

\* The callers push an element that is in no list and remove or move one that
\* is in the list they name (the asserts of do_link and do_unlink).
Unlinked(p) == \A l \in Lists : p \notin Range(Forward(l))

push_front(l, p) ==
  /\ Unlinked(p)
  /\ prev_' = [Set(prev_, head_[l], p) EXCEPT ![p] = NULL]
  /\ next_' = [next_ EXCEPT ![p] = head_[l]]
  /\ head_' = [head_ EXCEPT ![l] = p]
  /\ tail_' = IF tail_[l] = NULL THEN [tail_ EXCEPT ![l] = p] ELSE tail_
  /\ size_' = [size_ EXCEPT ![l] = @ + 1]

push_back(l, p) ==
  /\ Unlinked(p)
  /\ next_' = [Set(next_, tail_[l], p) EXCEPT ![p] = NULL]
  /\ prev_' = [prev_ EXCEPT ![p] = tail_[l]]
  /\ tail_' = [tail_ EXCEPT ![l] = p]
  /\ head_' = IF head_[l] = NULL THEN [head_ EXCEPT ![l] = p] ELSE head_
  /\ size_' = [size_ EXCEPT ![l] = @ + 1]

pop_front(l) ==
  LET p == head_[l] IN
  /\ p # NULL
  /\ head_' = [head_ EXCEPT ![l] = next_[p]]
  /\ prev_' = Set(prev_, next_[p], NULL)
  /\ tail_' = IF tail_[l] = p THEN [tail_ EXCEPT ![l] = NULL] ELSE tail_
  /\ size_' = [size_ EXCEPT ![l] = @ - 1]
  /\ next_' = [next_ EXCEPT ![p] = NULL]

pop_back(l) ==
  LET p == tail_[l] IN
  /\ p # NULL
  /\ tail_' = [tail_ EXCEPT ![l] = prev_[p]]
  /\ next_' = Set(next_, prev_[p], NULL)
  /\ head_' = IF head_[l] = p THEN [head_ EXCEPT ![l] = NULL] ELSE head_
  /\ size_' = [size_ EXCEPT ![l] = @ - 1]
  /\ prev_' = [prev_ EXCEPT ![p] = NULL]

remove(l, p) ==
  /\ p \in Range(Forward(l))
  /\ head_' = IF head_[l] = p THEN [head_ EXCEPT ![l] = next_[p]] ELSE head_
  /\ tail_' = IF tail_[l] = p THEN [tail_ EXCEPT ![l] = prev_[p]] ELSE tail_
  /\ prev_' = [Set(prev_, next_[p], prev_[p]) EXCEPT ![p] = NULL]
  /\ next_' = [Set(next_, prev_[p], next_[p]) EXCEPT ![p] = NULL]
  /\ size_' = [size_ EXCEPT ![l] = @ - 1]

move_to_front(l, p) ==
  /\ p \in Range(Forward(l)) /\ head_[l] # p
  /\ tail_' = IF tail_[l] = p THEN [tail_ EXCEPT ![l] = prev_[p]] ELSE tail_
  /\ next_' = [Set(next_, prev_[p], next_[p]) EXCEPT ![p] = head_[l]]
  /\ prev_' = Set([Set(prev_, next_[p], prev_[p]) EXCEPT ![p] = NULL], head_[l], p)
  /\ head_' = [head_ EXCEPT ![l] = p]
  /\ UNCHANGED size_

move_to_back(l, p) ==
  /\ p \in Range(Forward(l)) /\ tail_[l] # p
  /\ head_' = IF head_[l] = p THEN [head_ EXCEPT ![l] = next_[p]] ELSE head_
  /\ prev_' = [Set(prev_, next_[p], prev_[p]) EXCEPT ![p] = tail_[l]]
  /\ next_' = Set([Set(next_, prev_[p], next_[p]) EXCEPT ![p] = NULL], tail_[l], p)
  /\ tail_' = [tail_ EXCEPT ![l] = p]
  /\ UNCHANGED size_

------------------------------------------------------------------------------
\* xixi::hash_map

bucket_size_ == Cardinality(DOMAIN hash_table_)
expand_size_ == (bucket_size_ * 3) \div 2
Bucket(p, n) == HashValue[p] % n

next_bucket_size(n) ==
  LET sizes == {3, 7, 13, 23, 53, 97, 193}   \* the first of the table
  IN IF \E s \in sizes : s > n THEN Min({s \in sizes : s > n}) ELSE 2 * n

\* find(k): along the chain of the key's bucket.
find(k) ==
  LET hits == SelectSeq(Walk(hash_next_, hash_table_[Bucket(k, bucket_size_)]),
                        LAMBDA p : p = k)
  IN IF hits = <<>> THEN NULL ELSE hits[1]

\* The chains of a table and the fields that link them.
Chained(t, f) == UNION {Range(Walk(f, t[b])) : b \in DOMAIN t}

\* expand: bucket by bucket, each element to the front of its new chain.
Moved(t, f) == FlattenSeq([b \in 1..Cardinality(DOMAIN t) |-> Walk(f, t[b - 1])])
Rehashed(t, f) ==
  LET n == next_bucket_size(Cardinality(DOMAIN t))
      put(p, tf) == [table |-> [tf.table EXCEPT ![Bucket(p, n)] = p],
                     next |-> [tf.next EXCEPT ![p] = tf.table[Bucket(p, n)]]]
  IN FoldLeft(LAMBDA tf, p : put(p, tf),
              [table |-> [b \in 0..(n - 1) |-> NULL], next |-> f], Moved(t, f))

\* insert, with the expansion when the table is too full for its buckets; when
\* malloc refuses the larger table the old one stays.
insert(p) ==
  LET t == [hash_table_ EXCEPT ![Bucket(p, bucket_size_)] = p]
      f == [hash_next_ EXCEPT ![p] = hash_table_[Bucket(p, bucket_size_)]]
      grown == Rehashed(t, f)
  IN /\ p \notin Chained(hash_table_, hash_next_)
     /\ count_' = count_ + 1
     /\ \/ hash_table_' = t /\ hash_next_' = f
        \/ /\ count_ + 1 > expand_size_
           /\ hash_table_' = grown.table /\ hash_next_' = grown.next

\* Slip: the table is set to the successor wherever the element stands.
Slip_hash_remove(p) ==
  LET b == Bucket(p, bucket_size_)
  IN /\ p \in Range(Walk(hash_next_, hash_table_[b]))
     /\ hash_table_' = [hash_table_ EXCEPT ![b] = hash_next_[p]]
     /\ hash_next_' = [hash_next_ EXCEPT ![p] = NULL]
     /\ count_' = count_ - 1

\* remove, by key or by element: unhook it behind its predecessor or from the
\* table; nothing happens if it is not in its chain.
hash_remove(p) ==
  LET b == Bucket(p, bucket_size_)
      chain == Walk(hash_next_, hash_table_[b])
      at == CHOOSE i \in 1..Len(chain) : chain[i] = p
  IN /\ p \in Range(chain)
     /\ IF at > 1
        THEN /\ hash_next_' = [hash_next_ EXCEPT ![chain[at - 1]] = hash_next_[p], ![p] = NULL]
             /\ UNCHANGED hash_table_
        ELSE /\ hash_table_' = [hash_table_ EXCEPT ![b] = hash_next_[p]]
             /\ hash_next_' = [hash_next_ EXCEPT ![p] = NULL]
     /\ count_' = count_ - 1

------------------------------------------------------------------------------
\* Receive_Buffer

read_buf_size_ == Len(read_buf_)
get_read_buf_size == read_buf_size_ - read_curr_ - read_data_size_
Waiting == SubSeq(read_buf_, read_curr_ + 1, read_curr_ + read_data_size_)

\* realloc to n bytes: the block is cut, or continued by bytes that are not set.
Realloc(buf, n) == [i \in 1..n |-> IF i <= Len(buf) THEN buf[i] ELSE 0]

\* A read puts bytes behind those that wait.
Receive(n) ==
  /\ n <= get_read_buf_size /\ received + n <= MaxBytes
  /\ read_buf_' = [i \in 1..read_buf_size_ |->
       IF i - (read_curr_ + read_data_size_) \in 1..n
       THEN received + (i - (read_curr_ + read_data_size_)) ELSE read_buf_[i]]
  /\ read_data_size_' = read_data_size_ + n
  /\ received' = received + n
  /\ room' = ""
  /\ UNCHANGED read_curr_

\* The connection has processed n bytes.
Process(n) ==
  /\ n <= read_data_size_
  /\ read_curr_' = read_curr_ + n
  /\ read_data_size_' = read_data_size_ - n
  /\ room' = ""
  /\ UNCHANGED <<read_buf_, received>>

\* handle_processed: the bytes that wait move to the start of the block; the
\* block doubles when less than DEFAULT_SIZE is free behind them, and shrinks
\* when it is above HIGHWAT_SIZE and few bytes wait.  A refused realloc leaves
\* the block as it is.
Compacted == [i \in 1..read_buf_size_ |->
                IF i <= read_data_size_ THEN Waiting[i] ELSE read_buf_[i]]
\* Slip: the block shrinks to the very size of what waits.
Slip_handle_processed ==
  \E grant, cut \in BOOLEAN :
    LET grow == read_buf_size_ - read_data_size_ < DEFAULT_SIZE
        buf == IF grow /\ grant THEN Realloc(Compacted, 2 * read_buf_size_) ELSE Compacted
        shrink == ~(grow /\ ~grant) /\ Len(buf) > HIGHWAT_SIZE
                  /\ read_data_size_ <= DEFAULT_SIZE
    IN /\ read_curr_' = 0
       /\ read_buf_' = IF shrink /\ cut THEN Realloc(buf, DEFAULT_SIZE) ELSE buf
       /\ room' = IF grow /\ ~grant THEN "refused" ELSE "made"
       /\ UNCHANGED <<read_data_size_, received>>

handle_processed ==
  \E grant, cut \in BOOLEAN :
    LET grow == read_buf_size_ - read_data_size_ < DEFAULT_SIZE
        buf == IF grow /\ grant THEN Realloc(Compacted, 2 * read_buf_size_) ELSE Compacted
        shrink == ~(grow /\ ~grant) /\ Len(buf) > HIGHWAT_SIZE
                  /\ read_data_size_ < DEFAULT_SIZE
    IN /\ read_curr_' = 0
       /\ read_buf_' = IF shrink /\ cut THEN Realloc(buf, DEFAULT_SIZE) ELSE buf
       /\ room' = IF grow /\ ~grant THEN "refused" ELSE "made"
       /\ UNCHANGED <<read_data_size_, received>>

------------------------------------------------------------------------------
ListOp(l) ==
  \/ \E p \in Nodes : push_front(l, p) \/ push_back(l, p) \/ remove(l, p)
                      \/ move_to_front(l, p) \/ move_to_back(l, p)
  \/ pop_front(l) \/ pop_back(l)

Next ==
  \/ part = "list" /\ (\E l \in Lists : ListOp(l)) /\ UNCHANGED <<part, mapVars, bufVars>>
  \/ part = "map" /\ (\E p \in Nodes : insert(p) \/ hash_remove(p))
     /\ UNCHANGED <<part, listVars, bufVars>>
  \/ /\ part = "buffer"
     /\ (\E n \in 1..MaxBytes : Receive(n) \/ Process(n)) \/ handle_processed
     /\ UNCHANGED <<part, listVars, mapVars>>

Spec == Init /\ [][Next]_vars

------------------------------------------------------------------------------
\* Properties

\* The pointers, walked the way the code walks them, are at all times the
\* sequences, the set and the queue of module Collections, and every operation
\* on them is one of its steps: nothing is lost, duplicated or reordered by
\* unhooking, rehashing, compacting, growing or shrinking.
Abstract == INSTANCE Collections WITH
  seqs <- [l \in Lists |-> Forward(l)],
  members <- Chained(hash_table_, hash_next_),
  queue <- Waiting
CollectionsSpec == Abstract!Spec

\* The rest of the structure agrees with what a walk from the front finds: a
\* list read backwards is the list reversed, its count and is_linked are right;
\* find reaches exactly the elements of the map, whatever table they have been
\* moved to; and handle_processed leaves room for a read behind the waiting
\* bytes (a read of 0 bytes would be taken for the end of what there is),
\* unless memory was refused.
Sound ==
  /\ \A l \in Lists :
       /\ Walk(prev_, tail_[l]) = Reverse(Forward(l))
       /\ size_[l] = Len(Forward(l))
       /\ \A p \in Nodes : /\ p \in Range(Forward(l)) => is_linked(l, p)
                           /\ Unlinked(p) => ~is_linked(l, p)
  /\ \A p \in Nodes : find(p) = IF p \in Chained(hash_table_, hash_next_) THEN p ELSE NULL
  /\ count_ = Cardinality(Chained(hash_table_, hash_next_))
  /\ get_read_buf_size >= 0
  /\ room = "made" => get_read_buf_size > 0
=============================================================================
