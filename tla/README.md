# A TLA+ verification of xixibase

xixibase is a cache server in C++ (`src/src/`) in the manner of memcached. It adds versions (cache ids) to items and
*watches*: a client may keep items in a local cache and is told the ids of those that change. The Java client under
`src/client/java/xixiclient/` has that local cache. This project models the server's store, its expiry and memory, its
containers, a connection of the binary and one of the HTTP protocol, the watch protocol from end to end, and of the client
the local cache, the pools of sockets and the multi operations.

Conventions. A definition has the name of the function or field it models. `map` in `PROJECT.json` gives its lines.
A definition `Slip_X` is `X` with a plausible mistake in it. No specification uses one; each is there so that a
property can be shown to notice that mistake.

## The system

| Part | State | Operations | Talks to |
|---|---|---|---|
| `Cache_Mgr`, the store | hash table of items, expiry lists, reference counts, last cache id | get, get_touch, set, add, replace, append, prepend, delta, update_flags, update_expiration, remove, flush, load_from_file, release_reference, check_expired; all under `cache_lock_` | called by every connection and by the server's timer |
| expiry wheel, `Current_Time` | 33 timed lists and a list of items that never expire, the next scan time of each, a coarse clock | choose a list, link, unlink, scan, move down | the store; `Server::handle_timer` |
| item memory | size classes, free lists, `mem_used_`, `last_class_id_` | do_alloc, free_item, item_size_ok (without the lock) | the store |
| `Cache_Watch` | two lists of changed ids, a sequence number, the waiting connection | notify_watch, check_and_set_callback, check_and_clear_callback, expiry | the store pushes; `Peer_Cache` waits with a timer |
| `Peer_Cache`, a binary connection | read buffer, parsing state, collected replies, held items, the pending operation, a timer | handle_read, handle_write, handle_timer, process | the store; the client |
| `Peer_Http`, an HTTP connection | the same with a textual protocol; the content length of a POST | the same; write_simple_res, write_error | the store |
| Java `LocalCacheWatch` | watch id, acknowledged sequence, the cached items | run (create, check, retry, clear), update | `Protocol.checkWatch` over a socket pool |
| Java `LocalCache` | per group a map by key in order of use; a map by id; sizes and counts | get, put, remove, dropInactive, update, clear | `Protocol` in application threads, the watch thread |
| Java `SocketManager` | a queue of active sockets, a locked list of inactive ones, a flag | getSocket, addSocket, maintenance, initialize, shutdown | `Protocol`, the multi operations |
| Java multi operations | one socket per server, an output buffer, the place in the replies | encode, write, read and process in a selector loop, finally | pipelined requests to the server |
| hash_map, list, Receive_Buffer, Cache_Buffer | chains, links, a block of memory, an arena | insert, remove, grow; consume, compact, grow, shrink | everything in the server |

What is hard to test here:

* items are freed by whoever gives back the last reference, while other connections still send their bytes;
* an item's expiry list is chosen when its block is allocated and entered when its body has arrived, seconds later;
* a change, a timeout, the expiry of a watch and a broken connection race each other around a waiting check;
* pipelined requests are answered in batches out of buffers that are given out again, from bytes cut anywhere;
* a reply is used by a client thread after the watch thread has already been told that it is out of date;
* sockets go back to a pool while other threads, maintenance and shutdown use it, and a reply may still be under way;
* a selector loop keeps its place in requests and replies that arrive in pieces from several servers;
* counters at their limits: the 16-bit reference count, the memory limit, sequence numbers, the batch of 32.

`hazards` in `PROJECT.json` has them one by one, at their lines, with the properties that would notice.

## The modules

**CacheMgr** (`cache.cpp`, and what `peer_cache.cpp` keeps between two calls). An operation under `cache_lock_` is one
action. A *handle* is a reference a connection holds across operations: an item being uploaded (`cache_item_`), or one
whose bytes are being sent (`cache_items_`); it is released by an action of its own, so anything may happen between.
`encode_reply` is the step of a get in which the connection reads id and data after the lock is released. A body and
flags are one `content`; the timed lists are one list `timed`; allocation takes any unused block or fails. The history
variables are `leaked` (references nobody will give back), `seen` (versions told to a client under a watch) and
`notified` (ids pushed to a watch).

**ExpireList** is the wheel in full: widths, scan times, the clock whose steps are cut to 10 s, the 32-bit overflow of
`realtime`, and `Server::handle_timer`, which sets the clock and then sweeps. append, prepend and a delta that changes the
length put a copy in an item's place; the copy gets a list for the old time, which may be past. getAndTouch gives a new time
and leaves the item on its list. Three history variables say what may be asked of the wheel: `Deadline` is the expiry time plus
`slack`, the seconds an upload took or the wait of an overdue copy for the next sweep; `misfiled` marks an item that a touch
gave a time its list may be too late for. The order within a list is left out: items do not meet in the wheel.

**ItemAlloc** computes the size classes as `init` does, and models the search for a class that starts at the class found
last, the free lists and the memory limit. Sizes are cut to 32 bits (`SizeMod`) where the code does it; an item keeps its
true number of bytes beside the class it got. `item_size_ok` runs without the lock, so its read and its write of
`last_class_id_` are two actions.

**CacheWatch** is the watch protocol: `Cache_Watch`, the waiting connection with `timer_flag_` (each section under a lock
is one action), requests and replies in transit, connections that break before or after the server has the request,
and the client's thread with its two attempts, `clear()` and new watches. **WatchChannel** is what it promises: an ordered
exactly-once channel per session.

**PeerCache** is one connection: the loop of `process()`, one pass a step; the handlers around it; requests as tokens
(header, fixed part, body) that arrive in pieces; `cache_buf_` as slots that are given out again after a reset. The
client pipelines as it likes, but sends a check of a watch alone, as the Java client does. What the store does with a
request is left to CacheMgr.

**PeerHttp** is the HTTP connection in the same way: finding the end of a header, the body of a POST that comes with it or
later, replies joined to the one before, errors that close or keep the connection. A request is known by what it leaves in
the connection: a kind with or without body, well formed or not. `intact` records that the stream was not yet left out of
step by one of the three faults described under *Observations*; `held` are the items the connection has references to.

**LocalCache** is the client's cache of one host with its application threads and watch thread. The server is reduced to
what the other modules show of it: every change has a fresh id (CacheMgr), and a watch hands over the ids of changed items in
order, once (WatchChannel). A section under one of the client's locks is an action, and so is the gap between a
reply and its `put`. An item remembers the watch the server registered for it (none after append and prepend, which put it on
the request item) and whether it was stored after its id had been dropped. A request under a watch the server does not know
any more is refused and changes nothing.

**MultiOps** is one multi call of any kind over several servers, in units instead of bytes: `encode` with its output buffer
that fills and grows, writes that take part of it, replies read part by part, resets, exceptions and the time
limit. The server answers a whole request at any time, or not at all. **SocketPool** is `SocketManager` with the threads
that use it; in getSocket, addSocket, maintenance and shutdown each call on the concurrent queue, each critical section and
each unlocked test is a step. `initialize` is one step, and no shutdown overlaps it (see *Not modelled*). A reply belongs to the
thread that asked.

**Containers** has `xixi::list`, `xixi::hash_map` and `Receive_Buffer` with their pointers and indices. **Collections** is what they
implement: sequences, a set of elements found by key, and a queue of bytes. A behaviour uses one of the three, which share nothing.

The modules meet at what they share: `Notify` of CacheMgr is `Change` of CacheWatch; list `timed` of CacheMgr is the wheel
of ExpireList; "any unused block, or none" is ItemAlloc; a "check" of PeerCache waits as in CacheWatch; the table and lists of
CacheMgr are those of Collections; `owed` of LocalCache is WatchChannel; the server of MultiOps answers as PeerCache does.
The modules `MC...` only give constants and symmetry for TLC.

## The runs

| Run | Question | Bounds, and why they are enough |
|---|---|---|
| `store` | Are reference counts exact, do table and lists agree, is nothing used after it is freed, is a key linked once, and has every changed content a new id? | Two handles, three blocks, one key, two contents, expiry, one lost reference: a reader, a replaced item and its replacement at once, which is as many as one operation touches. Only `flush` touches several keys, each as if alone; all of it is also proved for all sizes. Deadlock is not checked: closed uploads can lose every block. |
| `store_watches` | Is a version told under a live watch current and watched, or was its id pushed? | Two handles, three blocks, one watch, two ids, expiry of item and watch in one sweep: a version that is being sent, its replacement and one being uploaded. Watches do not interact. Proved for all sizes. |
| `expiry_wheel` | Is each list scanned in time, and does a sweep leave nothing overdue, apart from items a touch has misfiled? | Four lists (1, 2, 4, 15), clock steps of 0 to 3 that skip whole lists, 4-bit times that overflow, copies of items past their time. One item: items meet only through scan times, which no item changes. Proved for all sizes. |
| `watch_channel` | Do server and client implement the channel, is no wakeup missed, does every change arrive? | Three connections (two failures, so both attempts can fail), two watches (one restart), two changes. |
| `item_memory` | Is the class found always the tightest, has a block room for any item whose size fits in the type, is the memory counted exactly, has a block one owner? | Classes of 16, 24, 48 bytes and sizes on, above and below each edge, and two that 7-bit sizes cut to 0 and 1; a limit that two of the largest items reach. |
| `peer_stream` | Are replies in order and out of intact buffers, does the stream stay framed, does every request get its reply? | Three requests of any of eight kinds, batches of two: a full batch, one left over, errors with bodies to swallow, a break at any point. |
| `http_stream` | Are replies in order, does the stream stay framed, are references lost only in the known case, is every request answered? | Three requests of seven kinds, cut anywhere, sent before the replies: one that leaves something behind, one that meets it, and one after. |
| `local_cache` | Is every entry found by its id, are sizes exact, is an entry out of date only in the known cases? | Two threads and the watch thread, two keys, two changes, two watches, values of length up to two, limits of two and one: an entry can be replaced, evicted, overtaken and dropped, and the cache overflows. States that differ only in what the server keeps for a watch the client gave up, beyond whether it still knows the watch of a request under way, are taken as one (`View`). Proved for all sizes. |
| `multi_calls` | Do requests go out whole and in order, do replies reach their positions, are only quiet sockets pooled, does the call return? | Two servers, four keys, values of different sizes, an empty one before, between and without others on its connection, a buffer of two units: the buffer fills, is cut and grows; one connection lost. All but the return is proved for all sizes. |
| `client_sockets` | Has a socket one owner, do replies stay with their thread, what does shutdown leave open? | Three threads, three sockets, an active pool of one: both pools are used, maintenance closes two at a time, shutdown and restart at any point. |
| `containers` | Do list, table and buffer implement sequences, a set and a byte queue? | Six elements, two lists on one index, a table that grows twice with colliding keys, blocks of 2 to 16 bytes with compaction, doubling, and shrinking to a high-water mark of 4, with and without a byte waiting. |
| `peer_pipeline` | expects a violation, see below | As `peer_stream`. |

Every module whose types the code could break has a `TypeOK`. Runs check it for CacheMgr and ExpireList, where a
slip in the code could break it before any other property; in the other modules it is part of the proofs.

`peer_pipeline` shows a disagreement between code and tests. Between two requests of a batch `next_data_len_` is not set back to
the length of a header (`peer_cache.cpp:289`). A get behind a get of a long key waits in the buffer for as many bytes as that
key had, which multiGet never sends. `peer_stream` checks what remains true: a request is answered unless the connection is
stalled in exactly this way.

**Observations.** Other places the modelling met. The properties leave out exactly these cases; a name in brackets is the
property that does.

* Store. update_flags, update_expiration, append and prepend return on a version mismatch without giving back the
  reference `do_get` took (`cache.cpp:624`): enough mismatches wrap the 16-bit count to 0 under a linked item, against
  `assert(it->ref_count > 0)` (428) [`NoWrap`, `MaxLeak`]. delta that keeps the number of digits changes a watched item
  without telling its watches (1054) [`StaleOnlyIfOvertaken`, by `silent`]. getAndTouch stores a time and leaves the item on its list (482): touched to an earlier
  time, or from "never" to a time, the item holds its memory past its time until its old list is scanned, though a get drops it;
  touched from a time to "never", it is dropped by the next scan of that list [`WheelInTime`, `SweptClean`, by `misfiled`]. The
  size of an item is the sum of lengths from the request, cut to 32 bits (301, 361): a sum that does not fit gets the class of
  the remainder [`ClassIsTightest`]. append and prepend register a watch on the request item and not
  on the item they link (912, 962), so nobody is told when it changes [`WatchCoherence`, `StaleOnlyIfOvertaken`]; load_from_file
  that loses a race registers none [`WatchCoherence`].
* HTTP. A request handled with the one before it, behind a POST whose body came late, overwrites the item
  held [`LostOnlyBehindLatePost`]. write_error leaves the body of a refused POST in the stream; a header above 8192 bytes is cut and its
  tail read as a request; a POST without a length is read with the length of the one before [`intact`]. The command
  "watch" is compared with ten characters, so it is never recognised. `Connection: close` is ignored.
* Local cache. A reply stored after the watch thread dropped its id stays until something else drops it
  (`Protocol.java:160`) [`StaleOnlyIfOvertaken`]. After `clear()` the client acknowledges to its new watch what it got from the
  old one (`LocalCacheWatch.java:211`). append and prepend store only the fragment locally. A put that holds a LocalCacheWatch
  from before stop() adds to a size nobody subtracts from.
* Multi operations. An empty value stalls multiGet to its time limit, and what follows on that connection is lost; a host
  without a socket and the end of a stream also cost the whole limit [`StallsOnlyFor`]. A server that has a whole request and
  does not answer is `late` there; the stall of `peer_pipeline` is one way to be late. One reset connection aborts
  the call for all servers. MultiUpdateExpiration drops the local entry only on an error; MultiUpdate sets no reason on success.
* Sockets. addSocket tests the flag without the lock, so a socket can stay open after shutdown [`StrandedOnlyByRace`], and the active
  pool can exceed its limit. A restart within one maintenance interval leaves two maintenance threads.

**Fairness.** `CacheMgr`, `ExpireList`, `ItemAlloc`, `LocalCache`, `SocketPool` and `Containers` assume none. `CacheWatch` assumes that a request that has reached the
server is processed, that an armed timer fires and its handler runs (threads of `io_service` and `deadline_timer`),
and that the client's thread goes on when it can: it is a loop with no other wait. Nothing is assumed of changes,
failures or expiry. `ChangeArrives` therefore says: a change arrives, or the client gives the watch up. `PeerCache`
assumes that `process()` and ready handlers run, that the timer fires, and that a write on a sound connection arrives.
Nothing is assumed of the client. `PeerHttp` assumes the same without a timer. `MultiOps` assumes that the calling thread takes steps,
and that time passes: `select` has a timeout and the loop compares the clock. Nothing is assumed of the servers, so
`Returns` holds although they may never answer.

**Refinement.** `CacheWatch` implements `WatchChannel` (`ChannelSpec`), `Containers` implements `Collections` (`CollectionsSpec`): the abstract
specification is a property of the run, with the mapping given where it is instantiated. The first is also proved.

## The proofs

**CacheMgrProofs** proves for every number of keys, groups, items, handles, contents, watches and times that
`TypeOK`, `RefCountExact`, `TableAndListsAgree`, `OneItemPerKey` and `NoUseAfterFree` hold for ever. It assumes `NoWrap`:
handles, references lost per item and the table's own fit in the reference count. The code does not ensure it (see
*Observations*), and without it the theorems are false. None of the invariants is inductive alone. A count is only as good as the knowledge which handles
refer to an item (`HandleShape`), that an item is allocated exactly while its count is positive (`AllocatedIsCounted`), and
that an upload is known to its own connection only (`UploadPrivate`): the last lets `set` or `add` link the item without
meeting a second reference. `StoreInv` is their conjunction. One lemma per building block (`LinkStep`, `UnlinkStep`, `HoldStep`,
`DropStep`, `LoseStep`, `ReplaceStep`, `NewStep`) does the arithmetic of references once; one lemma per operation cites
them, and `NextStoreInv` collects these.

`WatchCoherence` and `IdNamesContent` rest on `StoreInv`. `WatchInv` adds what the reply of a get relies on before it is sent:
its watch is on the item, or has been told of the id the reply will carry (`GotRegistered`), and watch ids are not given out
twice. Every operation is shown to be a combination of a few moves (what it may do to watches, linked items, ids,
contents, answers under way and answers given: `Moves`), and the moves keep the invariant. `IdNamesContent` follows from one of
them, `VersionMoves`, with `OneItemPerKey`.

**CachePartsProofs** proves `TypeOK`, `WheelInTime` and `SweptClean` of ExpireList for any number and widths of lists (the first
of width 1), any clock steps and any times. Misfiled items are left out of the last two: for them both are false. `WheelInv` adds
that a list is scanned again within its width, the first one in every sweep (`ScanBound`), and that a block waiting for its
body has a list that fitted when it was allocated (`UploadFits`). An item linked late is then on a list that is scanned by its
expiry time plus its delay, and a copy made past its time is on the first list, which the next sweep scans. A touch to a time
no earlier than the deadline leaves the item on a list that is scanned early enough. A scan either removes an item or puts it where
it fits again, misfiled or not.

It also proves `OneOwner`, `MemoryExact` and `ClassIsTightest` of ItemAlloc for any sizes, limits and growth factor above 1; the
sizes `init` computes are assumed to fit in 32 bits, those of items are not. A block has room for its item if the item's size
fits; a size cut to 0 finds no class, and the search then starts from entry 0 of the table, which is harmless.
`MemoryInv` keeps blocks, free lists and `mem_used_` together. The search goes down or up from the class found last, and finds
the tightest class only if that class is wider than all before it (`Widest`). The table does not give this by itself:
a factor close to 1 repeats a size, and rounding can make a class wider than the last one, which has exactly `item_size_max`. But
a search stops only at such a class, and so does the unlocked one of `item_size_ok`, whose write may come late. `mem_used_` is a
sum over the blocks there are, in items or in free lists: a block that moves between the two leaves it as it is, and `malloc` and
`free` change it by that block.

**CacheWatchProofs** proves `NoMissedWakeup` and `NothingLost` for any number of connections, watches and changes, and that
`CacheWatch` implements `WatchChannel`. `WatchInv` says which of a request, a waiting check and a reply can be on the
connection in use (`Exchange`), that a connection waits with its flag set and for the watch that has it as its sink (`Handshake`),
and that the list in a reply is the one the watch keeps until it is acknowledged (`Delivery`). For the refinement a change is
a `Push`, the client's update is a `Deliver` of exactly that list, and what a lost connection or a second attempt does
is a stutter. It assumes fewer changes than sequence numbers (`SeqMod > MaxId`), so that none is given out twice. The code has
2^32 of them, and starts again at 1; only a request delayed for a whole turn could then acknowledge the wrong list.

**SocketProofs** proves `OnePlace`, `NoCrossTalk` and `StrandedOnlyByRace` of SocketPool for any threads, sockets and pool sizes. `Places`
ties the two pools, the sockets held and the thread's place in getSocket or addSocket together; `Quiet` says that replies are to come
only where a thread waits for them. `Racers` is the counting argument of shutdown: sockets in the pools and threads past the
test of the flag are together never more than the threads that raced.

It also proves `RequestsInOrder`, `RepliesMatched`, `PooledClean` and `StallsOnlyFor` of MultiOps for any finite set of servers, any
lists of keys, any values (empty ones too), any capacity of the output buffer and any cuts. Requests and replies are
streams joined out of one piece per key (`Chain`); `Part` is the stretch of one from key to key. `MultiInv` says where everybody is
in these streams. What was written and what waits in the buffer are the first `curr` requests, whole (`Sends`). The server has answered some
number of whole requests, and what is on its way is what remains of their replies behind the place of the client (`Answered`).
That place is the replies processed, the parts before `state` and the units `taken` (`Place`), and `state` is a part that the reply really has
(`Reads`). A socket is pooled when the client has processed all replies; the
two streams then leave no room for anything else (`PooledClean`). `CountOK`, that `numConns` is the number of connections not
done, gives `StallsOnlyFor`: when nothing more can be read and the count is not 0, some connection waits for a reply that will
never come, and `Reads` leaves only the known causes. One lemma per handler says which part it takes and where it goes next
(`Stage`, `NextPart`, `Outcome`), for the four kinds of call alike.

**LocalCacheProofs** proves `Findable`, `SizeExact` and `StaleOnlyIfOvertaken` for any threads, keys, ids and watches. `Owned` is the
server's promise that an id belongs to one key, kept as a function that grows with the ids. `Covered` says of every reply
and entry that its watch, if it has one, will hear of a change; `Dropped`, that what the watch thread was told of is gone unless it came late.
`SizeExact` rests on the rest: whatever leaves the maps was in them once, so its size is taken off the sum exactly once.

**PeerCacheProofs** and **PeerHttpProofs** prove that no connection is orphaned, that the stream stays framed and that the replies
come in order, and of the binary protocol `PendingIntact`, of HTTP `LostOnlyBehindLatePost`, for any sequence of requests and any
cuts of their bytes. Both use **DataLemmas**: a piece of the stream has no gaps (`Cuts`) and begins with the token
that the loop expects (`Aligned`); taking a header or some of a body, moving bytes to the buffer, losing them and
sending another request keep this. The rest of `PeerInv` and `HttpInv` is how far the replies have come (`Replies`): those received,
those being written and those collected are one sequence without gaps that ends at the request being read. For
HTTP this needs `FirstEnd`: as long as the stream is in step, the first end of a header in the buffer is that of the request that
begins there. `Items` follows an item kept in `cache_item_` from pass to pass: past the first request of a pass it can only
be that of a late POST. The binary client is assumed to send a check alone, as in the model.

**DataLemmas** has what the other proof modules need to know of data: streams cut into pieces, sums over finite sets, numbers defined one
after the other (the class sizes of `init`), and streams joined out of pieces. These are defined by recursion, and the library's induction
theorems cannot be used. Where a fact needs induction, a *smallest counterexample* takes its place: the least number, or the
smallest subset of a finite set, at which the fact fails. That it exists is a theorem about well-founded sets without a
parameter, and one more step of the recursion contradicts it.

Apart from `NoWrap` and `SeqMod > MaxId` no theorem relates or bounds the sizes of an instance. The other assumptions, those of the
modules, are evaluated by the runs.

Only model-checked:

* liveness under fairness, beyond this prover: `ChangeArrives`, `AnsweredUnlessStalled`, `Answered`, `Returns`;
* `Sound` and `CollectionsSpec` of Containers. The code follows pointers, and the model follows them with a recursive
  operator, which this prover does not accept.

## Not modelled

* **Peer_Cache**: authentication requests (`process_auth_req_pdu_extras` never leaves its state), and requests sent around a check
  of a watch on one connection: `handle_timer` may then run while a write is under way. The Java client sends checks alone.
* **Peer_Http**: the unreachable watch command; parsing and page layout are abstracted to kinds of requests.
* **PDU codec**: fixed layouts, no state. **Stats**: counters nothing reads back. **Settings, Auth, Log, main, hash**:
  configuration, a stub, output, a pure function.
* **Cache_Buffer**: an arena that is emptied as a whole; PeerCache has its slots.
* **Server, io_service_pool, Handler_Allocator, Peer_Mgr, Connection_Help**: accepting and threads. `Server::handle_timer` is in
  ExpireList; any handler may run at any time in the models.
* **Java**: start and stop of the local cache, `LocalCacheTouch`, `SSLSocket`, `XixiWeightMap`, `MultiUpdateFlags` (commented out in
  the source).
* **SocketManager**: a shutdown during `initialize`. The code sets the flag first (`SocketManager.java:256`), then connects and
  adds sockets without looking at what addSocket returns (266), and shutdown (277) is not synchronized with it, so a socket
  refused by addSocket would stay open. The theorem about stranded sockets does not speak of the initializing thread.
* The old Java client, benchmarks, webapps, and the vendored openssl, zlib, tinyxml and boost. They are most of the
  repository's lines, and none of its logic.

## Plan

Done, in this order: the store, its references and versions; the wheel; watches in the store; delivery of watches
and its abstract channel; memory; the binary connection; proofs of the store's references and of the wheel; the HTTP
connection; the local cache; multi operations; socket pools; containers and what they implement; proofs of watches in the
store and on their way, of the channel's refinement, of socket pools, of the local cache and of both connections; proofs of
item memory, of the local cache's counters and of the multi operations.

Next:

1. Theorems: the list and the byte queue of Containers, whose invariants can be stated without recursion.
2. Models: start and stop of the local cache with `LocalCacheTouch`; `Connection_Help` and the acceptors; `Cache_Buffer`.
