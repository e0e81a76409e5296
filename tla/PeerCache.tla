----------------------------- MODULE PeerCache -----------------------------
(***************************************************************************)
(* One connection of the binary protocol (Peer_Cache,                      *)
(* src/src/peer_cache.cpp): the state machine that cuts requests out of    *)
(* the bytes that arrive, collects the replies of several requests and     *)
(* sends them with one write.                                              *)
(*                                                                         *)
(* A request is a header, a fixed part and a body; each is a few bytes     *)
(* that arrive in pieces of any length, here tokens <<request, part>>.     *)
(* One pass through the loop of process() is one step: lock_ keeps the     *)
(* other handlers out until the loop is left, but bytes may arrive.        *)
(*                                                                         *)
(* Replies live in cache_buf_ (slots, given out again after reset) and in  *)
(* items the connection holds.  What the store does is left to module      *)
(* CacheMgr, the timer handshake to CacheWatch.  A client sends a check of *)
(* its watch alone, as the Java client does; anything else may be sent     *)
(* before the replies.                                                     *)
(***************************************************************************)
EXTENDS Integers, Sequences, SequencesExt

CONSTANTS
    Kinds,       \* the requests the client makes, a set of names of BodyLength
    MaxReq,      \* bound on the requests sent
    BatchLimit   \* 32: requests answered with one write

\* Tokens of the body.  "get" stands for every request with a key (get_touch,
\* get_base, update_flags, update_expiration, delete, delta), "flush" for those
\* with a fixed part only (stats, create_watch), "empty" for an update of an
\* empty key and value, "bad" for an unknown command.  The key of "get_long" is
\* longer than a whole "get".
BodyLength == [hello |-> 0, bad |-> 0, flush |-> 0, check |-> 0, get |-> 1,
               get_long |-> 4, update |-> 2, empty |-> 0]
HasFixed(k) == k \notin {"hello", "bad"}
Tokens(n, k) ==
    [i \in 1..((IF HasFixed(k) THEN 2 ELSE 1) + BodyLength[k]) |-> <<n, i>>]

ASSUME PeerCacheAssumption ==
    /\ Kinds \subseteq DOMAIN BodyLength
    /\ MaxReq \in Nat /\ BatchLimit \in Nat \ {0}

VARIABLES
    sent, received,    \* the client: kinds of its requests, replies it has got
    net,               \* tokens on the way to the server
    broken,            \* the connection is broken
    alive,             \* self_ holds the Peer_Cache
    pc,                \* "idle", in the loop of process(), or just behind it
    op,                \* the asynchronous operation: op_count_ is 0 iff "none"
    state_, next_state_, next_data_len_, swallow_size_,
    read_buffer_,      \* tokens received and not consumed
    cur,               \* the request being read, read_pdu_header_
    process_reqest_count,
    uploading,         \* cache_item_ is an item being filled
    cache_items_,      \* requests whose reply is sent out of an item
    cache_buf_, offset_,       \* slots of the reply buffer, slots given out
    write_buf_, writing        \* replies collected; replies being written

streamVars == <<sent, received, net, broken>>
replyVars == <<cache_items_, cache_buf_, offset_, write_buf_>>
readVars == <<next_data_len_, swallow_size_, read_buffer_, cur, uploading>>
vars == <<streamVars, replyVars, readVars, alive, pc, op, state_, next_state_,
          process_reqest_count, writing>>

Reqs == 1..MaxReq
States == {"new_cmd", "header", "fixed", "extras", "extras2", "swallow", "wait",
           "write", "closing", "closed"}
Reply == [slot: Reqs, req: Reqs, item: BOOLEAN]

TypeOK ==
    /\ sent \in Seq(Kinds) /\ received \in Seq(0..MaxReq)
    /\ net \in Seq(Reqs \X (1..6)) /\ broken \in BOOLEAN /\ alive \in BOOLEAN
    /\ pc \in {"idle", "process", "behind"}
    /\ op \in {"none", "read", "write", "written"}
    /\ state_ \in States /\ next_state_ \in States
    /\ next_data_len_ \in 0..4 /\ swallow_size_ \in 0..2
    /\ read_buffer_ \in Seq(Reqs \X (1..6)) /\ cur \in 0..MaxReq
    /\ process_reqest_count \in 0..BatchLimit /\ uploading \in BOOLEAN
    /\ cache_items_ \subseteq Reqs
    /\ cache_buf_ \in [Reqs -> 0..MaxReq] /\ offset_ \in 0..MaxReq
    /\ write_buf_ \in Seq(Reply) /\ writing \in Seq(Reply)

\* start() with the first bytes still to come.
Init ==
    /\ sent = <<>> /\ received = <<>> /\ net = <<>> /\ broken = FALSE
    /\ alive = TRUE /\ pc = "process" /\ op = "none"
    /\ state_ = "new_cmd" /\ next_state_ = "new_cmd"
    /\ next_data_len_ = 1 /\ swallow_size_ = 0
    /\ read_buffer_ = <<>> /\ cur = 0 /\ process_reqest_count = 0
    /\ uploading = FALSE /\ cache_items_ = {}
    /\ cache_buf_ = [s \in Reqs |-> 0] /\ offset_ = 0
    /\ write_buf_ = <<>> /\ writing = <<>>
-----------------------------------------------------------------------------
(* The client.                                                             *)

Unanswered == (Len(received) + 1)..Len(sent)

Send(k) ==
    /\ Len(sent) < MaxReq /\ ~broken
    /\ k = "check" => Unanswered = {}
    /\ \A n \in Unanswered : sent[n] # "check"
    /\ sent' = Append(sent, k)
    /\ net' = net \o Tokens(Len(sent) + 1, k)
    /\ UNCHANGED <<received, broken, replyVars, readVars, alive, pc, op, state_,
                   next_state_, process_reqest_count, writing>>

Break ==
    /\ ~broken /\ broken' = TRUE
    /\ net' = <<>>
    /\ UNCHANGED <<sent, received, replyVars, readVars, alive, pc, op, state_,
                   next_state_, process_reqest_count, writing>>

\* The bytes of a write arrive: whatever the buffers hold by then.
Deliver ==
    /\ op = "write" /\ ~broken
    /\ op' = "written"
    /\ received' = received \o [i \in 1..Len(writing) |-> cache_buf_[writing[i].slot]]
    /\ UNCHANGED <<sent, net, broken, replyVars, readVars, alive, pc, state_,
                   next_state_, process_reqest_count, writing>>
-----------------------------------------------------------------------------
(* Handlers.                                                               *)

Enter == pc' = "process" /\ process_reqest_count' = 0

\* handle_read: some bytes, or an error.
handle_read ==
    /\ alive /\ pc = "idle" /\ op = "read"
    /\ op' = "none"
    /\ \/ /\ ~broken
          /\ \E n \in 1..Len(net) :
                /\ read_buffer_' = read_buffer_ \o SubSeq(net, 1, n)
                /\ net' = SubSeq(net, n + 1, Len(net))
          /\ Enter /\ UNCHANGED alive
       \/ /\ broken
          /\ alive' = (state_ = "wait")
          /\ UNCHANGED <<read_buffer_, net, pc, process_reqest_count>>
    /\ UNCHANGED <<sent, received, broken, replyVars, next_data_len_, swallow_size_, cur,
                   uploading, state_, next_state_, writing>>

handle_write ==
    /\ alive /\ pc = "idle"
    /\ op' = "none" /\ writing' = <<>>
    /\ \/ op = "written" /\ Enter /\ UNCHANGED alive
       \/ /\ op = "write" /\ broken
          /\ alive' = (state_ = "wait")
          /\ UNCHANGED <<pc, process_reqest_count>>
    /\ UNCHANGED <<streamVars, replyVars, readVars, state_, next_state_>>

\* try_write: one operation at a time.
try_write ==
    /\ op = "none" /\ write_buf_ # <<>>
    /\ op' = "write" /\ writing' = write_buf_ /\ write_buf_' = <<>>

\* Slip: behind the last reply nothing is read.
Slip_after_process ==
    /\ pc = "behind"
    /\ pc' = "idle"
    /\ \/ try_write /\ UNCHANGED alive
       \/ /\ write_buf_ = <<>>
          /\ op' = "none" /\ alive' = (state_ # "closed")
          /\ UNCHANGED <<writing, write_buf_>>
    /\ UNCHANGED <<streamVars, readVars, cache_items_, cache_buf_, offset_, state_,
                   next_state_, process_reqest_count>>

\* What start, handle_read and handle_write do behind process(): write, else
\* read, unless the connection waits or is closed; let go of self_ if nothing
\* is left under way.
after_process ==
    /\ pc = "behind"
    /\ pc' = "idle"
    /\ \/ state_ # "closed" /\ try_write /\ UNCHANGED alive
       \/ /\ state_ \notin {"closed", "wait"} /\ write_buf_ = <<>>
          /\ op' = "read"
          /\ UNCHANGED <<alive, writing, write_buf_>>
       \/ /\ \/ state_ = "closed"
             \/ state_ = "wait" /\ write_buf_ = <<>>
          /\ alive' = (state_ = "wait")
          /\ UNCHANGED <<op, writing, write_buf_>>
    /\ UNCHANGED <<streamVars, readVars, cache_items_, cache_buf_, offset_, state_,
                   next_state_, process_reqest_count>>
-----------------------------------------------------------------------------
(* Replies.                                                                *)

\* Slip: the item of a hit is not remembered.
Slip_Put(hit) ==
    /\ offset_' = offset_ + 1
    /\ cache_buf_' = [cache_buf_ EXCEPT ![offset_ + 1] = cur']
    /\ write_buf_' = Append(write_buf_, [slot |-> offset_ + 1, req |-> cur', item |-> hit])
    /\ UNCHANGED cache_items_

\* cache_buf_.prepare and add_write_buf: a reply in a slot of its own, and for
\* a get that hits the bytes of the item.
Put(hit) ==
    /\ offset_' = offset_ + 1
    /\ cache_buf_' = [cache_buf_ EXCEPT ![offset_ + 1] = cur']
    /\ write_buf_' = Append(write_buf_, [slot |-> offset_ + 1, req |-> cur', item |-> hit])
    /\ cache_items_' = IF hit THEN cache_items_ \cup {cur'} ELSE cache_items_

\* Slip: write_error forgets to swallow the body.
Slip_write_error(swallow, next) ==
    /\ Put(FALSE)
    /\ state_' = "write"
    /\ swallow_size_' = swallow
    /\ next_state_' = next

\* write_error, and every other reply that is written at once: next is closing
\* behind an unknown command.
write_error(swallow, next) ==
    /\ Put(FALSE)
    /\ state_' = "write"
    /\ IF swallow > 0
       THEN swallow_size_' = swallow /\ next_state_' = "swallow"
       ELSE next_state_' = next /\ UNCHANGED swallow_size_

Answer == write_error(0, "new_cmd")
Unwritten == UNCHANGED <<swallow_size_, next_state_, replyVars>>

\* Slip: the reply is collected but not written.
Slip_handle_timer ==
    /\ alive /\ pc = "idle" /\ state_ = "wait"
    /\ cur' = cur
    /\ Put(FALSE)
    /\ state_' \in {"new_cmd", "write"} /\ next_state_' = "new_cmd"
    /\ UNCHANGED <<streamVars, next_data_len_, swallow_size_, read_buffer_, uploading, alive,
                   pc, op, writing, process_reqest_count>>

\* handle_timer: the check is over.  The reply is written now or, with a write
\* under way, behind it; the state is not "write" unless the watch is gone.
handle_timer ==
    /\ alive /\ pc = "idle" /\ state_ = "wait"
    /\ cur' = cur
    /\ offset_' = offset_ + 1
    /\ cache_buf_' = [cache_buf_ EXCEPT ![offset_ + 1] = cur]
    /\ state_' \in {"new_cmd", "write"} /\ next_state_' = "new_cmd"
    /\ LET all == Append(write_buf_, [slot |-> offset_ + 1, req |-> cur, item |-> FALSE]) IN
       IF op = "none"
       THEN op' = "write" /\ writing' = all /\ write_buf_' = <<>>
       ELSE write_buf_' = all /\ UNCHANGED <<op, writing>>
    /\ UNCHANGED <<streamVars, cache_items_, next_data_len_, swallow_size_, read_buffer_,
                   uploading, alive, pc, process_reqest_count>>
-----------------------------------------------------------------------------
(* The loop of process(), one case a step.                                 *)

InLoop(s) == alive /\ pc = "process" /\ state_ = s
LoopUnchanged == UNCHANGED <<sent, received, broken, alive, op, writing>>
Have == Len(read_buffer_)

\* Slip: the buffers are given up with every request.
Slip_next_request == "new_cmd"
\* Where a request that follows in the same buffer is read: its reply joins
\* those that wait.
next_request == "header"

reset_for_new_cmd ==
    /\ InLoop("new_cmd")
    /\ uploading' = FALSE /\ cache_items_' = {} /\ offset_' = 0
    /\ next_data_len_' = 1 /\ state_' = "header"
    /\ UNCHANGED <<net, swallow_size_, read_buffer_, cur, cache_buf_, write_buf_, pc,
                   next_state_, process_reqest_count>>
    /\ LoopUnchanged

Consume(n) == read_buffer_' = SubSeq(read_buffer_, n + 1, Have)
Kind == sent[cur']

process_header ==
    /\ InLoop("header") /\ Have >= next_data_len_
    /\ cur' = Head(read_buffer_)[1]
    /\ Consume(1)
    /\ process_reqest_count' = process_reqest_count + 1
    /\ \/ /\ HasFixed(Kind)
          /\ next_data_len_' = 1 /\ state_' = "fixed"
          /\ Unwritten
       \/ Kind = "hello" /\ Answer /\ UNCHANGED next_data_len_
       \/ Kind = "bad" /\ write_error(0, "closing") /\ UNCHANGED next_data_len_
    /\ UNCHANGED <<net, uploading, pc>>
    /\ LoopUnchanged

\* An update gets an item to read its body into, or its body is swallowed
\* behind the error.
process_update_req_pdu_fixed ==
    \/ /\ uploading' = TRUE
       /\ next_data_len_' = BodyLength[Kind] /\ state_' = "extras"
       /\ Unwritten
    \/ /\ write_error(BodyLength[Kind], "new_cmd")
       /\ UNCHANGED <<uploading, next_data_len_>>

\* A check is answered, or waits for the timer if there is nothing to tell.
process_check_watch_req_pdu_fixed ==
    /\ \/ Answer
       \/ state_' = "wait" /\ Unwritten
    /\ UNCHANGED <<uploading, next_data_len_>>

\* flush, stats and create_watch are answered at once.
process_flush_req_pdu_fixed ==
    Answer /\ UNCHANGED <<uploading, next_data_len_>>

process_pdu_fixed ==
    /\ InLoop("fixed") /\ Have >= next_data_len_
    /\ cur' = cur
    /\ Consume(next_data_len_)
    /\ \/ /\ Kind \in {"get", "get_long"}
          /\ next_data_len_' = BodyLength[Kind] /\ state_' = "extras2"
          /\ Unwritten /\ UNCHANGED uploading
       \/ Kind \in {"update", "empty"} /\ process_update_req_pdu_fixed
       \/ Kind = "flush" /\ process_flush_req_pdu_fixed
       \/ Kind = "check" /\ process_check_watch_req_pdu_fixed
    /\ UNCHANGED <<net, pc, process_reqest_count>>
    /\ LoopUnchanged

\* get and get_touch of a key that is there.
process_get_req_pdu_extras ==
    /\ Put(TRUE)
    /\ state_' = "write" /\ next_state_' = "new_cmd"
    /\ UNCHANGED swallow_size_

\* The other requests with a key, and a get that misses: one short reply.
process_update_flags_req_pdu_extras == Answer

\* process_pdu_extras2: the key is there.
process_pdu_extras2 ==
    /\ InLoop("extras2") /\ Have >= next_data_len_
    /\ cur' = cur
    /\ Consume(next_data_len_)
    /\ process_get_req_pdu_extras \/ process_update_flags_req_pdu_extras
    /\ UNCHANGED <<net, next_data_len_, uploading, pc, process_reqest_count>>
    /\ LoopUnchanged

\* process_pdu_extras: the whole body is in the item.
process_pdu_extras ==
    /\ InLoop("extras") /\ next_data_len_ = 0
    /\ cur' = cur
    /\ Answer
    /\ uploading' = FALSE
    /\ UNCHANGED <<net, next_data_len_, read_buffer_, pc, process_reqest_count>>
    /\ LoopUnchanged

\* What the buffer has of the len tokens wanted.
Taken(len) == IF Have > len THEN len ELSE Have

copy_extras ==
    /\ InLoop("extras") /\ next_data_len_ > 0 /\ Have > 0
    /\ next_data_len_' = next_data_len_ - Taken(next_data_len_)
    /\ Consume(Taken(next_data_len_))
    /\ UNCHANGED <<net, swallow_size_, cur, uploading, replyVars, pc, state_, next_state_,
                   process_reqest_count>>
    /\ LoopUnchanged

swallow ==
    /\ InLoop("swallow")
    /\ \/ /\ swallow_size_ = 0
          /\ state_' = "new_cmd"
          /\ UNCHANGED <<swallow_size_, read_buffer_>>
       \/ /\ swallow_size_ > 0 /\ Have > 0
          /\ swallow_size_' = swallow_size_ - Taken(swallow_size_)
          /\ Consume(Taken(swallow_size_))
          /\ UNCHANGED state_
    /\ UNCHANGED <<net, next_data_len_, cur, uploading, replyVars, pc, next_state_,
                   process_reqest_count>>
    /\ LoopUnchanged

\* Nothing to go on with in the buffer: read_some into it.
read_more ==
    /\ \/ \E s \in {"header", "fixed", "extras2"} : InLoop(s) /\ Have < next_data_len_
       \/ InLoop("swallow") /\ swallow_size_ > 0 /\ Have = 0
    /\ \E n \in 1..Len(net) :
          /\ read_buffer_' = read_buffer_ \o SubSeq(net, 1, n)
          /\ net' = SubSeq(net, n + 1, Len(net))
    /\ UNCHANGED <<next_data_len_, swallow_size_, cur, uploading, replyVars, pc, state_,
                   next_state_, process_reqest_count>>
    /\ LoopUnchanged

\* ... or, in the body of an update, straight into the item.
read_extras ==
    /\ InLoop("extras") /\ next_data_len_ > 0 /\ Have = 0
    /\ \E n \in 1..next_data_len_ :
          /\ n <= Len(net)
          /\ next_data_len_' = next_data_len_ - n
          /\ net' = SubSeq(net, n + 1, Len(net))
    /\ UNCHANGED <<swallow_size_, read_buffer_, cur, uploading, replyVars, pc, state_,
                   next_state_, process_reqest_count>>
    /\ LoopUnchanged

\* read_some has nothing, or the connection waits: the loop is left.
leave ==
    /\ \/ \E s \in {"header", "fixed", "extras2"} : InLoop(s) /\ Have < next_data_len_
       \/ InLoop("swallow") /\ swallow_size_ > 0 /\ Have = 0
       \/ InLoop("extras") /\ next_data_len_ > 0 /\ Have = 0
       \/ InLoop("wait")
    /\ pc' = "behind"
    /\ UNCHANGED <<net, readVars, replyVars, state_, next_state_, process_reqest_count>>
    /\ LoopUnchanged

\* The next request is there and may be answered with the same write.
Batched == next_state_ = "new_cmd" /\ process_reqest_count < BatchLimit /\ Have >= 1

\* A reply is in write_buf_: go on if the next request is there, else write.
write ==
    /\ InLoop("write")
    /\ next_state_' = "new_cmd"
    /\ \/ Batched /\ state_' = next_request /\ UNCHANGED pc
       \/ ~Batched /\ state_' = next_state_ /\ pc' = "behind"
    /\ UNCHANGED <<net, readVars, replyVars, process_reqest_count>>
    /\ LoopUnchanged

close ==
    /\ InLoop("closing")
    /\ state_' = "closed" /\ pc' = "behind"
    /\ UNCHANGED <<net, readVars, replyVars, next_state_, process_reqest_count>>
    /\ LoopUnchanged

process ==
    \/ reset_for_new_cmd \/ process_header \/ process_pdu_fixed \/ process_pdu_extras2
    \/ process_pdu_extras \/ copy_extras \/ swallow \/ read_more \/ read_extras \/ leave
    \/ write \/ close
-----------------------------------------------------------------------------
\* The end of a run: every request sent, the connection gone.
Done == ~alive /\ UNCHANGED vars

Next ==
    \/ \E k \in Kinds : Send(k)
    \/ Break \/ Deliver
    \/ handle_read \/ handle_write \/ handle_timer
    \/ process \/ after_process
    \/ Done

\* The threads of io_service run what is ready, the timer fires, and the
\* network delivers.  Nothing is assumed of the client.
Fairness ==
    /\ WF_vars(process) /\ WF_vars(after_process)
    /\ WF_vars(handle_read) /\ WF_vars(handle_write) /\ WF_vars(handle_timer)
    /\ WF_vars(Deliver)

Spec == Init /\ [][Next]_vars /\ Fairness
-----------------------------------------------------------------------------
\* The replies come in the order of the requests, one each, and each is the
\* reply of its request, however the bytes were cut and the replies collected
\* (process, write_error, cache_buf_).
RepliesInOrder == \A i \in 1..Len(received) : received[i] = i

\* No reply that is still to be written points into buffers reset_for_new_cmd
\* has given up, or at an item the connection has released.
PendingIntact ==
    \A e \in ToSet(write_buf_) \cup (IF op = "write" THEN ToSet(writing) ELSE {}) :
        /\ e.slot <= offset_ /\ cache_buf_[e.slot] = e.req
        /\ e.item => e.req \in cache_items_

\* The loop and the stream agree where a request begins, also behind a body
\* that was swallowed or cut in two.
Framed ==
    Have > 0 =>
        CASE state_ \in {"header", "new_cmd"} -> Head(read_buffer_) = <<cur + 1, 1>>
          [] state_ = "fixed" -> Head(read_buffer_) = <<cur, 2>>
          [] state_ \in {"extras", "extras2"} /\ next_data_len_ > 0 ->
                Head(read_buffer_)[1] = cur
          [] state_ = "swallow" /\ swallow_size_ > 0 -> Head(read_buffer_)[1] = cur
          [] OTHER -> TRUE

\* A connection that lives has something that will call it again: an operation
\* or, while it waits, the timer; op_count_ decides when self_ is let go.
NeverOrphaned == (alive /\ pc = "idle") => (op # "none" \/ state_ = "wait")

\* A request follows in the buffer, but next_data_len_ is still the length of a
\* part of the request before it, and the buffer holds less than that.
Stalled == state_ = "header" /\ Have \in 1..(next_data_len_ - 1)

\* Every request is answered, unless the connection breaks, is closed behind an
\* unknown command, or is stalled.
AnsweredUnlessStalled ==
    \A n \in Reqs :
        (Len(sent) >= n) ~> (Len(received) >= n \/ broken \/ ~alive \/ Stalled)

\* Every request is answered, also one the client sends before it has the reply
\* to the one before, as multiGet of the Java client does.
EveryRequestAnswered ==
    \A n \in Reqs : (Len(sent) >= n) ~> (Len(received) >= n \/ broken \/ ~alive)
=============================================================================
