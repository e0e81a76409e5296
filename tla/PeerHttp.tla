------------------------------ MODULE PeerHttp ------------------------------
(***************************************************************************)
(* One HTTP connection (Peer_Http, src/src/peer_http.cpp): the state       *)
(* machine that finds the end of a header, reads the body of a POST, runs  *)
(* the command and writes its reply; which members of the connection       *)
(* outlive a request, and which items it holds meanwhile.                  *)
(*                                                                         *)
(* A request is a header, whose last token ends it, and a body; tokens     *)
(* <<request, position>> arrive in pieces of any length, and a client may  *)
(* send the next request before it has the reply.  One pass through the    *)
(* loop of process() is one step; lock_ keeps the other handlers out.      *)
(*                                                                         *)
(* The state PEER_STATUS_ASYNC_WAIT cannot be reached: process_command     *)
(* compares the command "watch" with ten characters, so process_watch,     *)
(* on_cache_watch_notify and handle_timer never run.                       *)
(***************************************************************************)
EXTENDS Integers, Sequences, FiniteSetsExt, SequencesExt

CONSTANTS
    Kinds,        \* the requests the client makes, a set of names of HeaderLength
    MaxReq,       \* bound on the requests sent
    HeaderMax,    \* 8192: tokens of a header without its end
    MinNext       \* 10: tokens of a next request worth going on with

\* "get" asks for an item, "old" does so with HTTP/1.0, "post" has a body, and
\* "bare" is a POST with no content length.  The body of "large" is longer than
\* is accepted, "bad" has an unknown method, "long" a header beyond the limit.
HeaderLength == [get |-> 2, old |-> 2, post |-> 2, bare |-> 2, large |-> 2,
                 bad |-> 2, long |-> 5]
BodyLength == [get |-> 0, old |-> 0, post |-> 2, bare |-> 0, large |-> 2,
               bad |-> 0, long |-> 0]
Tokens(n, k) == [i \in 1..(HeaderLength[k] + BodyLength[k]) |-> <<n, i>>]

ASSUME PeerHttpAssumption ==
    /\ Kinds \subseteq DOMAIN HeaderLength
    /\ MaxReq \in Nat /\ HeaderMax \in Nat \ {0} /\ MinNext \in Nat \ {0}

VARIABLES
    sent, received, net, broken,       \* the client, the bytes on the way
    alive, pc, op,                     \* self_, the loop, the operation under way
    state_, next_state_, next_data_len_,
    read_buffer_,                      \* tokens received and not consumed
    process_reqest_count,
    keepalive, content_length_,        \* of http_request_ and the connection
    cur,                               \* the request being answered
    request_buf_,                      \* requests whose reply is stored there
    cache_item_, held,                 \* the item; all references not given back
    write_buf_, writing,
    intact,                            \* history: the stream is still in step
    late                               \* history: bodies that came after a pass

streamVars == <<sent, received, net, broken>>
requestVars == <<keepalive, content_length_, cur>>
replyVars == <<request_buf_, cache_item_, held, write_buf_>>
vars == <<streamVars, requestVars, replyVars, alive, pc, op, state_, next_state_,
          next_data_len_, read_buffer_, process_reqest_count, writing, intact, late>>

Reqs == 1..MaxReq
States == {"new_cmd", "header", "extras", "write", "closing", "closed"}
Reply == [req: Reqs, item: BOOLEAN, refused: BOOLEAN]

TypeOK ==
    /\ sent \in Seq(Kinds) /\ received \in Seq([req: 0..MaxReq, refused: BOOLEAN])
    /\ net \in Seq(Reqs \X (1..5)) /\ broken \in BOOLEAN /\ alive \in BOOLEAN
    /\ pc \in {"idle", "process", "behind"} /\ op \in {"none", "read", "write", "written"}
    /\ state_ \in States /\ next_state_ \in {"new_cmd", "closing"}
    /\ next_data_len_ \in 0..2 /\ content_length_ \in {0, 2}
    /\ read_buffer_ \in Seq(Reqs \X (1..5)) /\ process_reqest_count \in 0..1
    /\ keepalive \in BOOLEAN /\ cur \in 0..MaxReq
    /\ request_buf_ \subseteq Reqs /\ held \subseteq Reqs /\ cache_item_ \in 0..MaxReq
    /\ write_buf_ \in Seq(Reply) /\ writing \in Seq(Reply)
    /\ intact \in BOOLEAN /\ late \subseteq Reqs

\* start() with the first bytes still to come.
Init ==
    /\ sent = <<>> /\ received = <<>> /\ net = <<>> /\ broken = FALSE
    /\ alive = TRUE /\ pc = "process" /\ op = "none"
    /\ state_ = "new_cmd" /\ next_state_ = "new_cmd" /\ next_data_len_ = 0
    /\ read_buffer_ = <<>> /\ process_reqest_count = 0
    /\ keepalive = FALSE /\ content_length_ = 0 /\ cur = 0
    /\ request_buf_ = {} /\ cache_item_ = 0 /\ held = {}
    /\ write_buf_ = <<>> /\ writing = <<>>
    /\ intact = TRUE /\ late = {}
-----------------------------------------------------------------------------
(* The client.                                                             *)

Send(k) ==
    /\ Len(sent) < MaxReq /\ ~broken
    /\ sent' = Append(sent, k)
    /\ net' = net \o Tokens(Len(sent) + 1, k)
    /\ UNCHANGED <<received, broken, requestVars, replyVars, alive, pc, op, state_, next_state_,
                   next_data_len_, read_buffer_, process_reqest_count, writing, intact, late>>

Break ==
    /\ ~broken /\ broken' = TRUE
    /\ net' = <<>>
    /\ UNCHANGED <<sent, received, requestVars, replyVars, alive, pc, op, state_, next_state_,
                   next_data_len_, read_buffer_, process_reqest_count, writing, intact, late>>

\* The bytes of a write arrive: whatever the buffers hold by then.
Deliver ==
    /\ op = "write" /\ ~broken
    /\ op' = "written"
    /\ received' = received \o [i \in 1..Len(writing) |->
          [req |-> IF writing[i].req \in request_buf_ THEN writing[i].req ELSE 0,
           refused |-> writing[i].refused]]
    /\ UNCHANGED <<sent, net, broken, requestVars, replyVars, alive, pc, state_, next_state_,
                   next_data_len_, read_buffer_, process_reqest_count, writing, intact, late>>
-----------------------------------------------------------------------------
(* Handlers.                                                               *)

Enter == pc' = "process" /\ process_reqest_count' = 0

\* self_.reset(): cleanup gives the item back.
Closed == alive' = FALSE /\ held' = held \ {cache_item_} /\ cache_item_' = 0
Open == UNCHANGED <<alive, held, cache_item_>>

\* handle_read: some bytes, or an error, with no operation left under way.
handle_read ==
    /\ alive /\ pc = "idle" /\ op = "read"
    /\ op' = "none"
    /\ \/ /\ ~broken
          /\ \E n \in 1..Len(net) :
                /\ read_buffer_' = read_buffer_ \o SubSeq(net, 1, n)
                /\ net' = SubSeq(net, n + 1, Len(net))
          /\ Enter /\ Open
       \/ /\ broken /\ Closed
          /\ UNCHANGED <<read_buffer_, net, pc, process_reqest_count>>
    /\ UNCHANGED <<sent, received, broken, requestVars, request_buf_, write_buf_, state_,
                   next_state_, next_data_len_, writing, intact, late>>

handle_write ==
    /\ alive /\ pc = "idle"
    /\ op' = "none" /\ writing' = <<>>
    /\ \/ op = "written" /\ Enter /\ Open
       \/ op = "write" /\ broken /\ Closed /\ UNCHANGED <<pc, process_reqest_count>>
    /\ UNCHANGED <<streamVars, requestVars, request_buf_, write_buf_, state_, next_state_,
                   next_data_len_, read_buffer_, intact, late>>

\* Slip: a connection that is closing is not written to.
Slip_after_process ==
    /\ pc = "behind"
    /\ pc' = "idle"
    /\ \/ /\ state_ \notin {"closing", "closed"} /\ write_buf_ # <<>>
          /\ op' = "write" /\ writing' = write_buf_ /\ write_buf_' = <<>> /\ Open
       \/ /\ state_ \notin {"closing", "closed"} /\ write_buf_ = <<>>
          /\ op' = "read" /\ Open /\ UNCHANGED <<write_buf_, writing>>
       \/ state_ \in {"closing", "closed"} /\ Open /\ UNCHANGED <<op, write_buf_, writing>>
    /\ UNCHANGED <<streamVars, requestVars, request_buf_, state_, next_state_, next_data_len_,
                   read_buffer_, process_reqest_count, intact, late>>

\* What start, handle_read and handle_write do behind process(): try_write,
\* else try_read, unless closed.
after_process ==
    /\ pc = "behind"
    /\ pc' = "idle"
    /\ \/ /\ state_ # "closed" /\ write_buf_ # <<>>
          /\ op' = "write" /\ writing' = write_buf_ /\ write_buf_' = <<>> /\ Open
       \/ /\ state_ # "closed" /\ write_buf_ = <<>>
          /\ op' = "read" /\ Open /\ UNCHANGED <<write_buf_, writing>>
       \/ state_ = "closed" /\ Closed /\ UNCHANGED <<op, write_buf_, writing>>
    /\ UNCHANGED <<streamVars, requestVars, request_buf_, state_, next_state_, next_data_len_,
                   read_buffer_, process_reqest_count, intact, late>>
-----------------------------------------------------------------------------
(* Commands: what each leaves in the connection.                           *)

AddReply(item, refused) ==
    /\ request_buf_' = request_buf_ \cup {cur'}
    /\ write_buf_' = Append(write_buf_, [req |-> cur', item |-> item, refused |-> refused])
    /\ state_' = "write" /\ next_state_' = "new_cmd"

\* write_error: the body, if there is one, stays in the stream.
write_error == AddReply(FALSE, TRUE) /\ UNCHANGED <<cache_item_, held>>

\* process_get of an item that is there: it is sent out of the item, which the
\* connection keeps in cache_item_; one that is kept there already is lost.
process_get ==
    /\ AddReply(TRUE, FALSE)
    /\ cache_item_' = cur' /\ held' = held \cup {cur'}

\* process_update: the item is allocated, handed to the store and given back.
process_update ==
    /\ AddReply(FALSE, FALSE)
    /\ cache_item_' = 0 /\ UNCHANGED held

\* get of a base, delete, incr, decr, touch, flags, flush, stats, createwatch, a
\* miss, a failure of the command: a short reply.
process_delete == AddReply(FALSE, FALSE) /\ UNCHANGED <<cache_item_, held>>

process_command == process_get \/ process_update \/ process_delete
-----------------------------------------------------------------------------
(* The loop of process(), one case a step.                                 *)

InLoop(s) == alive /\ pc = "process" /\ state_ = s
LoopUnchanged == UNCHANGED <<sent, received, broken, alive, op, writing>>
Have == Len(read_buffer_)
Consume(n) == read_buffer_' = SubSeq(read_buffer_, n + 1, Have)
NoReply == UNCHANGED <<replyVars, next_state_>>

\* Slip: the item is not given back.
Slip_reset_for_new_cmd ==
    /\ InLoop("new_cmd")
    /\ cache_item_' = 0
    /\ keepalive' = FALSE /\ content_length_' = 0
    /\ request_buf_' = {} /\ next_data_len_' = 0 /\ state_' = "header"
    /\ UNCHANGED <<net, cur, held, write_buf_, pc, next_state_, read_buffer_,
                   process_reqest_count, intact, late>>
    /\ LoopUnchanged

reset_for_new_cmd ==
    /\ InLoop("new_cmd")
    /\ held' = held \ {cache_item_} /\ cache_item_' = 0
    /\ keepalive' = FALSE /\ content_length_' = 0
    /\ request_buf_' = {} /\ next_data_len_' = 0 /\ state_' = "header"
    /\ UNCHANGED <<net, cur, write_buf_, pc, next_state_, read_buffer_, process_reqest_count,
                   intact, late>>
    /\ LoopUnchanged

\* The ends of headers in the buffer.
Ends == {p \in 1..Have : read_buffer_[p][2] = HeaderLength[sent[read_buffer_[p][1]]]}

\* process_request_header of the request n, read alone or with leftovers before
\* it: HTTP/1.1 keeps the connection, and nothing takes that back; the content
\* length of an earlier request stands if the header has none.
process_request_header(n, alone) ==
    LET kind == sent[n]
        length == IF BodyLength[kind] > 0 THEN BodyLength[kind] ELSE content_length_
    IN
    /\ cur' = n
    /\ \/ /\ ~alone \/ kind = "bad"
          /\ keepalive' \in {TRUE, keepalive}
          /\ write_error
          /\ UNCHANGED <<content_length_, next_data_len_, intact>>
       \/ /\ alone /\ kind # "bad"
          /\ keepalive' = (keepalive \/ kind # "old")
          /\ content_length_' = length
          /\ \/ kind = "large" /\ write_error /\ intact' = FALSE /\ UNCHANGED next_data_len_
             \/ /\ kind \in {"post", "bare"} /\ length > 0
                /\ next_data_len_' = length /\ state_' = "extras"
                /\ intact' = (intact /\ kind = "post")
                /\ NoReply
             \/ /\ kind \in {"get", "old", "long"} \/ (kind = "bare" /\ length = 0)
                /\ process_command /\ UNCHANGED <<next_data_len_, intact>>

\* try_read_command finds the end of a header ...
read_header ==
    /\ InLoop("header") /\ Ends # {}
    /\ LET p == Min(Ends)
           n == read_buffer_[p][1]
       IN process_request_header(n, read_buffer_[1] = <<n, 1>>) /\ Consume(p)
    /\ process_reqest_count' = process_reqest_count + 1
    /\ UNCHANGED <<net, pc, late>>
    /\ LoopUnchanged

\* ... or too many bytes and no end: all of them are given up.
header_too_large ==
    /\ InLoop("header") /\ Ends = {} /\ Have >= HeaderMax
    /\ cur' = read_buffer_[1][1]
    /\ write_error /\ Consume(Have)
    /\ process_reqest_count' = process_reqest_count + 1
    /\ intact' = FALSE
    /\ UNCHANGED <<net, keepalive, content_length_, next_data_len_, pc, late>>
    /\ LoopUnchanged

\* process_post: the command is run with the arguments of the body, or refused
\* for its content type or an argument.
process_post ==
    /\ InLoop("extras") /\ next_data_len_ = 0
    /\ cur' = cur
    /\ process_command \/ write_error
    /\ UNCHANGED <<net, keepalive, content_length_, next_data_len_, read_buffer_, pc,
                   process_reqest_count, intact, late>>
    /\ LoopUnchanged

\* Slip: all of the buffer is taken for the body.
Slip_copy_extras ==
    /\ InLoop("extras") /\ next_data_len_ > 0 /\ Have > 0
    /\ next_data_len_' = IF Have > next_data_len_ THEN 0 ELSE next_data_len_ - Have
    /\ Consume(Have)
    /\ NoReply
    /\ UNCHANGED <<net, requestVars, pc, state_, process_reqest_count, intact, late>>
    /\ LoopUnchanged

copy_extras ==
    /\ InLoop("extras") /\ next_data_len_ > 0 /\ Have > 0
    /\ LET tmp == IF Have > next_data_len_ THEN next_data_len_ ELSE Have IN
       next_data_len_' = next_data_len_ - tmp /\ Consume(tmp)
    /\ NoReply
    /\ UNCHANGED <<net, requestVars, pc, state_, process_reqest_count, intact, late>>
    /\ LoopUnchanged

\* Nothing to go on with in the buffer: read_some into it.
Incomplete == Ends = {} /\ Have < HeaderMax
read_more ==
    /\ InLoop("header") /\ Incomplete
    /\ \E n \in 1..Len(net) :
          /\ read_buffer_' = read_buffer_ \o SubSeq(net, 1, n)
          /\ net' = SubSeq(net, n + 1, Len(net))
    /\ NoReply
    /\ UNCHANGED <<requestVars, next_data_len_, pc, state_, process_reqest_count, intact, late>>
    /\ LoopUnchanged

\* ... or, in a body, straight to its place.
read_extras ==
    /\ InLoop("extras") /\ next_data_len_ > 0 /\ Have = 0
    /\ \E n \in 1..next_data_len_ :
          /\ n <= Len(net)
          /\ next_data_len_' = next_data_len_ - n
          /\ net' = SubSeq(net, n + 1, Len(net))
    /\ NoReply
    /\ UNCHANGED <<requestVars, pc, state_, read_buffer_, process_reqest_count, intact, late>>
    /\ LoopUnchanged

\* read_some has nothing: the loop is left.
leave ==
    /\ \/ InLoop("header") /\ Incomplete /\ UNCHANGED late
       \/ InLoop("extras") /\ next_data_len_ > 0 /\ Have = 0 /\ late' = late \cup {cur}
    /\ pc' = "behind"
    /\ NoReply
    /\ UNCHANGED <<net, requestVars, next_data_len_, state_, read_buffer_,
                   process_reqest_count, intact>>
    /\ LoopUnchanged

\* A reply to a request whose header an earlier pass has read: the next request
\* is looked at before the write, with the members as this one leaves them.
Another == process_reqest_count < 1 /\ Have >= MinNext

write ==
    /\ InLoop("write")
    /\ next_state_' = "new_cmd"
    /\ \/ /\ keepalive /\ Another
          /\ state_' = "header" /\ UNCHANGED pc
       \/ /\ keepalive /\ ~Another
          /\ state_' = next_state_ /\ pc' = "behind"
       \/ /\ ~keepalive
          /\ state_' = "closing" /\ pc' = "behind"
    /\ UNCHANGED <<net, requestVars, replyVars, next_data_len_, read_buffer_,
                   process_reqest_count, intact, late>>
    /\ LoopUnchanged

close ==
    /\ InLoop("closing")
    /\ state_' = "closed" /\ pc' = "behind"
    /\ NoReply
    /\ UNCHANGED <<net, requestVars, next_data_len_, read_buffer_, process_reqest_count, intact,
                   late>>
    /\ LoopUnchanged

process ==
    \/ reset_for_new_cmd \/ read_header \/ header_too_large \/ process_post \/ copy_extras
    \/ read_more \/ read_extras \/ leave \/ write \/ close
-----------------------------------------------------------------------------
\* The end of a run: the connection is gone.
Done == ~alive /\ UNCHANGED vars

Next ==
    \/ \E k \in Kinds : Send(k)
    \/ Break \/ Deliver
    \/ handle_read \/ handle_write
    \/ process \/ after_process
    \/ Done

\* The threads of io_service run what is ready, and the network delivers.
\* Nothing is assumed of the client.
Fairness ==
    /\ WF_vars(process) /\ WF_vars(after_process)
    /\ WF_vars(handle_read) /\ WF_vars(handle_write) /\ WF_vars(Deliver)

Spec == Init /\ [][Next]_vars /\ Fairness
-----------------------------------------------------------------------------
\* The replies come in the order of the requests, one each; of two replies sent
\* with one write neither is lost, and a request without fault is not refused
\* for the leftovers of another.  So it is until a body is left unread by
\* write_error, a header is cut off, or a POST without a content length is read
\* with that of the POST before it.
RepliesInOrder ==
    intact => \A i \in 1..Len(received) :
        /\ received[i].req = i
        /\ received[i].refused => sent[i] \notin {"get", "old", "bare"}

\* The loop and the stream agree where a request begins, however the bytes are
\* cut: a header is read alone, and a body is that of its header.
Framed ==
    intact /\ Have > 0 =>
        CASE state_ \in {"header", "new_cmd"} -> Head(read_buffer_) = <<cur + 1, 1>>
          [] state_ = "extras" /\ next_data_len_ > 0 ->
                Head(read_buffer_) = <<cur, 5 - next_data_len_>>
          [] OTHER -> TRUE

\* Every reference to an item is given back.  One that is not was taken by a
\* POST whose body came in a later pass: the request behind it is answered
\* without reset_for_new_cmd and overwrites cache_item_ (process_get,
\* process_update).
LostOnlyBehindLatePost ==
    /\ \A n \in held \ {cache_item_} : n \in late
    /\ ~alive => cache_item_ = 0

\* A connection that lives has an operation under way that will call it again.
NeverOrphaned == alive /\ pc = "idle" => op # "none"

\* Every request is answered, unless the connection breaks or is closed or the
\* stream is out of step.
Answered ==
    \A n \in Reqs :
        (Len(sent) >= n) ~> (Len(received) >= n \/ broken \/ ~alive \/ ~intact)
=============================================================================
