------------------------------ MODULE MultiOps ------------------------------
(***************************************************************************)
(* The multi operations of the Java client (multi/MultiGet, MultiUpdate,   *)
(* MultiDelete and MultiUpdateExpiration): one call sends many requests,   *)
(* pipelined on one non-blocking socket per server, and a selector loop    *)
(* writes the requests in batches of one output buffer and reads the       *)
(* replies part by part as they arrive, until every connection is done,    *)
(* an exception ends the call, or its time is up.                          *)
(*                                                                         *)
(* Bytes are counted in units.  A request is KeyLen units and, in an       *)
(* update, its data; a reply is a head of PartLen units followed by what   *)
(* its type asks for.  The server answers the requests of a connection in  *)
(* order (module PeerCache); it may close or reset a connection, and it    *)
(* may be too late, at any point.                                          *)
(***************************************************************************)
EXTENDS Naturals, Sequences, SequencesExt, FiniteSetsExt

CONSTANTS
  Hosts,      \* the servers the keys of the call belong to
  Items,      \* Items[h]: the list positions of the keys that are h's
  KeyLen,     \* KeyLen[i]: the units of request i without data
  DataLens,   \* the sizes the values may have: functions of the position
  PartLen,    \* the units of a reply's head, fixed body and error body
  Capacity,   \* the units of the output buffer a call starts with
  MaxLost,    \* bound: connections the servers close
  Kinds       \* which of "get", "update", "delete", "expiration" are called

Positions == UNION {Range(Items[h]) : h \in Hosts}

ASSUME SizeAssumption ==
  /\ Capacity \in Nat \ {0} /\ PartLen \in Nat \ {0} /\ MaxLost \in Nat
  /\ DataLens \subseteq [Positions -> Nat] /\ DataLens # {}
  /\ Kinds \subseteq {"get", "update", "delete", "expiration"}
  /\ \A i \in Positions : KeyLen[i] \in Nat \ {0}
ASSUME ItemsAssumption ==
  /\ IsFiniteSet(Hosts)
  /\ \A h \in Hosts : /\ Items[h] \in Seq(Positions) /\ Items[h] # <<>>
                      /\ IsInjective(Items[h])
  /\ \A h, g \in Hosts : h # g => Range(Items[h]) \cap Range(Items[g]) = {}

VARIABLES
  kind,        \* which multi operation this call is
  dataLen,     \* dataLen[i]: the size of the value of key i
  found,       \* found[i]: request i succeeds, else it is answered by an error
  phase,       \* "init", "loop", "finally" or "done"
  todo,        \* hosts whose connection is still to be initialised
  numConns,    \* connections the loop still waits for
  ended,       \* "" or how the loop ended: "complete", "exception", "timeout"
  late,        \* the time was up although the call could still go on
  selector,    \* "open", "pooled" or "closed"
  socket,      \* socket[h]: "none", "null", "nonblocking", "pooled", "closed"
  peer,        \* peer[h]: "up", "eof" or "reset"
  outBuffer,   \* outBuffer[h]: units encoded and not yet written
  limit,       \* limit[h]: the limit of the output buffer
  curr,        \* curr[h]: currKeyIndex, the requests encoded so far
  loaded,      \* loaded[h]: the item MultiUpdate encoded last, 0 at first
  opWrite,     \* opWrite[h]: OP_WRITE is among the interests
  sent,        \* sent[h]: all units written to the socket
  served,      \* served[h]: units of requests the server has answered
  stream,      \* stream[h]: units of replies not yet read
  state,       \* state[h]: the part of the reply being read
  taken,       \* taken[h]: units of this part read so far
  processed,   \* processed[h]: replies processed
  result,      \* result[i]: what the caller finds at position i
  dropped      \* positions whose key was removed from the local cache

requestVars == <<outBuffer, limit, curr, loaded, opWrite, sent>>
replyVars == <<state, taken, processed, result, dropped>>
serverVars == <<peer, served>>
inputVars == <<kind, dataLen, found>>
multiVars == <<inputVars, phase, todo, numConns, ended, late, selector, socket,
          requestVars, serverVars, stream, replyVars>>

Keys(h) == Len(Items[h])
isDone(h) == processed[h] = Keys(h)
Registered(h) == socket[h] = "nonblocking" /\ ~isDone(h)

\* An entry of the caller's list: the answer to a request, or none.
Answer(i) == [is |-> "answer", to |-> i]
Nothing == [is |-> "nothing", to |-> 0]

MultiInit ==
  /\ kind \in Kinds
  /\ dataLen \in IF kind \in {"get", "update"} THEN DataLens
                 ELSE {[i \in Positions |-> 0]}
  /\ found \in [Positions -> BOOLEAN]
  /\ phase = "init" /\ todo = Hosts /\ numConns = 0 /\ ended = "" /\ late = FALSE
  /\ selector = "open"
  /\ socket = [h \in Hosts |-> "none"]
  /\ peer = [h \in Hosts |-> "up"]
  /\ outBuffer = [h \in Hosts |-> <<>>]
  /\ limit = [h \in Hosts |-> Capacity]
  /\ curr = [h \in Hosts |-> 0]
  /\ loaded = [h \in Hosts |-> 0]
  /\ opWrite = [h \in Hosts |-> TRUE]
  /\ sent = [h \in Hosts |-> <<>>]
  /\ served = [h \in Hosts |-> 0]
  /\ stream = [h \in Hosts |-> <<>>]
  /\ state = [h \in Hosts |-> "head"]
  /\ taken = [h \in Hosts |-> 0]
  /\ processed = [h \in Hosts |-> 0]
  /\ result = [i \in Positions |-> Nothing]
  /\ dropped = {}

------------------------------------------------------------------------------
\* Writing: batches of one buffer

ReqLen(i) == KeyLen[i] + (IF kind = "update" THEN dataLen[i] ELSE 0)

\* The units of a sequence of requests, each unit naming its request.
Units(s) == FlattenSeq([n \in 1..Len(s) |-> [u \in 1..ReqLen(s[n]) |-> s[n]]])

\* The requests of a batch that starts with request `first`: those numbered
\* curr + 2 and on follow it as long as they fit into the limit.  The first
\* one goes in anyway: a buffer of its size is allocated if it must be.
Batch(h, first, lim) ==
  LET upTo(b) == <<first>> \o SubSeq(Items[h], curr[h] + 2, b)
      fits == {b \in (curr[h] + 2)..Keys(h) : Len(Units(upTo(b))) <= lim}
  IN upTo(Max(fits \cup {curr[h] + 1}))

\* Slip: the index is not advanced for the first request of the batch.
Slip_PutBatch(h, first) ==
  LET batch == Batch(h, first, limit[h])
  IN /\ outBuffer' = [outBuffer EXCEPT ![h] = Units(batch)]
     /\ limit' = [limit EXCEPT ![h] = Len(Units(batch))]
     /\ curr' = [curr EXCEPT ![h] = @ + Len(batch) - 1]

\* Put the batch and flip: the limit becomes what was put.
PutBatch(h, first) ==
  LET batch == Batch(h, first, limit[h])
  IN /\ outBuffer' = [outBuffer EXCEPT ![h] = Units(batch)]
     /\ limit' = [limit EXCEPT ![h] = Len(Units(batch))]
     /\ curr' = [curr EXCEPT ![h] = @ + Len(batch)]

get_encode(h) == PutBatch(h, Items[h][curr[h] + 1]) /\ UNCHANGED loaded
delete_encode(h) == PutBatch(h, Items[h][curr[h] + 1]) /\ UNCHANGED loaded
expiration_encode(h) == PutBatch(h, Items[h][curr[h] + 1]) /\ UNCHANGED loaded

\* MultiUpdate encodes a value before it knows whether the request fits; the
\* item it could not place stays loaded for the next batch, unless dataSize is
\* 0, which stands for "nothing loaded".
update_encode(h) ==
  LET keep == loaded[h] # 0 /\ dataLen[loaded[h]] # 0
  IN /\ PutBatch(h, IF keep THEN loaded[h] ELSE Items[h][curr[h] + 1])
     /\ loaded' = [loaded EXCEPT ![h] = Items[h][Min({curr'[h] + 1, Keys(h)})]]

encode(h) ==
  CASE kind = "get" -> get_encode(h)
    [] kind = "update" -> update_encode(h)
    [] kind = "delete" -> delete_encode(h)
    [] kind = "expiration" -> expiration_encode(h)

\* The socket takes k units of the output buffer.
Write(h, k) ==
  /\ sent' = [sent EXCEPT ![h] = @ \o SubSeq(outBuffer[h], 1, k)]
  /\ outBuffer' = [outBuffer EXCEPT ![h] = SubSeq(@, k + 1, Len(@))]

\* Connection.init, for a host whose socket could be had.
init(h) ==
  /\ phase = "init" /\ h \in todo
  /\ todo' = todo \ {h}
  /\ socket' = [socket EXCEPT ![h] = "nonblocking"]
  /\ encode(h)
  /\ UNCHANGED <<inputVars, phase, numConns, ended, late, selector, opWrite, sent,
                 serverVars, stream, replyVars>>

\* getSocketByHost returned null: the host is passed over.
SkipHost(h) ==
  /\ phase = "init" /\ h \in todo
  /\ todo' = todo \ {h}
  /\ socket' = [socket EXCEPT ![h] = "null"]
  /\ UNCHANGED <<inputVars, phase, numConns, ended, late, selector, requestVars,
                 serverVars, stream, replyVars>>

\* numConns counts every host, those without a socket too.
StartLoop ==
  /\ phase = "init" /\ todo = {}
  /\ phase' = "loop"
  /\ numConns' = Cardinality(Hosts)
  /\ UNCHANGED <<inputVars, todo, ended, late, selector, socket, requestVars,
                 serverVars, stream, replyVars>>

\* Slip: the connection stops asking to write after its first batch.
Slip_processRequest(h) ==
  /\ phase = "loop" /\ Registered(h) /\ opWrite[h] /\ peer[h] # "reset"
  /\ \/ /\ \E k \in 1..Len(outBuffer[h]) : Write(h, k)
        /\ UNCHANGED <<limit, curr, loaded, opWrite>>
     \/ /\ outBuffer[h] = <<>>
        /\ opWrite' = [opWrite EXCEPT ![h] = FALSE]
        /\ UNCHANGED <<outBuffer, limit, curr, loaded, sent>>
  /\ UNCHANGED <<inputVars, phase, todo, numConns, ended, late, selector, socket,
                 serverVars, stream, replyVars>>

\* A writable socket: write what is left of the batch; with nothing left,
\* stop asking to write if all is encoded, else encode the next batch.
processRequest(h) ==
  /\ phase = "loop" /\ Registered(h) /\ opWrite[h] /\ peer[h] # "reset"
  /\ \/ /\ \E k \in 1..Len(outBuffer[h]) : Write(h, k)
        /\ UNCHANGED <<limit, curr, loaded, opWrite>>
     \/ /\ outBuffer[h] = <<>> /\ curr[h] >= Keys(h)
        /\ opWrite' = [opWrite EXCEPT ![h] = FALSE]
        /\ UNCHANGED <<outBuffer, limit, curr, loaded, sent>>
     \/ /\ outBuffer[h] = <<>> /\ curr[h] < Keys(h)
        /\ encode(h)
        /\ UNCHANGED <<opWrite, sent>>
  /\ UNCHANGED <<inputVars, phase, todo, numConns, ended, late, selector, socket,
                 serverVars, stream, replyVars>>

------------------------------------------------------------------------------
\* The server, seen from the connection

\* The units of the reply to request i.
Reply(i) ==
  LET part(p, n) == [u \in 1..n |-> <<i, p>>]
  IN part("head", PartLen) \o
     (IF ~found[i] THEN part("error", PartLen)
      ELSE CASE kind = "get" -> part("fixed", PartLen) \o part("data", dataLen[i])
             [] kind = "delete" -> <<>>
             [] OTHER -> part("fixed", PartLen))

\* The request that comes next in what was sent, and whether it is all there.
NextAsked(h) == sent[h][served[h] + 1]
Asked(h) == /\ served[h] < Len(sent[h])
            /\ served[h] + ReqLen(NextAsked(h)) <= Len(sent[h])

\* The server's process() comes to the next request and answers it (what it
\* does after the loop has ended no longer reaches the call).  It may leave any
\* whole request for good: PeerCache shows where it does.
Serve(h) ==
  /\ phase = "loop" /\ peer[h] = "up" /\ Asked(h)
  /\ stream' = [stream EXCEPT ![h] = @ \o Reply(NextAsked(h))]
  /\ served' = [served EXCEPT ![h] = @ + ReqLen(NextAsked(h))]
  /\ UNCHANGED <<inputVars, phase, todo, numConns, ended, late, selector, socket,
                 requestVars, peer, replyVars>>

\* The server closes the connection; later use of it may be answered by a reset.
PeerFails(h) ==
  /\ phase = "loop" /\ socket[h] = "nonblocking"
  /\ \/ peer[h] = "up" /\ Cardinality({g \in Hosts : peer[g] # "up"}) < MaxLost
        /\ peer' = [peer EXCEPT ![h] = "eof"]
     \/ peer[h] = "eof" /\ peer' = [peer EXCEPT ![h] = "reset"]
  /\ UNCHANGED <<inputVars, phase, todo, numConns, ended, late, selector, socket,
                 requestVars, served, stream, replyVars>>

------------------------------------------------------------------------------
\* Reading: one part of a reply after the other

\* socket.read takes up to n - taken units of a part of n; taken is 0 again
\* when the part is whole.  A read of nothing (no units, the end of the stream,
\* or no room in the buffer) ends the handler and changes nothing.
ReadPart(h, n) ==
  \E k \in 1..Min({n - taken[h], Len(stream[h])}) :
    /\ stream' = [stream EXCEPT ![h] = SubSeq(@, k + 1, Len(@))]
    /\ taken' = [taken EXCEPT ![h] = IF @ + k = n THEN 0 ELSE @ + k]

Whole(h) == taken'[h] = 0

Stay == UNCHANGED <<state, processed, result, dropped, numConns>>
GoTo(h, p) ==
  /\ state' = [state EXCEPT ![h] = p]
  /\ UNCHANGED <<processed, result, dropped, numConns>>

\* One reply is processed: its outcome goes to its position of the list, and
\* the connection that has them all cancels its key.
Processed(h, outcome, drop) ==
  LET i == Items[h][processed[h] + 1]
  IN /\ processed' = [processed EXCEPT ![h] = @ + 1]
     /\ result' = [result EXCEPT ![i] = outcome]
     /\ dropped' = IF drop THEN dropped \cup {i} ELSE dropped
     /\ state' = [state EXCEPT ![h] = "head"]
     /\ numConns' = IF processed[h] + 1 = Keys(h) THEN numConns - 1 ELSE numConns

\* The category and type read from the head tell an answer from an error.
IsError(h) == ~found[Head(stream[h])[1]]

\* Slip: an error reply is taken for its head alone.
Slip_get_processResponse(h) ==
  \/ /\ state[h] = "head" /\ ReadPart(h, PartLen)
     /\ CASE ~Whole(h) -> Stay
          [] Whole(h) /\ IsError(h) -> Processed(h, Nothing, FALSE)
          [] OTHER -> GoTo(h, "fixed")
  \/ /\ state[h] = "fixed" /\ ReadPart(h, PartLen)
     /\ IF Whole(h) THEN GoTo(h, "data") ELSE Stay
  \/ LET n == dataLen[Items[h][processed[h] + 1]]
     IN /\ state[h] = "data" /\ ReadPart(h, n)
        /\ IF Whole(h) THEN Processed(h, Answer(Head(stream[h])[1]), FALSE) ELSE Stay

get_processResponse(h) ==
  \/ /\ state[h] = "head" /\ ReadPart(h, PartLen)
     /\ IF Whole(h)
        THEN GoTo(h, IF IsError(h) THEN "error" ELSE "fixed")
        ELSE Stay
  \/ /\ state[h] = "fixed" /\ ReadPart(h, PartLen)
     /\ IF Whole(h) THEN GoTo(h, "data") ELSE Stay
  \/ /\ state[h] = "error" /\ ReadPart(h, PartLen)
     /\ IF Whole(h) THEN Processed(h, Nothing, FALSE) ELSE Stay
  \/ LET n == dataLen[Items[h][processed[h] + 1]]
     IN /\ state[h] = "data" /\ ReadPart(h, n)
        /\ IF Whole(h) THEN Processed(h, Answer(Head(stream[h])[1]), FALSE) ELSE Stay

update_processResponse(h) ==
  \/ /\ state[h] = "head" /\ ReadPart(h, PartLen)
     /\ IF Whole(h)
        THEN GoTo(h, IF IsError(h) THEN "error" ELSE "fixed")
        ELSE Stay
  \/ /\ state[h] = "fixed" /\ ReadPart(h, PartLen)
     /\ IF Whole(h) THEN Processed(h, Answer(Head(stream[h])[1]), TRUE) ELSE Stay
  \/ /\ state[h] = "error" /\ ReadPart(h, PartLen)
     /\ IF Whole(h) THEN Processed(h, Nothing, FALSE) ELSE Stay

delete_processResponse(h) ==
  \/ /\ state[h] = "head" /\ ReadPart(h, PartLen)
     /\ CASE ~Whole(h) -> Stay
          [] Whole(h) /\ IsError(h) -> GoTo(h, "error")
          [] OTHER -> Processed(h, Answer(Head(stream[h])[1]), TRUE)
  \/ /\ state[h] = "error" /\ ReadPart(h, PartLen)
     /\ IF Whole(h) THEN Processed(h, Nothing, FALSE) ELSE Stay

\* The local cache is told of a refused change of expiration, not of a made one.
expiration_processResponse(h) ==
  \/ /\ state[h] = "head" /\ ReadPart(h, PartLen)
     /\ IF Whole(h)
        THEN GoTo(h, IF IsError(h) THEN "error" ELSE "fixed")
        ELSE Stay
  \/ /\ state[h] = "fixed" /\ ReadPart(h, PartLen)
     /\ IF Whole(h) THEN Processed(h, Answer(Head(stream[h])[1]), FALSE) ELSE Stay
  \/ /\ state[h] = "error" /\ ReadPart(h, PartLen)
     /\ IF Whole(h) THEN Processed(h, Nothing, TRUE) ELSE Stay

processResponse(h) ==
  /\ phase = "loop" /\ Registered(h) /\ stream[h] # <<>> /\ peer[h] # "reset"
  /\ \/ kind = "get" /\ get_processResponse(h)
     \/ kind = "update" /\ update_processResponse(h)
     \/ kind = "delete" /\ delete_processResponse(h)
     \/ kind = "expiration" /\ expiration_processResponse(h)
  /\ UNCHANGED <<inputVars, phase, todo, ended, late, selector, socket, requestVars,
                 serverVars>>

------------------------------------------------------------------------------
\* The end of a call

\* Reading from or writing to a connection that was reset throws; the
\* exception leaves the loop of the whole call.
Exception(h) ==
  /\ phase = "loop" /\ Registered(h) /\ peer[h] = "reset"
  /\ phase' = "finally" /\ ended' = "exception"
  /\ UNCHANGED <<inputVars, todo, numConns, late, selector, socket, requestVars,
                 serverVars, stream, replyVars>>

Complete ==
  /\ phase = "loop" /\ numConns = 0
  /\ phase' = "finally" /\ ended' = "complete"
  /\ UNCHANGED <<inputVars, todo, numConns, late, selector, socket, requestVars,
                 serverVars, stream, replyVars>>

\* Something the client or a live server could still do for the call.
CanGoOn ==
  \E h \in Hosts :
    \/ peer[h] = "up" /\ Asked(h)
    \/ /\ Registered(h) /\ peer[h] # "reset"
       /\ \/ opWrite[h]
          \/ stream[h] # <<>>
             /\ (state[h] = "data" => dataLen[Items[h][processed[h] + 1]] > 0)

\* Slip: a select without a limit, which only an event ends.
Slip_TimeOut ==
  /\ phase = "loop" /\ numConns > 0 /\ CanGoOn
  /\ phase' = "finally" /\ ended' = "timeout" /\ late' = CanGoOn
  /\ UNCHANGED <<inputVars, todo, numConns, selector, socket, requestVars,
                 serverVars, stream, replyVars>>

\* select found nothing in the time that remained, or no time remains.
TimeOut ==
  /\ phase = "loop" /\ numConns > 0
  /\ phase' = "finally" /\ ended' = "timeout" /\ late' = CanGoOn
  /\ UNCHANGED <<inputVars, todo, numConns, selector, socket, requestVars,
                 serverVars, stream, replyVars>>

\* selectorClose keeps a selector that had keys and has none left, unless its
\* pool is full.
selectorClose ==
  \/ /\ \E h \in Hosts : socket[h] = "nonblocking"
     /\ \A h \in Hosts : ~Registered(h)
     /\ selector' = "pooled"
  \/ selector' = "closed"

\* Slip: every socket goes back to the pool.
Slip_close(h) == IF socket[h] = "nonblocking" THEN "pooled" ELSE socket[h]

\* Connection.close: a socket that is done goes back to blocking mode and to
\* the pool, any other is closed.
close(h) ==
  CASE socket[h] = "nonblocking" /\ isDone(h) -> "pooled"
    [] socket[h] = "nonblocking" /\ ~isDone(h) -> "closed"
    [] OTHER -> socket[h]

Finally ==
  /\ phase = "finally" /\ phase' = "done"
  /\ selectorClose
  /\ socket' = [h \in Hosts |-> close(h)]
  /\ UNCHANGED <<inputVars, todo, numConns, ended, late, requestVars, serverVars,
                 stream, replyVars>>

Returned == phase = "done" /\ UNCHANGED multiVars

ClientStep ==
  \/ StartLoop \/ Complete \/ TimeOut \/ Finally
  \/ \E h \in Hosts : init(h) \/ SkipHost(h) \/ processRequest(h)
                      \/ processResponse(h) \/ Exception(h)
MultiNext ==
  \/ ClientStep
  \/ \E h \in Hosts : Serve(h) \/ PeerFails(h)
  \/ Returned

Fairness == WF_multiVars(ClientStep)
MultiSpec == MultiInit /\ [][MultiNext]_multiVars /\ Fairness

------------------------------------------------------------------------------
\* Properties

\* What was written to a connection is always a beginning of its requests,
\* each once, whole and in the order of the list, however the batches of
\* encode() were cut, grown and resumed and however little a write took.
RequestsInOrder ==
  \A h \in Hosts : IsPrefix(sent[h] \o outBuffer[h], Units(Items[h]))

\* The part the client is about to read is the part that comes next on the
\* stream, of the reply it takes it for (processResponse never loses its place,
\* except behind an empty value), and what a position of the list got is the
\* answer to its own request: a result if the server found it, else none.
RepliesMatched ==
  /\ \A h \in Hosts :
       LET i == Items[h][processed[h] + 1]
       IN stream[h] # <<>> /\ ~isDone(h) /\ ~(state[h] = "data" /\ dataLen[i] = 0)
          => Head(stream[h]) = <<i, state[h]>>
  /\ \A i \in Positions :
       /\ result[i] # Nothing => result[i] = Answer(i) /\ found[i]
       /\ kind \in {"update", "delete"} => (i \in dropped <=> result[i] # Nothing)

\* Only a quiet socket goes back to the pool: all its requests written, all
\* their replies read, nothing more to come (Connection.close pools a socket
\* for isDone alone), and the selector is kept only when no socket of the call
\* is still registered with it.
PooledClean ==
  /\ \A h \in Hosts : socket[h] = "pooled" =>
       /\ sent[h] = Units(Items[h]) /\ outBuffer[h] = <<>>
       /\ served[h] = Len(sent[h]) /\ stream[h] = <<>>
  /\ selector = "pooled" => \A h \in Hosts : socket[h] \in {"null", "pooled"}

\* A call runs into its time limit, although nothing was still to come and no
\* server owed an answer, only for a host without a socket (numConns counts it),
\* a connection the server closed (the end of the stream is not noticed) or, in
\* a multiGet, an empty value (the read of its 0 bytes never completes the
\* reply).  A server that has a whole request and does not answer it is late:
\* the get that waits behind a long key (PeerCache) is such a case.
StallsOnlyFor ==
  ended = "timeout" /\ ~late =>
    \E h \in Hosts :
      \/ socket[h] = "null" \/ peer[h] # "up"
      \/ kind = "get" /\ \E i \in Range(Items[h]) : found[i] /\ dataLen[i] = 0

\* Every multi call returns, whatever its servers do.
Returns == <>(phase = "done")
=============================================================================
