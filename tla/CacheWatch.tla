----------------------------- MODULE CacheWatch -----------------------------
(***************************************************************************)
(* How the ids of changed items travel from the store to a client that     *)
(* watches: Cache_Watch (src/src/cache.cpp), the waiting connection        *)
(* (Peer_Cache, src/src/peer_cache.cpp) with its timer, and the thread     *)
(* LocalCacheWatch.run of the Java client.                                 *)
(*                                                                         *)
(* Each step under cache_lock_ is one action, and so is each under         *)
(* timer_lock_: between check_watch_and_set_callback and the arming of the *)
(* timer any other thread may run.  A connection may break at any time;    *)
(* the request it carried may still reach the server, the reply does not   *)
(* reach the client.  The clock is left out: a timer or a watch expires    *)
(* whenever it may.                                                        *)
(***************************************************************************)
EXTENDS Integers, Sequences

CONSTANTS
    MaxConn,    \* bound on the connections the client opens, one after another
    MaxWatch,   \* bound on the watches created
    MaxId,      \* bound on the ids pushed to one watch
    SeqMod,     \* 2^32: sequence_ is a uint32_t
    NULL

ASSUME CacheWatchAssumption ==
    /\ MaxConn \in Nat \ {0} /\ MaxWatch \in Nat /\ MaxId \in Nat
    /\ SeqMod \in Nat \ {0, 1} /\ SeqMod > MaxId     \* no number is given out twice
    /\ NULL \notin 1..MaxConn

WatchIds == 1..MaxWatch
Peers == 1..MaxConn      \* each of them used until it breaks

VARIABLES
    watch_map_, last_watch_id_,
    updated_list_, wait_updated_list_, sequence_, wp_,   \* per watch
    state_, timer_flag_, timer_, watching,               \* per connection
    req, reply,                                          \* in transit
    client, sock, watchId, ackSequence, attempt,         \* LocalCacheWatch
    pushed, applied       \* history: ids pushed to a watch, ids the client
                          \* dropped from its cache on behalf of it

watchVars == <<watch_map_, last_watch_id_, updated_list_, wait_updated_list_,
               sequence_, wp_>>
peerVars == <<state_, timer_flag_, timer_, watching>>
netVars == <<req, reply>>
clientVars == <<client, sock, watchId, ackSequence, attempt>>
vars == <<watchVars, peerVars, netVars, clientVars, pushed, applied>>

Seqs == 0..(SeqMod - 1)
Ids == 1..MaxId
Requests == [watch: WatchIds, ack: Seqs]
Replies == [kind: {"list"}, sequence: Seqs, list: Seq(Ids)]
               \cup [kind: {"empty", "not_found"}]

ASSUME NullAssumption == NULL \notin Requests \cup Replies

TypeOK ==
    /\ watch_map_ \subseteq WatchIds /\ last_watch_id_ \in 0..MaxWatch
    /\ updated_list_ \in [WatchIds -> Seq(Ids)]
    /\ wait_updated_list_ \in [WatchIds -> Seq(Ids)]
    /\ sequence_ \in [WatchIds -> Seqs]
    /\ wp_ \in [WatchIds -> Peers \cup {NULL}]
    /\ state_ \in [Peers -> {"read", "arming", "wait"}]
    /\ timer_flag_ \in [Peers -> BOOLEAN]
    /\ timer_ \in [Peers -> {"off", "armed", "fired"}]
    /\ watching \in [Peers -> 0..MaxWatch]
    /\ req \in [Peers -> Requests \cup {NULL}]
    /\ reply \in [Peers -> Replies \cup {NULL}]
    /\ client \in {"create", "send", "await"}
    /\ sock \in Peers
    /\ watchId \in 0..MaxWatch /\ ackSequence \in Seqs /\ attempt \in 1..2
    /\ pushed \in [WatchIds -> Seq(Ids)]
    /\ applied \in [WatchIds -> Seq(Ids)]

Init ==
    /\ watch_map_ = {} /\ last_watch_id_ = 0
    /\ updated_list_ = [w \in WatchIds |-> <<>>]
    /\ wait_updated_list_ = [w \in WatchIds |-> <<>>]
    /\ sequence_ = [w \in WatchIds |-> 0]
    /\ wp_ = [w \in WatchIds |-> NULL]
    /\ state_ = [p \in Peers |-> "read"]
    /\ timer_flag_ = [p \in Peers |-> FALSE]
    /\ timer_ = [p \in Peers |-> "off"]
    /\ watching = [p \in Peers |-> 0]
    /\ req = [p \in Peers |-> NULL]
    /\ reply = [p \in Peers |-> NULL]
    /\ client = "create" /\ sock = 1
    /\ watchId = 0 /\ ackSequence = 0 /\ attempt = 1
    /\ pushed = [w \in WatchIds |-> <<>>]
    /\ applied = [w \in WatchIds |-> <<>>]
-----------------------------------------------------------------------------
(* Cache_Watch and the waiting connection.                                 *)

\* Slip: the sequence number stays where it is.
Slip_next_sequence(w) == 1
\* Cache_Watch::next_sequence: 0 is skipped.
next_sequence(w) == IF sequence_[w] + 1 = SeqMod THEN 1 ELSE sequence_[w] + 1

Sink(w) == {wp_[w]} \ {NULL}

\* on_cache_watch_notify of the connections S, each under its timer_lock_:
\* the second of arming and notification cancels the timer.
on_cache_watch_notify(S) ==
    /\ timer_flag_' = [p \in Peers |-> timer_flag_[p] \/ p \in S]
    /\ timer_' = [p \in Peers |->
          IF p \in S /\ timer_flag_[p] /\ timer_[p] = "armed" THEN "fired" ELSE timer_[p]]

\* The id is listed; the waiting connection is woken and let go.
notify_watch(w, id) ==
    /\ w \in watch_map_
    /\ updated_list_' = [updated_list_ EXCEPT ![w] = Append(@, id)]
    /\ pushed' = [pushed EXCEPT ![w] = Append(@, id)]
    /\ on_cache_watch_notify(Sink(w))
    /\ wp_' = [wp_ EXCEPT ![w] = NULL]
    /\ UNCHANGED <<watch_map_, last_watch_id_, wait_updated_list_, sequence_, state_,
                   watching, netVars, clientVars, applied>>

\* A reply to a connection the client has given up is lost.
Answer(p, r) == reply' = [reply EXCEPT ![p] = IF p = sock THEN r ELSE NULL]

\* Slip: what waits for its acknowledgement is given up with every check.
Slip_Acknowledged(w, ack) == TRUE
\* The list sent last needs no resending.
Acknowledged(w, ack) == wait_updated_list_[w] = <<>> \/ ack = sequence_[w]

\* process_check_watch_req_pdu_fixed up to the return from cache_mgr_: what
\* check_watch_and_set_callback does with the request of the connection p for
\* the watch w.  It knows no such watch,
check_unknown(p, w) ==
    /\ w \notin watch_map_
    /\ Answer(p, [kind |-> "not_found"])
    /\ timer_flag_' = [timer_flag_ EXCEPT ![p] = FALSE]
    /\ UNCHANGED <<watchVars, state_, timer_>>

\* sends the list once more that the client does not acknowledge,
check_again(p, w, ack) ==
    /\ w \in watch_map_ /\ ~Acknowledged(w, ack)
    /\ Answer(p, [kind |-> "list", sequence |-> sequence_[w],
                  list |-> wait_updated_list_[w]])
    /\ timer_flag_' = [timer_flag_ EXCEPT ![p] = FALSE]
    /\ UNCHANGED <<watchVars, state_, timer_>>

\* sends what has changed since,
check_list(p, w, ack) ==
    /\ w \in watch_map_ /\ Acknowledged(w, ack) /\ updated_list_[w] # <<>>
    /\ wait_updated_list_' = [wait_updated_list_ EXCEPT ![w] = updated_list_[w]]
    /\ updated_list_' = [updated_list_ EXCEPT ![w] = <<>>]
    /\ sequence_' = [sequence_ EXCEPT ![w] = next_sequence(w)]
    /\ Answer(p, [kind |-> "list", sequence |-> next_sequence(w),
                  list |-> updated_list_[w]])
    /\ timer_flag_' = [timer_flag_ EXCEPT ![p] = FALSE]
    /\ UNCHANGED <<watch_map_, last_watch_id_, wp_, state_, timer_>>

\* or makes p the sink of the watch and lets the sink before it go.
check_waits(p, w, ack) ==
    /\ w \in watch_map_ /\ Acknowledged(w, ack) /\ updated_list_[w] = <<>>
    /\ wait_updated_list_' = [wait_updated_list_ EXCEPT ![w] = <<>>]
    /\ wp_' = [wp_ EXCEPT ![w] = p]
    /\ timer_flag_' = [q \in Peers |->
          IF q = p THEN FALSE ELSE timer_flag_[q] \/ q \in Sink(w)]
    /\ timer_' = [q \in Peers |->
          IF q \in Sink(w) /\ timer_flag_[q] /\ timer_[q] = "armed"
          THEN "fired" ELSE timer_[q]]
    /\ state_' = [state_ EXCEPT ![p] = "arming"]
    /\ UNCHANGED <<watch_map_, last_watch_id_, updated_list_, sequence_, reply>>

process_check_watch(p) ==
    /\ state_[p] = "read" /\ req[p] # NULL
    /\ req' = [req EXCEPT ![p] = NULL]
    /\ watching' = [watching EXCEPT ![p] = req[p].watch]
    /\ \/ check_unknown(p, req[p].watch)
       \/ check_again(p, req[p].watch, req[p].ack)
       \/ check_list(p, req[p].watch, req[p].ack)
       \/ check_waits(p, req[p].watch, req[p].ack)
    /\ UNCHANGED <<clientVars, pushed, applied>>

\* Slip: the flag is not looked at when the timer is armed.
Slip_arm_timer(p) ==
    /\ state_[p] = "arming"
    /\ timer_' = [timer_ EXCEPT ![p] = "armed"]
    /\ timer_flag_' = [timer_flag_ EXCEPT ![p] = TRUE]
    /\ state_' = [state_ EXCEPT ![p] = "wait"]
    /\ UNCHANGED <<watchVars, watching, netVars, clientVars, pushed, applied>>

\* The rest of it: the timer is armed under timer_lock_, and cancelled at
\* once if a notification came first.
arm_timer(p) ==
    /\ state_[p] = "arming"
    /\ timer_' = [timer_ EXCEPT ![p] = IF timer_flag_[p] THEN "fired" ELSE "armed"]
    /\ timer_flag_' = [timer_flag_ EXCEPT ![p] = TRUE]
    /\ state_' = [state_ EXCEPT ![p] = "wait"]
    /\ UNCHANGED <<watchVars, watching, netVars, clientVars, pushed, applied>>

\* check_timeout is over.
timer_expires(p) ==
    /\ timer_[p] = "armed"
    /\ timer_' = [timer_ EXCEPT ![p] = "fired"]
    /\ UNCHANGED <<watchVars, state_, timer_flag_, watching, netVars, clientVars,
                   pushed, applied>>

\* handle_timer with check_and_clear_callback.  The sequence number of an
\* empty reply is not initialised; no client looks at it.
handle_timer(p) ==
    /\ state_[p] = "wait" /\ timer_[p] = "fired"
    /\ state_' = [state_ EXCEPT ![p] = "read"]
    /\ timer_' = [timer_ EXCEPT ![p] = "off"]
    /\ LET w == watching[p]
           took == wp_[w] = p /\ updated_list_[w] # <<>> /\ wait_updated_list_[w] = <<>>
       IN
       \/ /\ w \notin watch_map_
          /\ Answer(p, [kind |-> "not_found"])
          /\ UNCHANGED watchVars
       \/ /\ w \in watch_map_
          /\ wp_' = [wp_ EXCEPT ![w] = IF @ = p THEN NULL ELSE @]
          /\ IF took
             THEN /\ wait_updated_list_' = [wait_updated_list_ EXCEPT ![w] = updated_list_[w]]
                  /\ updated_list_' = [updated_list_ EXCEPT ![w] = <<>>]
                  /\ sequence_' = [sequence_ EXCEPT ![w] = next_sequence(w)]
                  /\ Answer(p, [kind |-> "list", sequence |-> next_sequence(w),
                                list |-> updated_list_[w]])
             ELSE /\ Answer(p, [kind |-> "empty"])
                  /\ UNCHANGED <<updated_list_, wait_updated_list_, sequence_>>
          /\ UNCHANGED <<watch_map_, last_watch_id_>>
    /\ UNCHANGED <<timer_flag_, watching, req, clientVars, pushed, applied>>

\* expire_watchs erases w with all it holds.  The connection that waits for
\* it is not told.
expire_watchs(w) ==
    /\ w \in watch_map_
    /\ watch_map_' = watch_map_ \ {w}
    /\ updated_list_' = [updated_list_ EXCEPT ![w] = <<>>]
    /\ wait_updated_list_' = [wait_updated_list_ EXCEPT ![w] = <<>>]
    /\ sequence_' = [sequence_ EXCEPT ![w] = 0]
    /\ wp_' = [wp_ EXCEPT ![w] = NULL]
    /\ UNCHANGED <<last_watch_id_, peerVars, netVars, clientVars, pushed, applied>>
-----------------------------------------------------------------------------
(* LocalCacheWatch.run and the requests of Protocol it makes.              *)

create_watch ==
    /\ last_watch_id_ < MaxWatch
    /\ last_watch_id_' = last_watch_id_ + 1
    /\ watch_map_' = watch_map_ \cup {last_watch_id_ + 1}

\* Protocol.createWatch, answered.
createWatch ==
    /\ client = "create"
    /\ create_watch
    /\ watchId' = last_watch_id_ + 1
    /\ client' = "send"
    /\ UNCHANGED <<updated_list_, wait_updated_list_, sequence_, wp_, peerVars, netVars,
                   sock, ackSequence, attempt, pushed, applied>>

\* Protocol.createWatch with no watch id left: the client sleeps, tries again.
createWatch_refused ==
    /\ client = "create" /\ last_watch_id_ = MaxWatch
    /\ UNCHANGED vars

\* The connection sock breaks; the next request opens another.
Reconnect == sock < MaxConn /\ sock' = sock + 1

\* Protocol.createWatch on a connection that breaks: a watch nobody knows may
\* have been created.
createWatch_lost ==
    /\ client = "create"
    /\ Reconnect
    /\ create_watch \/ UNCHANGED <<watch_map_, last_watch_id_>>
    /\ UNCHANGED <<updated_list_, wait_updated_list_, sequence_, wp_, peerVars, netVars,
                   client, watchId, ackSequence, attempt, pushed, applied>>

\* Protocol.checkWatch up to the flush.
checkWatch ==
    /\ client = "send"
    /\ req' = [req EXCEPT ![sock] = [watch |-> watchId, ack |-> ackSequence]]
    /\ client' = "await"
    /\ UNCHANGED <<watchVars, peerVars, reply, sock, watchId, ackSequence, attempt,
                   pushed, applied>>

\* Slip: the list is acknowledged with the number it was asked for with.
Slip_update ==
    /\ client = "await" /\ reply[sock] # NULL
    /\ reply[sock].kind # "not_found"
    /\ reply' = [reply EXCEPT ![sock] = NULL]
    /\ client' = "send" /\ attempt' = 1
    /\ IF reply[sock].kind = "list"
       THEN applied' = [applied EXCEPT ![watchId] = @ \o reply[sock].list]
       ELSE UNCHANGED applied
    /\ UNCHANGED <<watchVars, peerVars, req, sock, watchId, ackSequence, pushed>>

\* checkWatch returns a result: every id listed is dropped from the local
\* cache and the list acknowledged with the next check.
update ==
    /\ client = "await" /\ reply[sock] # NULL
    /\ reply[sock].kind # "not_found"
    /\ reply' = [reply EXCEPT ![sock] = NULL]
    /\ client' = "send" /\ attempt' = 1
    /\ IF reply[sock].kind = "list"
       THEN /\ applied' = [applied EXCEPT ![watchId] = @ \o reply[sock].list]
            /\ ackSequence' = reply[sock].sequence
       ELSE UNCHANGED <<applied, ackSequence>>
    /\ UNCHANGED <<watchVars, peerVars, req, sock, watchId, pushed>>

\* checkWatch returns null: it is called once more; the second time clear()
\* empties the local cache and forgets the watch, but not ackSequence.
CheckFailed ==
    \/ attempt = 1 /\ attempt' = 2 /\ client' = "send" /\ UNCHANGED watchId
    \/ attempt = 2 /\ attempt' = 1 /\ client' = "create" /\ watchId' = 0

\* ... because the server knows no such watch.
checkWatch_refused ==
    /\ client = "await" /\ reply[sock] # NULL
    /\ reply[sock].kind = "not_found"
    /\ reply' = [reply EXCEPT ![sock] = NULL]
    /\ CheckFailed
    /\ UNCHANGED <<watchVars, peerVars, req, sock, ackSequence, pushed, applied>>

\* ... because the connection breaks.  The request may be lost with it, may
\* have been answered, or may reach the server later.
checkWatch_lost ==
    /\ client = "await"
    /\ Reconnect
    /\ reply' = [reply EXCEPT ![sock] = NULL]
    /\ \/ req' = [req EXCEPT ![sock] = NULL]
       \/ req[sock] # NULL /\ UNCHANGED req
    /\ CheckFailed
    /\ UNCHANGED <<watchVars, peerVars, ackSequence, pushed, applied>>
-----------------------------------------------------------------------------
\* A change of an item under the watch w of the client: the ids are numbered
\* in the order of the changes.
Change(w) == Len(pushed[w]) < MaxId /\ notify_watch(w, Len(pushed[w]) + 1)

Next ==
    \/ \E w \in WatchIds : Change(w) \/ expire_watchs(w)
    \/ \E p \in Peers :
          process_check_watch(p) \/ arm_timer(p) \/ timer_expires(p) \/ handle_timer(p)
    \/ createWatch \/ createWatch_refused \/ createWatch_lost
    \/ checkWatch \/ update \/ checkWatch_refused \/ checkWatch_lost

\* The io_service threads run every handler that is ready, the deadline timer
\* fires, and the client thread goes on.  Nothing is assumed of the changes, of
\* the sweep of the watches or of the connections.
Fairness ==
    /\ \A p \in Peers : /\ WF_vars(process_check_watch(p)) /\ WF_vars(arm_timer(p))
                        /\ WF_vars(timer_expires(p)) /\ WF_vars(handle_timer(p))
    /\ WF_vars(createWatch) /\ WF_vars(checkWatch)
    /\ WF_vars(update) /\ WF_vars(checkWatch_refused)

Spec == Init /\ [][Next]_vars /\ Fairness
-----------------------------------------------------------------------------
\* The watch of the client, if it has acknowledged nothing of an earlier one:
\* clear() keeps ackSequence, and the next watch numbers its lists from 1 again,
\* so a stale acknowledgement can drop a list of that watch which never arrived.
Session ==
    IF \A v \in 1..(watchId - 1) : applied[v] = <<>> THEN watchId ELSE 0

\* What the server still owes the client of the watch w.
Owed(w) ==
    (IF ackSequence = sequence_[w] THEN <<>> ELSE wait_updated_list_[w]) \o updated_list_[w]

\* Nothing lost, nothing twice, nothing out of order: the ids pushed to the
\* watch are those the client has dropped followed by those Cache_Watch still
\* holds for it, whatever requests and replies were lost, delayed or sent
\* again (check_and_set_callback, check_and_clear_callback, checkWatch).
NothingLost ==
    Session # 0 /\ Session \in watch_map_ =>
        pushed[Session] = applied[Session] \o Owed(Session)

\* No wakeup is missed in the handshake of process_check_watch_req_pdu_fixed
\* and on_cache_watch_notify over timer_flag_: a connection that sits out its
\* timer is the sink of its watch, or the watch is gone.  A sink is registered
\* only where nothing is pending: handle_timer never finds a list.
NoMissedWakeup ==
    /\ \A p \in Peers : watching[p] \in watch_map_ =>
          /\ state_[p] = "arming" => wp_[watching[p]] = p \/ timer_flag_[p]
          /\ state_[p] = "wait" /\ timer_[p] = "armed" => wp_[watching[p]] = p
    /\ \A w \in watch_map_ : wp_[w] # NULL =>
          updated_list_[w] = <<>> /\ wait_updated_list_[w] = <<>>

\* Every change reaches the client, unless the client gives the watch up and
\* empties its cache, which leaves it without a watch (LocalCacheWatch.run).
ChangeArrives ==
    \A i \in Ids :
        (Session # 0 /\ Len(pushed[Session]) >= i)
            ~> (watchId = 0 \/ Len(applied[watchId]) >= i)

Sent == IF Session = 0 THEN <<>> ELSE pushed[Session]
Received == IF Session = 0 THEN <<>> ELSE applied[Session]

\* The detailed protocol is a channel that delivers in order and exactly once
\* to the session of the client.
Channel == INSTANCE WatchChannel WITH
    Ids <- Ids, session <- Session, sent <- Sent, received <- Received
ChannelSpec == Channel!Spec
=============================================================================
