-------------------------- MODULE CacheWatchProofs --------------------------
(***************************************************************************)
(* Proofs about the watch protocol for every number of connections,        *)
(* watches and changes: no wakeup is missed, no change is lost, and server *)
(* and client implement WatchChannel.                                      *)
(***************************************************************************)
EXTENDS CacheWatch, SequenceTheorems, TLAPS

\* Watches are numbered in the order of their creation, the client uses the
\* youngest, and one that is gone has left nothing behind.
WatchShape ==
    /\ watch_map_ \subseteq 1..last_watch_id_
    /\ watchId \in {0, last_watch_id_}
    /\ client = "create" <=> watchId = 0
    /\ \A p \in Peers : /\ req[p] # NULL => req[p].watch <= last_watch_id_
                        /\ watching[p] <= last_watch_id_
    /\ \A w \in WatchIds : w \notin watch_map_ =>
          /\ updated_list_[w] = <<>> /\ wait_updated_list_[w] = <<>>
          /\ sequence_[w] = 0 /\ wp_[w] = NULL
    /\ \A w \in WatchIds : w > last_watch_id_ => pushed[w] = <<>> /\ applied[w] = <<>>

\* A sink is a connection that waits for that very watch; a connection waits
\* with its flag set and its timer running.
Handshake ==
    /\ \A w \in watch_map_ : wp_[w] # NULL =>
          state_[wp_[w]] \in {"arming", "wait"} /\ watching[wp_[w]] = w
    /\ \A p \in Peers : /\ state_[p] = "wait" => timer_flag_[p]
                        /\ timer_[p] # "off" => state_[p] = "wait"

\* On the connection in use there is at most one of a request, a check that
\* waits and a reply; connections yet to come are untouched.
Exchange ==
    /\ \A p \in Peers : p > sock => req[p] = NULL /\ state_[p] = "read"
    /\ \A p \in Peers : p # sock => reply[p] = NULL
    /\ client # "await" => req[sock] = NULL /\ reply[sock] = NULL /\ state_[sock] = "read"
    /\ req[sock] # NULL =>
          /\ reply[sock] = NULL /\ state_[sock] = "read"
          /\ req[sock].watch = watchId /\ req[sock].ack = ackSequence
    /\ reply[sock] # NULL => state_[sock] = "read"
    /\ state_[sock] # "read" => watching[sock] = watchId

\* A list is numbered per watch, and there are no more lists than changes.
Numbered ==
    /\ \A w \in WatchIds : Len(pushed[w]) <= MaxId
    /\ \A w \in WatchIds : sequence_[w] + Len(updated_list_[w]) <= Len(pushed[w])
    /\ (\A w \in WatchIds : applied[w] = <<>>) => ackSequence = 0

Listed == reply[sock] # NULL /\ reply[sock].kind = "list"
Arriving == IF Listed THEN reply[sock].list ELSE <<>>

\* The list the client has not acknowledged is the one that waits, and the one
\* in the reply on its way; no request is ahead of the client.
Delivery ==
    /\ Listed => reply[sock].list # <<>>
    /\ Session # 0 =>
          \E rest \in Seq(Ids) : pushed[Session] = (applied[Session] \o Arriving) \o rest
    /\ Session # 0 /\ Session \in watch_map_ =>
          /\ pushed[Session] = applied[Session] \o Owed(Session)
          /\ ackSequence <= sequence_[Session]
          /\ ackSequence # sequence_[Session] => wait_updated_list_[Session] # <<>>
          /\ \A p \in Peers : req[p] # NULL /\ req[p].watch = Session => req[p].ack <= ackSequence
          /\ Listed => /\ reply[sock].sequence = sequence_[Session]
                       /\ reply[sock].list = wait_updated_list_[Session]
                       /\ ackSequence # sequence_[Session]

WatchInv == TypeOK /\ WatchShape /\ NoMissedWakeup /\ Handshake /\ Exchange /\ Numbered /\ Delivery
-----------------------------------------------------------------------------
LEMMA NextSequence ==
  ASSUME sequence_ \in [WatchIds -> Seqs], NEW w \in WatchIds
  PROVE  next_sequence(w) \in Seqs
  BY CacheWatchAssumption DEF Seqs, next_sequence

LEMMA RepliesType ==
  /\ \A s \in Seqs, l \in Seq(Ids) : [kind |-> "list", sequence |-> s, list |-> l] \in Replies
  /\ [kind |-> "empty"] \in Replies
  /\ [kind |-> "not_found"] \in Replies
  /\ \A r \in Replies : r.kind = "list" => r.sequence \in Seqs /\ r.list \in Seq(Ids)
  BY DEF Replies

LEMMA TypeInit ==
  ASSUME Init
  PROVE  TypeOK
<1>1. 0 \in Seqs /\ 1 \in Peers /\ 0 \in 0..MaxWatch /\ 1 \in 1..2
  BY CacheWatchAssumption DEF Seqs, Peers
<1>. QED
  BY <1>1 DEF Init, TypeOK

\* The sink of a watch has nothing pending, so handle_timer of a watch that
\* exists sends an empty reply and changes no list.
LEMMA TimerFindsNothing ==
  ASSUME NoMissedWakeup, NEW p \in Peers, handle_timer(p), watching[p] \in watch_map_, NULL \notin Peers
  PROVE  /\ state_[p] = "wait"
         /\ state_' = [state_ EXCEPT ![p] = "read"]
         /\ timer_' = [timer_ EXCEPT ![p] = "off"]
         /\ wp_' = [wp_ EXCEPT ![watching[p]] = IF @ = p THEN NULL ELSE @]
         /\ Answer(p, [kind |-> "empty"])
         /\ UNCHANGED <<watch_map_, last_watch_id_, updated_list_, wait_updated_list_, sequence_,
                        timer_flag_, watching, req, clientVars, pushed, applied>>
  BY DEF NoMissedWakeup, handle_timer

\* Every step of server, connections and client keeps the types.
LEMMA TypeStep ==
  ASSUME TypeOK, WatchShape, NoMissedWakeup, [Next]_vars
  PROVE  TypeOK'
<1>0. 0 \in Seqs /\ 0 \in 0..MaxWatch /\ 1 \in 1..2 /\ 2 \in 1..2 /\ NULL \notin Peers
  BY CacheWatchAssumption DEF Seqs, Peers
<1>1. ASSUME NEW w \in WatchIds, Change(w) PROVE TypeOK'
  <2>1. pushed[w] \in Seq(Ids) /\ updated_list_[w] \in Seq(Ids)
    BY DEF TypeOK
  <2>2. Len(pushed[w]) + 1 \in Ids
    BY <1>1, <2>1, CacheWatchAssumption DEF Change, Ids
  <2>3. /\ Append(pushed[w], Len(pushed[w]) + 1) \in Seq(Ids)
        /\ Append(updated_list_[w], Len(pushed[w]) + 1) \in Seq(Ids)
    BY <2>1, <2>2
  <2>. QED
    BY <1>1, <2>3 DEF TypeOK, Change, notify_watch, on_cache_watch_notify, netVars, clientVars
<1>2. ASSUME NEW w \in WatchIds, expire_watchs(w) PROVE TypeOK'
  BY <1>0, <1>2 DEF TypeOK, expire_watchs, peerVars, netVars, clientVars
<1>3. ASSUME NEW p \in Peers, process_check_watch(p) PROVE TypeOK'
  <2> DEFINE w == req[p].watch
             ack == req[p].ack
  <2>0. /\ req' \in [Peers -> Requests \cup {NULL}]
        /\ watching' \in [Peers -> 0..MaxWatch]
        /\ UNCHANGED <<clientVars, pushed, applied>>
        /\ w \in WatchIds
    <3>1. req[p] \in Requests
      BY <1>3 DEF process_check_watch, TypeOK
    <3>2. w \in WatchIds /\ w \in 0..MaxWatch
      BY <3>1 DEF Requests, WatchIds
    <3>. QED
      BY <1>3, <3>2 DEF process_check_watch, TypeOK
  <2>1. next_sequence(w) \in Seqs
    BY <2>0, NextSequence DEF TypeOK
  <2>2. CASE check_unknown(p, w)
    BY <2>0, <2>2, RepliesType DEF TypeOK, check_unknown, Answer, watchVars, clientVars
  <2>3. CASE check_again(p, w, ack)
    BY <2>0, <2>3, RepliesType DEF TypeOK, check_again, Answer, watchVars, clientVars
  <2>4. CASE check_list(p, w, ack)
    <3>1. updated_list_[w] \in Seq(Ids) /\ <<>> \in Seq(Ids)
      BY <2>0 DEF TypeOK
    <3>2. reply' \in [Peers -> Replies \cup {NULL}]
      BY <2>0, <2>1, <2>4, <3>1, RepliesType DEF TypeOK, check_list, Answer
    <3>. QED
      BY <2>0, <2>1, <2>4, <3>1, <3>2 DEF TypeOK, check_list, clientVars
  <2>5. CASE check_waits(p, w, ack)
    BY <2>0, <2>5 DEF TypeOK, check_waits, clientVars
  <2>. QED
    BY <1>3, <2>2, <2>3, <2>4, <2>5 DEF process_check_watch
<1>4. ASSUME NEW p \in Peers, arm_timer(p) PROVE TypeOK'
  BY <1>4 DEF TypeOK, arm_timer, watchVars, netVars, clientVars
<1>5. ASSUME NEW p \in Peers, timer_expires(p) PROVE TypeOK'
  BY <1>5 DEF TypeOK, timer_expires, watchVars, netVars, clientVars
<1>6. ASSUME NEW p \in Peers, handle_timer(p) PROVE TypeOK'
  <2>1. CASE watching[p] \notin watch_map_
    BY <1>6, <2>1, RepliesType DEF TypeOK, handle_timer, Answer, watchVars, clientVars
  <2>2. CASE watching[p] \in watch_map_
    <3>1. /\ state_' = [state_ EXCEPT ![p] = "read"]
          /\ timer_' = [timer_ EXCEPT ![p] = "off"]
          /\ wp_' = [wp_ EXCEPT ![watching[p]] = IF @ = p THEN NULL ELSE @]
          /\ Answer(p, [kind |-> "empty"])
          /\ UNCHANGED <<watch_map_, last_watch_id_, updated_list_, wait_updated_list_, sequence_,
                         timer_flag_, watching, req, clientVars, pushed, applied>>
      BY <1>0, <1>6, <2>2, TimerFindsNothing
    <3>. QED
      BY <3>1, RepliesType DEF TypeOK, Answer, clientVars
  <2>. QED
    BY <2>1, <2>2
<1>7. ASSUME createWatch \/ createWatch_refused \/ createWatch_lost PROVE TypeOK'
  <2>1. create_watch => last_watch_id_ + 1 \in WatchIds /\ last_watch_id_ + 1 \in 0..MaxWatch
    BY CacheWatchAssumption DEF create_watch, TypeOK, WatchIds
  <2>2. Reconnect => sock + 1 \in Peers
    BY CacheWatchAssumption DEF Reconnect, TypeOK, Peers
  <2>. QED
    BY <1>7, <2>1, <2>2
    DEF TypeOK, createWatch, createWatch_refused, createWatch_lost, create_watch, Reconnect,
        vars, peerVars, netVars, watchVars, clientVars
<1>8. ASSUME checkWatch PROVE TypeOK'
  <2>1. watchId \in WatchIds
    BY <1>8, CacheWatchAssumption DEF checkWatch, WatchShape, TypeOK, WatchIds
  <2>2. [watch |-> watchId, ack |-> ackSequence] \in Requests
    BY <2>1 DEF TypeOK, Requests
  <2>. QED
    BY <1>8, <2>2 DEF TypeOK, checkWatch, peerVars, watchVars
<1>9. ASSUME update PROVE TypeOK'
  <2>1. reply[sock].kind = "list" => reply[sock].list \in Seq(Ids) /\ reply[sock].sequence \in Seqs
    BY <1>9, RepliesType DEF update, TypeOK
  <2>2. reply[sock].kind = "list" /\ watchId \in WatchIds => applied[watchId] \o reply[sock].list \in Seq(Ids)
    BY <2>1 DEF TypeOK
  <2>. QED
    BY <1>0, <1>9, <2>1, <2>2, ZenonT(40) DEF TypeOK, update, peerVars, watchVars
<1>10. ASSUME checkWatch_refused \/ checkWatch_lost PROVE TypeOK'
  <2>1. Reconnect => sock + 1 \in Peers
    BY CacheWatchAssumption DEF Reconnect, TypeOK, Peers
  <2>. QED
    BY <1>0, <1>10, <2>1
    DEF TypeOK, checkWatch_refused, checkWatch_lost, CheckFailed, Reconnect, peerVars, watchVars
<1>11. CASE UNCHANGED vars
  BY <1>11 DEF TypeOK, vars, watchVars, peerVars, netVars, clientVars
<1>. QED
  BY <1>1, <1>2, <1>3, <1>4, <1>5, <1>6, <1>7, <1>8, <1>9, <1>10, <1>11 DEF Next

LEMMA ShapeStep ==
  ASSUME TypeOK, WatchShape, NoMissedWakeup, [Next]_vars
  PROVE  WatchShape'
<1>0. NULL \notin Peers
  BY CacheWatchAssumption DEF Peers
<1>1. ASSUME NEW w \in WatchIds, Change(w) PROVE WatchShape'
  <2>1. w \in 1..last_watch_id_
    BY <1>1 DEF Change, notify_watch, WatchShape
  <2>2. ~(w > last_watch_id_)
    BY <2>1 DEF TypeOK
  <2>. QED
    BY <1>1, <2>2 DEF TypeOK, WatchShape, Change, notify_watch, netVars, clientVars
<1>2. ASSUME NEW w \in WatchIds, expire_watchs(w) PROVE WatchShape'
  BY <1>2 DEF TypeOK, WatchShape, expire_watchs, peerVars, netVars, clientVars
<1>3. ASSUME NEW p \in Peers, process_check_watch(p) PROVE WatchShape'
  <2> DEFINE w == req[p].watch
             ack == req[p].ack
  <2>0. /\ req' = [req EXCEPT ![p] = NULL]
        /\ watching' = [watching EXCEPT ![p] = w]
        /\ UNCHANGED <<clientVars, pushed, applied>>
        /\ w <= last_watch_id_
    BY <1>3 DEF process_check_watch, WatchShape
  <2>1. CASE check_unknown(p, w) \/ check_again(p, w, ack)
    BY <2>0, <2>1 DEF TypeOK, WatchShape, check_unknown, check_again, watchVars, clientVars
  <2>2. CASE check_list(p, w, ack)
    BY <2>0, <2>2 DEF TypeOK, WatchShape, check_list, clientVars
  <2>3. CASE check_waits(p, w, ack)
    BY <2>0, <2>3 DEF TypeOK, WatchShape, check_waits, clientVars
  <2>. QED
    BY <1>3, <2>1, <2>2, <2>3 DEF process_check_watch
<1>4. ASSUME NEW p \in Peers, arm_timer(p) \/ timer_expires(p) PROVE WatchShape'
  BY <1>4 DEF WatchShape, arm_timer, timer_expires, watchVars, netVars, clientVars
<1>5. ASSUME NEW p \in Peers, handle_timer(p) PROVE WatchShape'
  <2>1. CASE watching[p] \notin watch_map_
    BY <1>5, <2>1 DEF WatchShape, handle_timer, watchVars, clientVars
  <2>2. CASE watching[p] \in watch_map_
    <3>1. /\ wp_' = [wp_ EXCEPT ![watching[p]] = IF @ = p THEN NULL ELSE @]
          /\ UNCHANGED <<watch_map_, last_watch_id_, updated_list_, wait_updated_list_, sequence_,
                         watching, req, clientVars, pushed, applied>>
      BY <1>0, <1>5, <2>2, TimerFindsNothing
    <3>. QED
      BY <2>2, <3>1 DEF TypeOK, WatchShape, clientVars
  <2>. QED
    BY <2>1, <2>2
<1>6. ASSUME createWatch \/ createWatch_lost PROVE WatchShape'
  <2>1. CASE create_watch
    <3>1. /\ last_watch_id_ \in Nat /\ last_watch_id_' = last_watch_id_ + 1
          /\ watch_map_' = watch_map_ \cup {last_watch_id_ + 1}
      BY <2>1 DEF create_watch, TypeOK
    <3>2. watch_map_' \subseteq 1..last_watch_id_'
      BY <3>1 DEF WatchShape
    <3>3. watchId' \in {0, last_watch_id_'} /\ (client' = "create" <=> watchId' = 0)
      BY <1>6, <3>1 DEF createWatch, createWatch_lost, WatchShape, TypeOK
    <3>4. \A q \in Peers : /\ req'[q] # NULL => req'[q].watch <= last_watch_id_'
                           /\ watching'[q] <= last_watch_id_'
      <4> TAKE q \in Peers
      <4>1. req[q] # NULL => req[q].watch \in Nat
        BY DEF TypeOK, Requests, WatchIds
      <4>2. watching[q] \in Nat
        BY DEF TypeOK
      <4>. QED
        BY <1>6, <3>1, <4>1, <4>2 DEF createWatch, createWatch_lost, WatchShape, netVars, peerVars
    <3>. QED
      BY <1>6, <3>1, <3>2, <3>3, <3>4 DEF createWatch, createWatch_lost, WatchShape, WatchIds
  <2>2. CASE UNCHANGED <<watch_map_, last_watch_id_>> /\ createWatch_lost
    BY <2>2 DEF WatchShape, createWatch_lost, netVars, peerVars
  <2>. QED
    BY <1>6, <2>1, <2>2 DEF createWatch, createWatch_lost
<1>7. ASSUME checkWatch PROVE WatchShape'
  BY <1>7, CacheWatchAssumption DEF TypeOK, WatchShape, checkWatch, watchVars, peerVars
<1>8. ASSUME update PROVE WatchShape'
  <2>1. watchId # 0 /\ ~(watchId > last_watch_id_)
    BY <1>8 DEF TypeOK, WatchShape, update
  <2>. QED
    BY <1>8, <2>1 DEF TypeOK, WatchShape, update, watchVars, peerVars
<1>9. ASSUME checkWatch_refused \/ checkWatch_lost PROVE WatchShape'
  <2>1. /\ UNCHANGED <<watchVars, peerVars, pushed, applied>>
        /\ CheckFailed /\ client = "await"
        /\ \/ UNCHANGED req
           \/ req' = [req EXCEPT ![sock] = NULL]
    BY <1>9 DEF checkWatch_refused, checkWatch_lost
  <2>2. watchId' \in {0, last_watch_id_'} /\ (client' = "create" <=> watchId' = 0)
    BY <2>1 DEF WatchShape, CheckFailed, watchVars
  <2>3. \A q \in Peers : req'[q] # NULL => req'[q] = req[q]
    BY <2>1 DEF TypeOK
  <2>. QED
    BY <2>1, <2>2, <2>3 DEF WatchShape, watchVars, peerVars
<1>10. CASE UNCHANGED vars
  BY <1>10 DEF WatchShape, vars, watchVars, peerVars, netVars, clientVars
<1>. QED
  BY <1>1, <1>2, <1>3, <1>4, <1>5, <1>6, <1>7, <1>8, <1>9, <1>10 DEF Next, createWatch_refused

\* No wakeup is missed.
LEMMA WakeupStep ==
  ASSUME TypeOK, WatchShape, NoMissedWakeup, Handshake, [Next]_vars
  PROVE  NoMissedWakeup' /\ Handshake'
<1>0. NULL \notin Peers
  BY CacheWatchAssumption DEF Peers
<1>1. ASSUME NEW w \in WatchIds, Change(w) PROVE NoMissedWakeup' /\ Handshake'
  <2>1. /\ w \in watch_map_
        /\ wp_' = [wp_ EXCEPT ![w] = NULL]
        /\ UNCHANGED <<watch_map_, wait_updated_list_, state_, watching>>
        /\ \A v \in WatchIds : v # w => updated_list_'[v] = updated_list_[v]
        /\ \A p \in Peers : timer_flag_'[p] <=> timer_flag_[p] \/ p = wp_[w]
        /\ \A p \in Peers : timer_'[p] =
              IF p = wp_[w] /\ timer_flag_[p] /\ timer_[p] = "armed" THEN "fired" ELSE timer_[p]
    BY <1>0, <1>1 DEF TypeOK, Change, notify_watch, on_cache_watch_notify, Sink
  <2>2. wp_'[w] = NULL /\ \A v \in WatchIds : v # w => wp_'[v] = wp_[v]
    BY <2>1 DEF TypeOK
  <2>3. ASSUME NEW p \in Peers, watching[p] \in watch_map_
        PROVE  /\ state_[p] = "arming" => wp_'[watching[p]] = p \/ timer_flag_'[p]
               /\ state_[p] = "wait" /\ timer_'[p] = "armed" => wp_'[watching[p]] = p
    <3>1. watching[p] \in WatchIds
      BY <2>3 DEF TypeOK
    <3>2. CASE watching[p] = w
      BY <2>1, <2>2, <2>3, <3>2 DEF NoMissedWakeup, Handshake
    <3>3. CASE watching[p] # w
      BY <2>1, <2>2, <2>3, <3>1, <3>3 DEF NoMissedWakeup
    <3>. QED
      BY <3>2, <3>3
  <2>4. \A v \in watch_map_ : wp_'[v] # NULL =>
           updated_list_'[v] = <<>> /\ wait_updated_list_[v] = <<>>
    BY <2>1, <2>2 DEF TypeOK, NoMissedWakeup
  <2>5. NoMissedWakeup'
    BY <2>1, <2>3, <2>4 DEF NoMissedWakeup
  <2>6. \A v \in watch_map_ : wp_'[v] # NULL =>
           state_[wp_'[v]] \in {"arming", "wait"} /\ watching[wp_'[v]] = v
    BY <2>1, <2>2 DEF TypeOK, Handshake
  <2>. QED
    BY <2>1, <2>5, <2>6 DEF Handshake
<1>2. ASSUME NEW w \in WatchIds, expire_watchs(w) PROVE NoMissedWakeup' /\ Handshake'
  BY <1>0, <1>2 DEF TypeOK, NoMissedWakeup, Handshake, expire_watchs, peerVars
<1>3. ASSUME NEW p \in Peers, process_check_watch(p) PROVE NoMissedWakeup' /\ Handshake'
  <2> DEFINE w == req[p].watch
             ack == req[p].ack
  <2>0. /\ watching' = [watching EXCEPT ![p] = w]
        /\ state_[p] = "read" /\ timer_[p] = "off"
        /\ \A v \in watch_map_ : wp_[v] # p
    BY <1>0, <1>3 DEF process_check_watch, Handshake, TypeOK
  <2>1. CASE check_unknown(p, w) \/ check_again(p, w, ack)
    <3>1. /\ UNCHANGED <<watchVars, state_, timer_>>
          /\ timer_flag_' = [timer_flag_ EXCEPT ![p] = FALSE]
      BY <2>1 DEF check_unknown, check_again
    <3>2. \A q \in Peers : q # p => watching'[q] = watching[q] /\ timer_flag_'[q] = timer_flag_[q]
      BY <2>0, <3>1 DEF TypeOK
    <3>3. NoMissedWakeup'
      BY <2>0, <3>1, <3>2 DEF NoMissedWakeup, watchVars
    <3>4. \A v \in watch_map_ : wp_[v] # NULL => wp_[v] \in Peers
      BY DEF TypeOK
    <3>. QED
      BY <2>0, <3>1, <3>2, <3>3, <3>4 DEF Handshake, watchVars
  <2>2. CASE check_list(p, w, ack)
    BY <1>0, <2>0, <2>2 DEF TypeOK, NoMissedWakeup, Handshake, check_list
  <2>3. CASE check_waits(p, w, ack)
    <3>1. /\ w \in watch_map_ /\ w \in WatchIds /\ updated_list_[w] = <<>>
          /\ UNCHANGED <<watch_map_, updated_list_>>
          /\ wait_updated_list_'[w] = <<>> /\ wp_'[w] = p
          /\ \A v \in WatchIds : v # w =>
                wp_'[v] = wp_[v] /\ wait_updated_list_'[v] = wait_updated_list_[v]
          /\ state_'[p] = "arming" /\ watching'[p] = w
          /\ \A q \in Peers : q # p => state_'[q] = state_[q] /\ watching'[q] = watching[q]
      BY <2>0, <2>3 DEF TypeOK, check_waits
    <3>2. /\ timer_'[p] = "off"
          /\ \A q \in Peers : q # p => (timer_flag_'[q] <=> timer_flag_[q] \/ q = wp_[w])
          /\ \A q \in Peers : timer_'[q] =
                IF q = wp_[w] /\ timer_flag_[q] /\ timer_[q] = "armed" THEN "fired" ELSE timer_[q]
      BY <1>0, <2>0, <2>3 DEF check_waits, Sink
    <3>3. ASSUME NEW q \in Peers, watching'[q] \in watch_map_
          PROVE  /\ state_'[q] = "arming" => wp_'[watching'[q]] = q \/ timer_flag_'[q]
                 /\ state_'[q] = "wait" /\ timer_'[q] = "armed" => wp_'[watching'[q]] = q
      <4>1. CASE q = p
        BY <3>1, <4>1
      <4>2. CASE q # p /\ watching[q] = w
        BY <3>1, <3>2, <4>2 DEF NoMissedWakeup, Handshake
      <4>3. CASE q # p /\ watching[q] # w
        <5>1. watching[q] \in WatchIds
          BY <3>1, <3>3, <4>3 DEF TypeOK
        <5>. QED
          BY <3>1, <3>2, <3>3, <4>3, <5>1 DEF NoMissedWakeup
      <4>. QED
        BY <4>1, <4>2, <4>3
    <3>4. \A v \in watch_map_ : wp_'[v] # NULL =>
             /\ updated_list_[v] = <<>> /\ wait_updated_list_'[v] = <<>>
             /\ state_'[wp_'[v]] \in {"arming", "wait"} /\ watching'[wp_'[v]] = v
      <4> SUFFICES ASSUME NEW v \in watch_map_, wp_'[v] # NULL
                   PROVE  /\ updated_list_[v] = <<>> /\ wait_updated_list_'[v] = <<>>
                          /\ state_'[wp_'[v]] \in {"arming", "wait"} /\ watching'[wp_'[v]] = v
        OBVIOUS
      <4>1. CASE v = w
        BY <3>1, <4>1
      <4>2. CASE v # w
        <5>1. wp_'[v] = wp_[v] /\ wp_[v] # p /\ wp_[v] \in Peers
              /\ wait_updated_list_'[v] = wait_updated_list_[v]
          BY <2>0, <3>1, <4>2 DEF TypeOK
        <5>. QED
          BY <3>1, <5>1 DEF NoMissedWakeup, Handshake
      <4>. QED
        BY <4>1, <4>2
    <3>5. \A q \in Peers : /\ state_'[q] = "wait" => timer_flag_'[q]
                           /\ timer_'[q] # "off" => state_'[q] = "wait"
      BY <3>1, <3>2 DEF Handshake
    <3>. QED
      BY <3>1, <3>3, <3>4, <3>5 DEF NoMissedWakeup, Handshake
  <2>. QED
    BY <1>3, <2>1, <2>2, <2>3 DEF process_check_watch
<1>4. ASSUME NEW p \in Peers, arm_timer(p) PROVE NoMissedWakeup' /\ Handshake'
  BY <1>0, <1>4 DEF TypeOK, NoMissedWakeup, Handshake, arm_timer, watchVars
<1>5. ASSUME NEW p \in Peers, timer_expires(p) PROVE NoMissedWakeup' /\ Handshake'
  BY <1>0, <1>5 DEF TypeOK, NoMissedWakeup, Handshake, timer_expires, watchVars
<1>6. ASSUME NEW p \in Peers, handle_timer(p) PROVE NoMissedWakeup' /\ Handshake'
  <2>1. CASE watching[p] \notin watch_map_
    BY <1>0, <1>6, <2>1 DEF TypeOK, NoMissedWakeup, Handshake, handle_timer, watchVars
  <2>2. CASE watching[p] \in watch_map_
    <3>1. /\ state_' = [state_ EXCEPT ![p] = "read"]
          /\ timer_' = [timer_ EXCEPT ![p] = "off"]
          /\ wp_' = [wp_ EXCEPT ![watching[p]] = IF @ = p THEN NULL ELSE @]
          /\ UNCHANGED <<watch_map_, updated_list_, wait_updated_list_, timer_flag_, watching>>
      BY <1>0, <1>6, <2>2, TimerFindsNothing
    <3>. QED
      BY <1>0, <2>2, <3>1 DEF TypeOK, NoMissedWakeup, Handshake
  <2>. QED
    BY <2>1, <2>2
<1>7. ASSUME createWatch \/ createWatch_lost PROVE NoMissedWakeup' /\ Handshake'
  <2>1. CASE create_watch
    <3> DEFINE n == last_watch_id_ + 1
    <3>1. n \in WatchIds /\ n \notin watch_map_ /\ \A q \in Peers : watching[q] # n
      <4>1. last_watch_id_ \in Nat /\ MaxWatch \in Nat /\ last_watch_id_ < MaxWatch
        BY <2>1, CacheWatchAssumption DEF create_watch, TypeOK
      <4>2. n \in WatchIds
        BY <4>1 DEF WatchIds
      <4>3. n \notin watch_map_
        BY <4>1 DEF WatchShape
      <4>4. ASSUME NEW q \in Peers PROVE watching[q] # n
        <5>1. watching[q] <= last_watch_id_
          BY DEF WatchShape
        <5>. QED
          BY <4>1, <5>1
      <4>. QED
        BY <4>2, <4>3, <4>4
    <3>2. wp_[n] = NULL /\ watch_map_' = watch_map_ \cup {n}
      BY <2>1, <3>1 DEF WatchShape, create_watch
    <3>3. UNCHANGED <<updated_list_, wait_updated_list_, wp_, peerVars>>
      BY <1>7 DEF createWatch, createWatch_lost
    <3>. QED
      BY <3>1, <3>2, <3>3 DEF NoMissedWakeup, Handshake, peerVars
  <2>2. CASE UNCHANGED <<watch_map_, last_watch_id_>> /\ createWatch_lost
    BY <2>2 DEF NoMissedWakeup, Handshake, createWatch_lost, peerVars
  <2>. QED
    BY <1>7, <2>1, <2>2 DEF createWatch, createWatch_lost
<1>8. ASSUME UNCHANGED <<watchVars, peerVars>> PROVE NoMissedWakeup' /\ Handshake'
  BY <1>8 DEF NoMissedWakeup, Handshake, watchVars, peerVars
<1>. QED
  BY <1>1, <1>2, <1>3, <1>4, <1>5, <1>6, <1>7, <1>8
  DEF Next, createWatch_refused, checkWatch, update, checkWatch_refused, checkWatch_lost, vars

\* The exchange on the connection in use is orderly.
LEMMA ExchangeStep ==
  ASSUME TypeOK, WatchShape, NoMissedWakeup, Handshake, Exchange, [Next]_vars
  PROVE  Exchange'
<1>0. NULL \notin Peers /\ Peers \subseteq Nat
  BY CacheWatchAssumption DEF Peers
<1>1. sock \in Peers /\ sock \in Nat
  BY <1>0 DEF TypeOK
<1>2. ASSUME UNCHANGED <<state_, watching, netVars, clientVars>> PROVE Exchange'
  BY <1>2 DEF Exchange, netVars, clientVars
<1>3. ASSUME NEW p \in Peers, process_check_watch(p) PROVE Exchange'
  <2> DEFINE w == req[p].watch
             ack == req[p].ack
  <2>1. /\ req' = [req EXCEPT ![p] = NULL] /\ watching' = [watching EXCEPT ![p] = w]
        /\ state_[p] = "read" /\ req[p] # NULL
        /\ UNCHANGED <<client, sock, watchId, ackSequence>>
    BY <1>3 DEF process_check_watch, clientVars
  <2>2. /\ req'[p] = NULL /\ watching'[p] = w
        /\ \A q \in Peers : q # p => req'[q] = req[q] /\ watching'[q] = watching[q]
    BY <2>1 DEF TypeOK
  <2>3. ~(p > sock)
    BY <2>1 DEF Exchange
  <2>4. p = sock => client = "await" /\ reply[sock] = NULL /\ w = watchId
    BY <2>1 DEF Exchange
  <2>5. CASE check_unknown(p, w) \/ check_again(p, w, ack) \/ check_list(p, w, ack)
    <3>1. PICK r : reply' = [reply EXCEPT ![p] = IF p = sock THEN r ELSE NULL]
      BY <2>5 DEF check_unknown, check_again, check_list, Answer
    <3>2. UNCHANGED state_
      BY <2>5 DEF check_unknown, check_again, check_list
    <3>3. \A q \in Peers : q # sock => reply'[q] = NULL
      BY <1>1, <3>1 DEF Exchange, TypeOK
    <3>4. p # sock => reply'[sock] = reply[sock]
      BY <1>1, <3>1 DEF TypeOK
    <3>. QED
      BY <1>1, <2>1, <2>2, <2>3, <2>4, <3>2, <3>3, <3>4 DEF Exchange
  <2>6. CASE check_waits(p, w, ack)
    <3>1. UNCHANGED reply /\ state_'[p] = "arming" /\ \A q \in Peers : q # p => state_'[q] = state_[q]
      BY <2>6 DEF check_waits, TypeOK
    <3>. QED
      BY <1>1, <2>1, <2>2, <2>3, <2>4, <3>1 DEF Exchange
  <2>. QED
    BY <1>3, <2>5, <2>6 DEF process_check_watch
<1>4. ASSUME NEW p \in Peers, arm_timer(p) PROVE Exchange'
  <2>1. /\ state_[p] = "arming" /\ state_'[p] = "wait"
        /\ \A q \in Peers : q # p => state_'[q] = state_[q]
        /\ UNCHANGED <<watching, netVars, clientVars>>
    BY <1>4 DEF arm_timer, TypeOK
  <2>. QED
    BY <1>1, <2>1 DEF Exchange, netVars, clientVars
<1>5. ASSUME NEW p \in Peers, handle_timer(p) PROVE Exchange'
  <2>1. /\ state_[p] = "wait" /\ state_'[p] = "read"
        /\ \A q \in Peers : q # p => state_'[q] = state_[q]
        /\ UNCHANGED <<watching, req, clientVars>>
    BY <1>5 DEF handle_timer, TypeOK
  <2>2. PICK r : reply' = [reply EXCEPT ![p] = IF p = sock THEN r ELSE NULL]
    <3>1. CASE watching[p] \notin watch_map_
      BY <1>5, <3>1 DEF handle_timer, Answer
    <3>2. CASE watching[p] \in watch_map_
      <4>1. Answer(p, [kind |-> "empty"])
        BY <1>0, <1>5, <3>2, TimerFindsNothing
      <4>. QED
        BY <4>1 DEF Answer
    <3>. QED
      BY <3>1, <3>2
  <2>3. \A q \in Peers : q # sock => reply'[q] = NULL
    BY <1>1, <2>2 DEF Exchange, TypeOK
  <2>4. p # sock => reply'[sock] = reply[sock]
    BY <1>1, <2>2 DEF TypeOK
  <2>. QED
    BY <1>1, <2>1, <2>3, <2>4 DEF Exchange, clientVars
<1>6. ASSUME createWatch PROVE Exchange'
  BY <1>6 DEF createWatch, Exchange, peerVars, netVars
<1>7. ASSUME Reconnect PROVE sock' \in Peers /\ sock' = sock + 1
  BY <1>1, <1>7, CacheWatchAssumption DEF Reconnect, Peers
<1>8. ASSUME createWatch_lost PROVE Exchange'
  <2>1. Reconnect /\ client = "create" /\ UNCHANGED <<peerVars, netVars, client, watchId, ackSequence>>
    BY <1>8 DEF createWatch_lost
  <2>2. sock' \in Peers /\ sock' = sock + 1 /\ sock' > sock
    BY <1>1, <1>7, <2>1
  <2>3. \A q \in Peers : q > sock' => q > sock
    BY <1>0, <1>1, <2>2
  <2>4. /\ req[sock'] = NULL /\ state_[sock'] = "read"
        /\ \A q \in Peers : reply[q] = NULL
    BY <2>1, <2>2 DEF Exchange
  <2>. QED
    BY <2>1, <2>2, <2>3, <2>4 DEF Exchange, peerVars, netVars
<1>9. ASSUME checkWatch PROVE Exchange'
  <2>1. /\ client = "send" /\ client' = "await"
        /\ req'[sock] = [watch |-> watchId, ack |-> ackSequence]
        /\ \A q \in Peers : q # sock => req'[q] = req[q]
        /\ UNCHANGED <<state_, watching, reply, sock, watchId, ackSequence>>
    BY <1>1, <1>9 DEF checkWatch, TypeOK, peerVars
  <2>2. \A q \in Peers : q > sock => q # sock
    BY <1>1
  <2>. QED
    BY <1>1, <2>1, <2>2 DEF Exchange
<1>10. ASSUME update \/ checkWatch_refused PROVE Exchange'
  <2>1. /\ reply[sock] # NULL /\ client' # "await"
        /\ reply'[sock] = NULL /\ \A q \in Peers : q # sock => reply'[q] = reply[q]
        /\ UNCHANGED <<state_, watching, req, sock>>
    BY <1>1, <1>10 DEF update, checkWatch_refused, CheckFailed, TypeOK, peerVars
  <2>2. req[sock] = NULL /\ state_[sock] = "read"
    BY <2>1 DEF Exchange
  <2>. QED
    BY <2>1, <2>2 DEF Exchange
<1>11. ASSUME checkWatch_lost PROVE Exchange'
  <2>1. /\ Reconnect /\ client' # "await"
        /\ reply'[sock] = NULL /\ \A q \in Peers : q # sock => reply'[q] = reply[q] /\ req'[q] = req[q]
        /\ UNCHANGED <<state_, watching>>
    BY <1>1, <1>11 DEF checkWatch_lost, CheckFailed, TypeOK, peerVars
  <2>2. sock' \in Peers /\ sock' = sock + 1 /\ sock' > sock /\ sock' # sock
    BY <1>1, <1>7, <2>1
  <2>3. \A q \in Peers : q > sock' => q > sock /\ q # sock
    BY <1>0, <1>1, <2>2
  <2>4. /\ req'[sock'] = NULL /\ state_[sock'] = "read"
        /\ \A q \in Peers : reply'[q] = NULL
    BY <2>1, <2>2 DEF Exchange
  <2>. QED
    BY <2>1, <2>2, <2>3, <2>4 DEF Exchange
<1>. QED
  BY <1>2, <1>3, <1>4, <1>5, <1>6, <1>8, <1>9, <1>10, <1>11
  DEF Next, Change, notify_watch, expire_watchs, timer_expires, createWatch_refused, peerVars, vars

\* While a watch lives the number of a list does not wrap around.
LEMMA NextIsOneMore ==
  ASSUME TypeOK, Numbered, NEW w \in WatchIds, updated_list_[w] # <<>>
  PROVE  next_sequence(w) = sequence_[w] + 1 /\ sequence_[w] + 1 <= Len(pushed[w])
<1>1. sequence_[w] \in Nat /\ updated_list_[w] \in Seq(Ids) /\ pushed[w] \in Seq(Ids)
  BY CacheWatchAssumption DEF TypeOK, Seqs
<1>2. Len(updated_list_[w]) \in Nat \ {0} /\ Len(pushed[w]) \in Nat
  BY <1>1, EmptySeq
<1>3. sequence_[w] + Len(updated_list_[w]) <= Len(pushed[w]) /\ Len(pushed[w]) <= MaxId
  BY DEF Numbered
<1>. QED
  BY <1>1, <1>2, <1>3, CacheWatchAssumption DEF next_sequence

LEMMA NumberedStep ==
  ASSUME TypeOK, WatchShape, NoMissedWakeup, Numbered, Delivery, [Next]_vars
  PROVE  Numbered'
<1>0. NULL \notin Peers
  BY CacheWatchAssumption DEF Peers
<1>1. \A v \in WatchIds : /\ sequence_[v] \in Nat /\ updated_list_[v] \in Seq(Ids)
                          /\ pushed[v] \in Seq(Ids) /\ applied[v] \in Seq(Ids)
  BY CacheWatchAssumption DEF TypeOK, Seqs
<1>2. ASSUME NEW w \in WatchIds, Change(w) PROVE Numbered'
  <2>1. /\ Len(pushed[w]) < MaxId
        /\ updated_list_'[w] = Append(updated_list_[w], Len(pushed[w]) + 1)
        /\ pushed'[w] = Append(pushed[w], Len(pushed[w]) + 1)
        /\ \A v \in WatchIds : v # w => updated_list_'[v] = updated_list_[v] /\ pushed'[v] = pushed[v]
        /\ UNCHANGED <<sequence_, applied, ackSequence>>
    BY <1>2 DEF TypeOK, Change, notify_watch, clientVars
  <2>2. /\ Len(pushed'[w]) = Len(pushed[w]) + 1
        /\ Len(updated_list_'[w]) = Len(updated_list_[w]) + 1
        /\ Len(pushed[w]) \in Nat /\ Len(updated_list_[w]) \in Nat
    BY <1>1, <2>1
  <2>3. /\ Len(pushed'[w]) <= MaxId
        /\ sequence_[w] + Len(updated_list_'[w]) <= Len(pushed'[w])
    BY <1>1, <2>1, <2>2, CacheWatchAssumption, SMTT(30) DEF Numbered
  <2>. QED
    BY <2>1, <2>3 DEF Numbered
<1>3. ASSUME NEW w \in WatchIds, expire_watchs(w) PROVE Numbered'
  <2>1. /\ updated_list_'[w] = <<>> /\ sequence_'[w] = 0
        /\ \A v \in WatchIds : v # w => updated_list_'[v] = updated_list_[v] /\ sequence_'[v] = sequence_[v]
        /\ UNCHANGED <<pushed, applied, ackSequence>>
    BY <1>3 DEF expire_watchs, TypeOK, clientVars
  <2>2. sequence_'[w] + Len(updated_list_'[w]) <= Len(pushed[w])
    BY <1>1, <2>1
  <2>. QED
    BY <2>1, <2>2 DEF Numbered
<1>4. ASSUME NEW p \in Peers, process_check_watch(p) PROVE Numbered'
  <2> DEFINE w == req[p].watch
             ack == req[p].ack
  <2>1. UNCHANGED <<ackSequence, pushed, applied>>
    BY <1>4 DEF process_check_watch, clientVars
  <2>2. CASE check_unknown(p, w) \/ check_again(p, w, ack) \/ check_waits(p, w, ack)
    BY <2>1, <2>2 DEF Numbered, check_unknown, check_again, check_waits, watchVars
  <2>3. CASE check_list(p, w, ack)
    <3>1. /\ w \in WatchIds /\ updated_list_[w] # <<>>
          /\ updated_list_'[w] = <<>> /\ sequence_'[w] = next_sequence(w)
          /\ \A v \in WatchIds : v # w => updated_list_'[v] = updated_list_[v] /\ sequence_'[v] = sequence_[v]
      BY <2>3 DEF check_list, TypeOK
    <3>2. sequence_'[w] + Len(updated_list_'[w]) <= Len(pushed[w])
      BY <1>1, <3>1, NextIsOneMore
    <3>. QED
      BY <2>1, <3>1, <3>2 DEF Numbered
  <2>. QED
    BY <1>4, <2>2, <2>3 DEF process_check_watch
<1>5. ASSUME NEW p \in Peers, handle_timer(p) PROVE Numbered'
  <2>1. UNCHANGED <<updated_list_, sequence_, ackSequence, pushed, applied>>
    <3>1. CASE watching[p] \notin watch_map_
      BY <1>5, <3>1 DEF handle_timer, watchVars, clientVars
    <3>2. CASE watching[p] \in watch_map_
      <4>1. UNCHANGED <<updated_list_, sequence_, clientVars, pushed, applied>>
        BY <1>0, <1>5, <3>2, TimerFindsNothing
      <4>. QED
        BY <4>1 DEF clientVars
    <3>. QED
      BY <3>1, <3>2
  <2>. QED
    BY <2>1 DEF Numbered
<1>6. ASSUME update PROVE Numbered'
  <2>1. UNCHANGED <<sequence_, updated_list_, pushed>>
    BY <1>6 DEF update, watchVars
  <2>2. CASE reply[sock].kind = "list"
    <3>1. watchId \in WatchIds
      BY <1>6, CacheWatchAssumption DEF update, WatchShape, TypeOK, WatchIds
    <3>2. reply[sock].list # <<>> /\ reply[sock].list \in Seq(Ids)
      BY <1>6, <2>2, RepliesType DEF update, Delivery, Listed, TypeOK
    <3>3. applied'[watchId] = applied[watchId] \o reply[sock].list
      BY <1>6, <2>2, <3>1 DEF update, TypeOK
    <3>4. applied'[watchId] # <<>>
      BY <1>1, <3>1, <3>2, <3>3, ConcatEqualIffEmpty
    <3>. QED
      BY <2>1, <3>1, <3>4 DEF Numbered
  <2>3. CASE reply[sock].kind # "list"
    BY <1>6, <2>1, <2>3 DEF update, Numbered
  <2>. QED
    BY <2>2, <2>3
<1>7. ASSUME UNCHANGED <<sequence_, updated_list_, pushed, applied, ackSequence>> PROVE Numbered'
  BY <1>7 DEF Numbered
<1>8. ASSUME NEW p \in Peers, arm_timer(p) \/ timer_expires(p) PROVE Numbered'
  BY <1>7, <1>8 DEF arm_timer, timer_expires, watchVars, clientVars
<1>9. ASSUME \/ createWatch \/ createWatch_refused \/ createWatch_lost
             \/ checkWatch \/ checkWatch_refused \/ checkWatch_lost
      PROVE  Numbered'
  BY <1>7, <1>9 DEF createWatch, createWatch_refused, createWatch_lost, checkWatch,
    checkWatch_refused, checkWatch_lost, vars, watchVars, clientVars
<1>. QED
  BY <1>2, <1>3, <1>4, <1>5, <1>6, <1>7, <1>8, <1>9 DEF Next, vars, watchVars, clientVars

LEMMA Assoc == \A a, b, c \in Seq(Ids) : (a \o b) \o c = a \o (b \o c)
  BY ConcatAssociative

LEMMA SeqAlgebra ==
  /\ \A a, b \in Seq(Ids) : a \o b \in Seq(Ids)
  /\ \A a \in Seq(Ids) : a \o <<>> = a /\ <<>> \o a = a
  /\ <<>> \in Seq(Ids)
  BY ConcatEmptySeq

\* The session is the watch of the client or none.
LEMMA SessionIs ==
  ASSUME TypeOK, WatchShape
  PROVE  /\ Session \in {0, watchId}
         /\ Session # 0 => Session = watchId /\ Session \in WatchIds
BY CacheWatchAssumption DEF Session, TypeOK, WatchIds

\* A list for the watch of the client does not end the session.
LEMMA SessionKept ==
  ASSUME TypeOK, update, watchId \in WatchIds
  PROVE  Session' = Session
<1>1. \A v \in 1..(watchId - 1) : v \in WatchIds /\ v # watchId
  BY CacheWatchAssumption DEF WatchIds
<1>2. watchId' = watchId /\ \A v \in WatchIds : v # watchId => applied'[v] = applied[v]
  BY DEF update, TypeOK
<1>. QED
  BY <1>1, <1>2 DEF Session

\* A step that touches neither the session nor what is listed for it keeps
\* Delivery: a reply may be given up, a request may be made or taken.
LEMMA DeliveryFrame ==
  ASSUME TypeOK, TypeOK', WatchShape, Delivery,
         UNCHANGED <<watchId, applied, ackSequence>>,
         Session # 0 => pushed'[Session] = pushed[Session],
         Session # 0 /\ Session \in watch_map_' =>
             /\ Session \in watch_map_
             /\ updated_list_'[Session] = updated_list_[Session]
             /\ wait_updated_list_'[Session] = wait_updated_list_[Session]
             /\ sequence_'[Session] = sequence_[Session],
         Listed' => Listed /\ reply'[sock'] = reply[sock],
         \A p \in Peers : req'[p] # NULL => req'[p] = req[p] \/ req'[p].ack = ackSequence
  PROVE  Delivery'
<1>1. Session' = Session
  BY DEF Session
<1>2. Session # 0 => Session \in WatchIds
  BY SessionIs
<1>3. Listed' => reply'[sock'].list # <<>>
  BY DEF Delivery
<1>4. ASSUME Session # 0
      PROVE  \E rest \in Seq(Ids) : pushed'[Session] = (applied'[Session] \o Arriving') \o rest
  <2>1. PICK rest \in Seq(Ids) : pushed[Session] = (applied[Session] \o Arriving) \o rest
    BY <1>4 DEF Delivery
  <2>2. CASE Listed'
    <3>1. Arriving' = Arriving
      BY <2>2 DEF Arriving
    <3>. QED
      BY <1>4, <2>1, <3>1
  <2>3. CASE ~Listed'
    <3>1. Arriving' = <<>>
      BY <2>3 DEF Arriving
    <3>2. applied[Session] \in Seq(Ids) /\ Arriving \in Seq(Ids)
      <4>1. applied[Session] \in Seq(Ids)
        BY <1>2, <1>4 DEF TypeOK
      <4>2. Arriving \in Seq(Ids)
        BY RepliesType DEF TypeOK, Arriving, Listed
      <4>. QED
        BY <4>1, <4>2
    <3>3. pushed[Session] = (applied[Session] \o <<>>) \o (Arriving \o rest)
      <4>1. (applied[Session] \o Arriving) \o rest = applied[Session] \o (Arriving \o rest)
        BY <2>1, <3>2, Assoc, Zenon
      <4>2. applied[Session] \o <<>> = applied[Session]
        BY <3>2, SeqAlgebra
      <4>. QED
        BY <2>1, <4>1, <4>2
    <3>4. Arriving \o rest \in Seq(Ids)
      BY <3>2, ConcatProperties
    <3>. QED
      BY <1>4, <3>1, <3>3, <3>4
  <2>. QED
    BY <2>2, <2>3
<1>5. ASSUME Session # 0, Session \in watch_map_'
      PROVE  /\ pushed'[Session] = applied'[Session] \o Owed(Session)'
             /\ ackSequence' <= sequence_'[Session]
             /\ ackSequence' # sequence_'[Session] => wait_updated_list_'[Session] # <<>>
             /\ \A p \in Peers : req'[p] # NULL /\ req'[p].watch = Session => req'[p].ack <= ackSequence'
             /\ Listed' => /\ reply'[sock'].sequence = sequence_'[Session]
                           /\ reply'[sock'].list = wait_updated_list_'[Session]
                           /\ ackSequence' # sequence_'[Session]
  <2>1. Owed(Session)' = Owed(Session)
    BY <1>1, <1>5 DEF Owed
  <2>2. ackSequence \in Nat
    BY CacheWatchAssumption DEF TypeOK, Seqs
  <2>3. \A p \in Peers : req'[p] # NULL /\ req'[p].watch = Session => req'[p].ack <= ackSequence
    BY <1>5, <2>2 DEF Delivery
  <2>. QED
    BY <1>5, <2>1, <2>3 DEF Delivery
<1>. QED
  BY <1>1, <1>3, <1>4, <1>5 DEF Delivery

\* A change of the watch of the session.
LEMMA DeliveryChange ==
  ASSUME TypeOK, TypeOK', WatchShape, Delivery, NEW w \in WatchIds, Change(w)
  PROVE  Delivery'
<1> DEFINE id == Len(pushed[w]) + 1
<1>1. /\ w \in watch_map_ /\ UNCHANGED <<watch_map_, wait_updated_list_, sequence_, req, reply,
                                         watchId, ackSequence, sock, applied>>
      /\ updated_list_'[w] = Append(updated_list_[w], id) /\ pushed'[w] = Append(pushed[w], id)
      /\ \A v \in WatchIds : v # w => updated_list_'[v] = updated_list_[v] /\ pushed'[v] = pushed[v]
  BY DEF Change, notify_watch, TypeOK, netVars, clientVars
<1>2. CASE Session # w
  <2>1. Session # 0 => Session \in WatchIds
    BY SessionIs
  <2>2. Listed' = Listed
    BY <1>1 DEF Listed
  <2>3. /\ Session # 0 => pushed'[Session] = pushed[Session]
        /\ Session # 0 /\ Session \in watch_map_' =>
             /\ Session \in watch_map_
             /\ updated_list_'[Session] = updated_list_[Session]
             /\ wait_updated_list_'[Session] = wait_updated_list_[Session]
             /\ sequence_'[Session] = sequence_[Session]
        /\ Listed' => Listed /\ reply'[sock'] = reply[sock]
        /\ \A p \in Peers : req'[p] # NULL => req'[p] = req[p] \/ req'[p].ack = ackSequence
        /\ UNCHANGED <<watchId, applied, ackSequence>>
    BY <1>1, <1>2, <2>1, <2>2
  <2>. QED
    BY <2>3, DeliveryFrame
<1>3. CASE Session = w
  <2>1. Session' = w /\ w # 0
    BY <1>1, <1>3, CacheWatchAssumption DEF Session, WatchIds
  <2>2. Listed' = Listed /\ Arriving' = Arriving
    BY <1>1 DEF Listed, Arriving
  <2>3. /\ pushed[w] \in Seq(Ids) /\ applied[w] \in Seq(Ids) /\ updated_list_[w] \in Seq(Ids)
        /\ wait_updated_list_[w] \in Seq(Ids) /\ pushed'[w] \in Seq(Ids)
    BY DEF TypeOK
  <2>4. id \in Ids
    BY <2>3, CacheWatchAssumption DEF Change, Ids
  <2>5. <<id>> \in Seq(Ids) /\ <<>> \in Seq(Ids)
    BY <2>4
  <2>6. /\ pushed'[w] = pushed[w] \o <<id>>
        /\ updated_list_'[w] = updated_list_[w] \o <<id>>
    BY <1>1, <2>3, <2>4, AppendIsConcat
  <2>7. Arriving \in Seq(Ids)
    BY RepliesType DEF TypeOK, Arriving, Listed
  <2>8. \E rest \in Seq(Ids) : pushed'[w] = (applied[w] \o Arriving) \o rest
    <3>1. PICK rest \in Seq(Ids) : pushed[w] = (applied[w] \o Arriving) \o rest
      BY <1>3, <2>1 DEF Delivery
    <3>2. applied[w] \o Arriving \in Seq(Ids) /\ rest \o <<id>> \in Seq(Ids)
      BY <2>3, <2>5, <2>7, ConcatProperties
    <3>3. pushed'[w] = (applied[w] \o Arriving) \o (rest \o <<id>>)
      <4>1. ((applied[w] \o Arriving) \o rest) \o <<id>> = (applied[w] \o Arriving) \o (rest \o <<id>>)
        BY <2>5, <3>1, <3>2, Assoc, Zenon
      <4>. QED
        BY <2>6, <3>1, <4>1
    <3>. QED
      BY <3>2, <3>3
  <2>9. pushed'[w] = applied[w] \o Owed(w)'
    <3> DEFINE head == IF ackSequence = sequence_[w] THEN <<>> ELSE wait_updated_list_[w]
    <3>1. head \in Seq(Ids)
      BY <2>3, <2>5
    <3>2. Owed(w) = head \o updated_list_[w] /\ Owed(w)' = head \o updated_list_'[w]
      BY <1>1 DEF Owed
    <3>3. Owed(w)' = Owed(w) \o <<id>> /\ Owed(w) \in Seq(Ids)
      <4> HIDE DEF head
      <4>. QED
        <5>1. (head \o updated_list_[w]) \o <<id>> = head \o (updated_list_[w] \o <<id>>)
          BY <2>3, <2>5, <3>1, Assoc, ZenonT(40)
        <5>2. head \o updated_list_[w] \in Seq(Ids)
          BY <2>3, <3>1, SeqAlgebra
        <5>. QED
          BY <2>6, <3>2, <5>1, <5>2
    <3>4. Owed(w) \in Seq(Ids)
      BY <3>3
    <3>5. pushed[w] = applied[w] \o Owed(w)
      BY <1>1, <1>3, <2>1 DEF Delivery
    <3>. QED
      <4>1. (applied[w] \o Owed(w)) \o <<id>> = applied[w] \o (Owed(w) \o <<id>>)
        <5>1. applied[w] \in Seq(Ids)
          BY <2>3
        <5>. QED
          BY <2>5, <3>4, <5>1, Assoc
      <4>. QED
        BY <2>6, <3>3, <3>5, <4>1
  <2>. QED
    BY <1>1, <1>3, <2>1, <2>2, <2>8, <2>9 DEF Delivery
<1>. QED
  BY <1>2, <1>3

\* An acknowledged watch of the session has nothing unacknowledged, whichever
\* connection the request came by.
LEMMA CaughtUp ==
  ASSUME TypeOK, WatchShape, Delivery, NEW p \in Peers, req[p] # NULL, Session # 0,
         req[p].watch = Session, Session \in watch_map_, Acknowledged(Session, req[p].ack)
  PROVE  /\ ackSequence = sequence_[Session] /\ ~Listed
         /\ pushed[Session] = applied[Session] \o updated_list_[Session]
<1>1. /\ ackSequence \in Nat /\ sequence_[Session] \in Nat /\ req[p].ack \in Nat
      /\ updated_list_[Session] \in Seq(Ids)
  <2>1. Session \in WatchIds
    BY SessionIs
  <2>2. req[p].ack \in Seqs
    BY DEF TypeOK, Requests
  <2>. QED
    BY <2>1, <2>2, CacheWatchAssumption DEF TypeOK, Seqs
<1>2. req[p].ack <= ackSequence /\ ackSequence <= sequence_[Session]
  BY DEF Delivery
<1>3. ackSequence = sequence_[Session]
  BY <1>1, <1>2 DEF Delivery, Acknowledged
<1>4. ~Listed
  BY <1>3 DEF Delivery
<1>5. Owed(Session) = updated_list_[Session]
  BY <1>1, <1>3, SeqAlgebra DEF Owed
<1>. QED
  BY <1>3, <1>4, <1>5 DEF Delivery

\* A check of the watch of the session.
LEMMA DeliveryCheck ==
  ASSUME TypeOK, TypeOK', WatchShape, Exchange, Numbered, Delivery,
         NEW p \in Peers, process_check_watch(p)
  PROVE  Delivery'
<1> DEFINE w == req[p].watch
           ack == req[p].ack
<1>1. /\ req[p] # NULL
      /\ UNCHANGED <<watchId, sock, ackSequence, pushed, applied>>
      /\ \A q \in Peers : req'[q] # NULL => req'[q] = req[q]
      /\ req[p] \in Requests /\ w \in WatchIds
  BY DEF process_check_watch, TypeOK, clientVars, Requests
<1>2. sock \in Peers /\ p = sock => reply[sock] = NULL /\ w = watchId /\ ack = ackSequence
  BY <1>1 DEF Exchange
<1>3. sock \in Peers /\ Session' = Session /\ (Session # 0 => Session = watchId /\ Session \in WatchIds)
  BY <1>1, SessionIs DEF TypeOK, Session
<1>4. CASE check_unknown(p, w)
  <2>1. /\ reply' = [reply EXCEPT ![p] = IF p = sock THEN [kind |-> "not_found"] ELSE NULL]
        /\ UNCHANGED <<watch_map_, updated_list_, wait_updated_list_, sequence_>>
    BY <1>4 DEF check_unknown, Answer, watchVars
  <2>2. Listed' => Listed /\ reply'[sock'] = reply[sock]
    <3>1. CASE p = sock
      BY <1>1, <1>3, <2>1, <3>1 DEF Listed, TypeOK
    <3>2. CASE p # sock
      BY <1>1, <1>3, <2>1, <3>2 DEF Listed, TypeOK
    <3>. QED
      BY <3>1, <3>2
  <2>3. UNCHANGED <<watchId, applied, ackSequence>>
    BY <1>1
  <2>. QED
    BY <1>1, <2>1, <2>2, <2>3, DeliveryFrame
<1>5. CASE check_again(p, w, ack)
  <2> DEFINE r == [kind |-> "list", sequence |-> sequence_[w], list |-> wait_updated_list_[w]]
  <2>1. /\ w \in watch_map_ /\ wait_updated_list_[w] # <<>> /\ ack # sequence_[w]
        /\ reply' = [reply EXCEPT ![p] = IF p = sock THEN r ELSE NULL]
        /\ UNCHANGED <<watch_map_, updated_list_, wait_updated_list_, sequence_>>
    BY <1>5 DEF check_again, Answer, Acknowledged, watchVars
  <2>2. CASE p # sock
    <3>1. reply'[sock'] = reply[sock]
      BY <1>1, <1>3, <2>1, <2>2 DEF TypeOK
    <3>2. Listed' => Listed
      BY <3>1 DEF Listed
    <3>3. UNCHANGED <<watchId, applied, ackSequence>>
      BY <1>1
    <3>. QED
      BY <1>1, <2>1, <3>1, <3>2, <3>3, DeliveryFrame
  <2>3. CASE p = sock
    <3>1. reply'[sock'] = r
      BY <1>1, <1>3, <2>1, <2>3 DEF TypeOK
    <3>2. r # NULL
      BY <1>1, RepliesType, NextSequence, NullAssumption DEF TypeOK
    <3>3. Listed' /\ Arriving' = wait_updated_list_[w]
      BY <3>1, <3>2 DEF Listed, Arriving
    <3>4. CASE Session = 0
      BY <1>3, <2>1, <3>1, <3>3, <3>4 DEF Delivery
    <3>5. CASE Session # 0
      <4>1. Session = w /\ w # 0 /\ ackSequence # sequence_[w]
        BY <1>2, <1>3, <2>1, <2>3, <3>5
      <4>2. /\ wait_updated_list_[w] \in Seq(Ids) /\ updated_list_[w] \in Seq(Ids)
            /\ applied[w] \in Seq(Ids)
        BY <1>1 DEF TypeOK
      <4>3. pushed[w] = applied[w] \o (wait_updated_list_[w] \o updated_list_[w])
        BY <2>1, <3>5, <4>1 DEF Delivery, Owed
      <4>4. (applied[w] \o wait_updated_list_[w]) \o updated_list_[w]
              = applied[w] \o (wait_updated_list_[w] \o updated_list_[w])
        BY <4>2, Assoc, Zenon
      <4>5. \E rest \in Seq(Ids) : pushed'[w] = (applied'[w] \o Arriving') \o rest
        BY <1>1, <3>3, <4>2, <4>3, <4>4
      <4>6. Owed(Session)' = Owed(Session)
        BY <1>1, <1>3, <2>1 DEF Owed
      <4>7. \A q \in Peers : req'[q] # NULL /\ req'[q].watch = w => req'[q].ack <= ackSequence
        BY <1>1, <2>1, <4>1 DEF Delivery
      <4>8. reply'[sock'].sequence = sequence_[w] /\ reply'[sock'].list = wait_updated_list_[w]
        BY <3>1
      <4>9. pushed'[w] = applied'[w] \o Owed(Session)' /\ ackSequence <= sequence_[w]
        BY <1>1, <2>1, <3>5, <4>1, <4>6 DEF Delivery
      <4>. QED
        BY <1>1, <1>3, <2>1, <4>1, <4>5, <4>7, <4>8, <4>9 DEF Delivery
    <3>. QED
      BY <3>4, <3>5
  <2>. QED
    BY <2>2, <2>3
<1>6. CASE check_list(p, w, ack)
  <2> DEFINE r == [kind |-> "list", sequence |-> next_sequence(w), list |-> updated_list_[w]]
  <2>1. /\ w \in watch_map_ /\ updated_list_[w] # <<>> /\ Acknowledged(w, ack)
        /\ reply' = [reply EXCEPT ![p] = IF p = sock THEN r ELSE NULL]
        /\ UNCHANGED watch_map_
        /\ wait_updated_list_'[w] = updated_list_[w] /\ updated_list_'[w] = <<>>
        /\ sequence_'[w] = sequence_[w] + 1
        /\ \A v \in WatchIds : v # w => /\ wait_updated_list_'[v] = wait_updated_list_[v]
                                        /\ updated_list_'[v] = updated_list_[v]
                                        /\ sequence_'[v] = sequence_[v]
    BY <1>1, <1>6, NextIsOneMore DEF check_list, Answer, TypeOK
  <2>2. next_sequence(w) = sequence_'[w]
    BY <1>1, <2>1, NextIsOneMore
  <2>3. p # sock => reply'[sock'] = reply[sock]
    BY <1>1, <1>3, <2>1 DEF TypeOK
  <2>4. p = sock => reply'[sock'] = r /\ Listed' /\ Arriving' = updated_list_[w]
    <3> SUFFICES ASSUME p = sock PROVE reply'[sock'] = r /\ Listed' /\ Arriving' = updated_list_[w]
      OBVIOUS
    <3>1. reply'[sock'] = r
      BY <1>1, <1>3, <2>1 DEF TypeOK
    <3>2. r # NULL
      BY <1>1, RepliesType, NextSequence, NullAssumption DEF TypeOK
    <3>. QED
      BY <3>1, <3>2 DEF Listed, Arriving
  <2>5. CASE Session # w
    <3>1. CASE p = sock
      <4>1. Session = 0
        BY <1>2, <1>3, <2>5, <3>1
      <4>. QED
        BY <1>3, <2>1, <2>4, <3>1, <4>1 DEF Delivery
    <3>2. CASE p # sock
      <4>1. Listed' => Listed /\ reply'[sock'] = reply[sock]
        BY <2>3, <3>2 DEF Listed
      <4>2. UNCHANGED <<watchId, applied, ackSequence>>
        BY <1>1
      <4>. QED
        BY <1>1, <1>3, <2>1, <2>5, <4>1, <4>2, DeliveryFrame
    <3>. QED
      BY <3>1, <3>2
  <2>6. CASE Session = w
    <3>1. w # 0
      BY <1>1, CacheWatchAssumption DEF WatchIds
    <3>2. /\ ackSequence = sequence_[w] /\ ~Listed
          /\ pushed[w] = applied[w] \o updated_list_[w]
      BY <1>1, <2>1, <2>6, <3>1, CaughtUp
    <3>3. /\ applied[w] \in Seq(Ids) /\ updated_list_[w] \in Seq(Ids) /\ sequence_[w] \in Nat
      BY <1>1, CacheWatchAssumption DEF TypeOK, Seqs
    <3>4. ackSequence <= sequence_'[w] /\ ackSequence # sequence_'[w]
      BY <2>1, <3>2, <3>3
    <3>5. updated_list_[w] \o <<>> = updated_list_[w]
      BY <3>3, SeqAlgebra
    <3>6. Owed(Session)' = updated_list_[w]
      BY <1>1, <1>3, <2>1, <2>6, <3>4, <3>5 DEF Owed
    <3>7. \E rest \in Seq(Ids) : pushed'[w] = (applied'[w] \o Arriving') \o rest
      <4>1. CASE p = sock
        <5>1. (applied[w] \o updated_list_[w]) \o <<>> = applied[w] \o updated_list_[w]
          BY <3>3, SeqAlgebra
        <5>. QED
          BY <1>1, <2>4, <3>2, <4>1, <5>1, SeqAlgebra
      <4>2. CASE p # sock
        <5>1. Arriving' = <<>>
          BY <2>3, <3>2, <4>2 DEF Arriving, Listed
        <5>2. applied[w] \o <<>> = applied[w]
          BY <3>3, SeqAlgebra
        <5>. QED
          BY <1>1, <3>2, <3>3, <5>1, <5>2
      <4>. QED
        BY <4>1, <4>2
    <3>8. Listed' => p = sock
      BY <2>3, <3>2 DEF Listed
    <3>9. \A q \in Peers : req'[q] # NULL /\ req'[q].watch = w => req'[q].ack <= ackSequence
      BY <1>1, <2>1, <2>6, <3>1 DEF Delivery
    <3>10. Listed' => /\ reply'[sock'].list = updated_list_[w]
                      /\ reply'[sock'].sequence = sequence_'[w]
      BY <2>2, <2>4, <3>8
    <3>. QED
      BY <1>1, <1>3, <2>1, <2>6, <3>2, <3>4, <3>6, <3>7, <3>9, <3>10 DEF Delivery
  <2>. QED
    BY <2>5, <2>6
<1>7. CASE check_waits(p, w, ack)
  <2>1. /\ w \in watch_map_ /\ updated_list_[w] = <<>> /\ Acknowledged(w, ack)
        /\ UNCHANGED <<watch_map_, updated_list_, sequence_, reply>>
        /\ \A v \in WatchIds : v # w => wait_updated_list_'[v] = wait_updated_list_[v]
    BY <1>7 DEF check_waits, TypeOK
  <2>2. Listed' => Listed /\ reply'[sock'] = reply[sock]
    BY <1>1, <2>1 DEF Listed
  <2>3. UNCHANGED <<watchId, applied, ackSequence>>
    BY <1>1
  <2>4. CASE Session # w
    BY <1>1, <1>3, <2>1, <2>2, <2>3, <2>4, DeliveryFrame
  <2>5. CASE Session = w
    <3>1. w # 0
      BY <1>1, CacheWatchAssumption DEF WatchIds
    <3>2. /\ ackSequence = sequence_[w] /\ ~Listed
          /\ pushed[w] = applied[w] \o updated_list_[w]
      BY <1>1, <2>1, <2>5, <3>1, CaughtUp
    <3>3. applied[w] \in Seq(Ids) /\ sequence_[w] \in Nat
      BY <1>1, CacheWatchAssumption DEF TypeOK, Seqs
    <3>4. Owed(Session)' = updated_list_[w]
      BY <1>1, <1>3, <2>1, <2>5, <3>2, SeqAlgebra DEF Owed
    <3>5. ~Listed' /\ Arriving' = <<>>
      BY <2>2, <3>2 DEF Arriving
    <3>6. applied[w] \o <<>> = applied[w]
      BY <3>3, SeqAlgebra
    <3>7. \E rest \in Seq(Ids) : pushed'[w] = (applied'[w] \o Arriving') \o rest
      BY <1>1, <2>1, <3>2, <3>5, <3>6, SeqAlgebra
    <3>8. \A q \in Peers : req'[q] # NULL /\ req'[q].watch = w => req'[q].ack <= ackSequence
      BY <1>1, <2>1, <2>5, <3>1 DEF Delivery
    <3>. QED
      BY <1>1, <1>3, <2>1, <2>5, <3>2, <3>3, <3>4, <3>5, <3>7, <3>8 DEF Delivery
  <2>. QED
    BY <2>4, <2>5
<1>. QED
  BY <1>4, <1>5, <1>6, <1>7 DEF process_check_watch

LEMMA DeliveryStep ==
  ASSUME WatchInv, TypeOK', [Next]_vars
  PROVE  Delivery'
<1> USE DEF WatchInv
<1>0. NULL \notin Peers /\ sock \in Peers /\ Peers \subseteq Nat
  BY CacheWatchAssumption DEF Peers, TypeOK
<1>1. ASSUME NEW w \in WatchIds, Change(w) PROVE Delivery'
  BY <1>1, DeliveryChange
<1>2. ASSUME NEW w \in WatchIds, expire_watchs(w) PROVE Delivery'
  <2>1. /\ watch_map_' = watch_map_ \ {w}
        /\ \A v \in WatchIds : v # w => /\ wait_updated_list_'[v] = wait_updated_list_[v]
                                        /\ updated_list_'[v] = updated_list_[v]
                                        /\ sequence_'[v] = sequence_[v]
        /\ UNCHANGED <<req, reply, sock, pushed>>
        /\ UNCHANGED <<watchId, applied, ackSequence>>
    BY <1>2 DEF expire_watchs, TypeOK, netVars, clientVars
  <2>2. Listed' => Listed /\ reply'[sock'] = reply[sock]
    BY <2>1 DEF Listed
  <2>3. Session # 0 => Session \in WatchIds
    BY SessionIs
  <2>. QED
    BY <2>1, <2>2, <2>3, DeliveryFrame
<1>3. ASSUME NEW p \in Peers, process_check_watch(p) PROVE Delivery'
  BY <1>3, DeliveryCheck
<1>4. ASSUME UNCHANGED <<watch_map_, updated_list_, wait_updated_list_, sequence_, pushed>>,
             UNCHANGED <<watchId, applied, ackSequence>>,
             Listed' => Listed /\ reply'[sock'] = reply[sock],
             \A q \in Peers : req'[q] # NULL => req'[q] = req[q] \/ req'[q].ack = ackSequence
      PROVE  Delivery'
  BY <1>4, DeliveryFrame
<1>5. ASSUME NEW p \in Peers, arm_timer(p) \/ timer_expires(p) PROVE Delivery'
  <2>1. Listed' = Listed
    BY <1>5 DEF Listed, arm_timer, timer_expires, netVars, clientVars
  <2>. QED
    BY <1>4, <1>5, <2>1 DEF arm_timer, timer_expires, watchVars, netVars, clientVars
<1>6. ASSUME NEW p \in Peers, handle_timer(p) PROVE Delivery'
  <2>1. /\ UNCHANGED <<watch_map_, updated_list_, wait_updated_list_, sequence_, pushed>>
        /\ UNCHANGED <<watchId, applied, ackSequence>>
        /\ UNCHANGED <<req, sock>>
        /\ \/ Answer(p, [kind |-> "empty"])
           \/ Answer(p, [kind |-> "not_found"])
    <3>1. CASE watching[p] \notin watch_map_
      BY <1>6, <3>1 DEF handle_timer, watchVars, clientVars
    <3>2. CASE watching[p] \in watch_map_
      <4>1. /\ Answer(p, [kind |-> "empty"])
            /\ UNCHANGED <<watch_map_, updated_list_, wait_updated_list_, sequence_, req, clientVars,
                           pushed, applied>>
        BY <1>0, <1>6, <3>2, TimerFindsNothing
      <4>. QED
        BY <4>1 DEF clientVars
    <3>. QED
      BY <3>1, <3>2
  <2>2. CASE p # sock
    <3>1. reply'[sock'] = reply[sock]
      BY <1>0, <2>1, <2>2 DEF Answer, TypeOK
    <3>2. Listed' = Listed
      BY <3>1 DEF Listed
    <3>. QED
      BY <1>4, <2>1, <3>1, <3>2
  <2>3. CASE p = sock
    <3>1. reply'[sock'] = [kind |-> "empty"] \/ reply'[sock'] = [kind |-> "not_found"]
      BY <1>0, <2>1, <2>3 DEF Answer, TypeOK
    <3>2. ~Listed'
      BY <3>1 DEF Listed
    <3>. QED
      BY <1>4, <2>1, <3>2
  <2>. QED
    BY <2>2, <2>3
<1>7. ASSUME createWatch PROVE Delivery'
  <2> DEFINE n == last_watch_id_ + 1
  <2>1. /\ client = "create" /\ last_watch_id_ < MaxWatch /\ watchId' = n
        /\ UNCHANGED <<updated_list_, wait_updated_list_, sequence_, req, reply, sock, ackSequence,
                       pushed, applied>>
    BY <1>7 DEF createWatch, create_watch, netVars
  <2>2. last_watch_id_ \in Nat /\ MaxWatch \in Nat
    BY CacheWatchAssumption DEF TypeOK
  <2>3. n \in WatchIds /\ n # 0 /\ n > last_watch_id_ /\ n \notin watch_map_
    BY <2>1, <2>2 DEF WatchIds, WatchShape
  <2>4. ~Listed' /\ Arriving' = <<>>
    BY <2>1 DEF Listed, Arriving, Exchange
  <2>5. CASE Session' = 0
    BY <2>4, <2>5 DEF Delivery
  <2>6. CASE Session' # 0
    <3>1. Session' = n /\ \A v \in 1..(n - 1) : applied[v] = <<>>
      BY <2>1, <2>6 DEF Session
    <3>2. \A v \in WatchIds : applied[v] = <<>>
      <4> SUFFICES ASSUME NEW v \in WatchIds PROVE applied[v] = <<>>
        OBVIOUS
      <4>1. v \in 1..(n - 1) \/ v > last_watch_id_
        BY <2>2 DEF WatchIds
      <4>. QED
        BY <3>1, <4>1 DEF WatchShape
    <3>3. ackSequence = 0
      BY <3>2 DEF Numbered
    <3>4. /\ pushed[n] = <<>> /\ applied[n] = <<>> /\ updated_list_[n] = <<>>
          /\ wait_updated_list_[n] = <<>> /\ sequence_[n] = 0
      BY <2>3 DEF WatchShape
    <3>5. Owed(Session)' = <<>>
      BY <2>1, <3>1, <3>3, <3>4, SeqAlgebra DEF Owed
    <3>6. <<>> \o <<>> = <<>> /\ <<>> \in Seq(Ids)
      BY SeqAlgebra
    <3>7. \E rest \in Seq(Ids) : pushed'[n] = (applied'[n] \o Arriving') \o rest
      BY <2>1, <2>4, <3>4, <3>6
    <3>8. \A q \in Peers : ~(req'[q] # NULL /\ req'[q].watch = n)
      <4> SUFFICES ASSUME NEW q \in Peers, req[q] # NULL PROVE req[q].watch # n
        BY <2>1
      <4>1. req[q].watch <= last_watch_id_
        BY DEF WatchShape
      <4>. QED
        BY <2>2, <4>1
    <3>9. pushed'[n] = applied'[n] \o Owed(Session)'
      BY <2>1, <3>4, <3>5, <3>6
    <3>. QED
      BY <2>1, <2>4, <3>1, <3>3, <3>4, <3>7, <3>8, <3>9 DEF Delivery
  <2>. QED
    BY <2>5, <2>6
<1>8. ASSUME createWatch_lost PROVE Delivery'
  <2>1. /\ client = "create" /\ Reconnect
        /\ UNCHANGED <<updated_list_, wait_updated_list_, sequence_, req, reply, pushed>>
        /\ UNCHANGED <<watchId, applied, ackSequence>>
    BY <1>8 DEF createWatch_lost, netVars
  <2>2. Session = 0
    BY <2>1, SessionIs DEF WatchShape
  <2>3. sock' \in Peers
    BY DEF TypeOK
  <2>4. reply'[sock'] = NULL
    BY <2>1, <2>3 DEF Exchange
  <2>. QED
    BY <2>1, <2>2, <2>4, DeliveryFrame DEF Listed
<1>9. ASSUME checkWatch PROVE Delivery'
  <2>1. /\ req' = [req EXCEPT ![sock] = [watch |-> watchId, ack |-> ackSequence]]
        /\ UNCHANGED <<watch_map_, updated_list_, wait_updated_list_, sequence_, pushed>>
        /\ UNCHANGED <<watchId, applied, ackSequence>>
        /\ UNCHANGED <<reply, sock>>
    BY <1>9 DEF checkWatch, watchVars
  <2>2. Listed' = Listed
    BY <2>1 DEF Listed
  <2>3. \A q \in Peers : req'[q] # NULL => req'[q] = req[q] \/ req'[q].ack = ackSequence
    BY <1>0, <2>1 DEF TypeOK
  <2>. QED
    BY <1>4, <2>1, <2>2, <2>3
<1>10. ASSUME update PROVE Delivery'
  <2>1. /\ client = "await" /\ reply[sock] # NULL
        /\ UNCHANGED <<watch_map_, updated_list_, wait_updated_list_, sequence_, pushed>>
        /\ UNCHANGED <<req, sock, watchId>>
        /\ reply'[sock'] = NULL
    BY <1>0, <1>10 DEF update, watchVars, TypeOK
  <2>2. ~Listed' /\ Arriving' = <<>>
    BY <2>1 DEF Listed, Arriving
  <2>3. CASE reply[sock].kind # "list"
    BY <1>4, <1>10, <2>1, <2>2, <2>3 DEF update
  <2>4. CASE reply[sock].kind = "list"
    <3> DEFINE w == watchId
               l == reply[sock].list
    <3>1. w \in WatchIds /\ Listed /\ Arriving = l
      BY <2>1, <2>4, CacheWatchAssumption DEF WatchShape, TypeOK, WatchIds, Listed, Arriving
    <3>2. l \in Seq(Ids) /\ applied[w] \in Seq(Ids) /\ updated_list_[w] \in Seq(Ids)
      BY <2>1, <2>4, <3>1, RepliesType DEF TypeOK
    <3>3. /\ ackSequence' = reply[sock].sequence /\ applied'[w] = applied[w] \o l
          /\ \A v \in WatchIds : v # w => applied'[v] = applied[v]
      BY <1>10, <2>4, <3>1 DEF update, TypeOK
    <3>4. Session' = Session
      BY <1>10, <3>1, SessionKept
    <3>5. CASE Session = 0
      BY <2>2, <3>4, <3>5 DEF Delivery
    <3>6. CASE Session # 0
      <4>1. Session = w
        BY <3>6, SessionIs
      <4>2. PICK rest \in Seq(Ids) : pushed[w] = (applied[w] \o l) \o rest
        BY <3>1, <3>6, <4>1 DEF Delivery
      <4>3. applied'[w] \in Seq(Ids)
        BY <3>2, <3>3, SeqAlgebra
      <4>4. applied'[w] \o <<>> = applied'[w]
        BY <4>3, SeqAlgebra
      <4>5. \E r \in Seq(Ids) : pushed'[w] = (applied'[w] \o Arriving') \o r
        BY <2>1, <2>2, <3>3, <4>2, <4>4
      <4>6. ASSUME w \in watch_map_
            PROVE  /\ pushed'[w] = applied'[w] \o Owed(Session)'
                   /\ ackSequence' = sequence_'[w]
                   /\ \A q \in Peers : req'[q] # NULL /\ req'[q].watch = w => req'[q].ack <= ackSequence'
        <5>1. /\ reply[sock].sequence = sequence_[w] /\ l = wait_updated_list_[w]
              /\ ackSequence # sequence_[w] /\ ackSequence <= sequence_[w]
              /\ pushed[w] = applied[w] \o Owed(Session)
              /\ \A q \in Peers : req[q] # NULL /\ req[q].watch = w => req[q].ack <= ackSequence
          BY <3>1, <3>6, <4>1, <4>6 DEF Delivery
        <5>2. Owed(Session) = l \o updated_list_[w]
          BY <4>1, <5>1 DEF Owed
        <5>3. Owed(Session)' = updated_list_[w]
          BY <2>1, <3>2, <3>3, <3>4, <4>1, <5>1, SeqAlgebra DEF Owed
        <5>4. (applied[w] \o l) \o updated_list_[w] = applied[w] \o (l \o updated_list_[w])
          BY <3>2, Assoc, Zenon
        <5>5. pushed'[w] = applied'[w] \o Owed(Session)'
          BY <2>1, <3>3, <5>1, <5>2, <5>3, <5>4
        <5>6. \A q \in Peers : req'[q] # NULL /\ req'[q].watch = w => req'[q].ack <= ackSequence'
          <6> SUFFICES ASSUME NEW q \in Peers, req[q] # NULL, req[q].watch = w
                       PROVE  req[q].ack <= ackSequence'
            BY <2>1
          <6>1. req[q].ack \in Nat /\ ackSequence \in Nat /\ sequence_[w] \in Nat
            BY <3>1, CacheWatchAssumption DEF TypeOK, Requests, Seqs
          <6>2. req[q].ack <= ackSequence
            BY <5>1
          <6>. QED
            BY <3>3, <5>1, <6>1, <6>2
        <5>. QED
          BY <2>1, <3>3, <5>1, <5>5, <5>6
      <4>7. ackSequence' \in Nat
        BY CacheWatchAssumption DEF TypeOK, Seqs
      <4>8. w \in watch_map_' => ackSequence' <= sequence_'[w] /\ ackSequence' = sequence_'[w]
        BY <2>1, <4>6, <4>7
      <4>9. Session' = w /\ Session' # 0
        BY <3>4, <3>6, <4>1
      <4> HIDE DEF w, l
      <4>. QED
        BY <2>1, <2>2, <4>5, <4>6, <4>8, <4>9 DEF Delivery
    <3>. QED
      BY <3>5, <3>6
  <2>. QED
    BY <2>3, <2>4
<1>11. ASSUME checkWatch_refused \/ checkWatch_lost PROVE Delivery'
  <2>1. /\ CheckFailed /\ client = "await"
        /\ UNCHANGED <<watch_map_, updated_list_, wait_updated_list_, sequence_, pushed>>
        /\ UNCHANGED <<applied, ackSequence>>
        /\ \A q \in Peers : req'[q] # NULL => req'[q] = req[q]
    BY <1>0, <1>11 DEF checkWatch_refused, checkWatch_lost, watchVars, TypeOK
  <2>2. reply'[sock'] = NULL
    <3>1. sock' \in Peers
      BY DEF TypeOK
    <3>2. reply' = [reply EXCEPT ![sock] = NULL] 
      BY <1>11 DEF checkWatch_refused, checkWatch_lost
    <3>. QED
      BY <3>1, <3>2 DEF Exchange, TypeOK
  <2>3. ~Listed'
    BY <2>2 DEF Listed
  <2>4. CASE UNCHANGED watchId
    BY <1>4, <2>1, <2>3, <2>4
  <2>5. CASE watchId' = 0
    <3>1. Session' = 0
      BY <2>5 DEF Session
    <3>. QED
      BY <2>3, <3>1 DEF Delivery
  <2>. QED
    BY <2>1, <2>4, <2>5 DEF CheckFailed
<1>12. CASE UNCHANGED vars
  <2>1. Listed' = Listed
    BY <1>12 DEF Listed, vars, netVars, clientVars
  <2>. QED
    BY <1>4, <1>12, <2>1 DEF vars, watchVars, netVars, clientVars
<1>. QED
  BY <1>1, <1>2, <1>3, <1>5, <1>6, <1>7, <1>8, <1>9, <1>10, <1>11, <1>12 DEF Next, createWatch_refused

LEMMA WatchInvInit ==
  ASSUME Init
  PROVE  WatchInv
<1>1. TypeOK
  BY TypeInit
<1>2. Session = 0
  BY DEF Init, Session
<1>3. 1 \in Peers
  BY CacheWatchAssumption DEF Peers
<1>4. WatchShape /\ NoMissedWakeup /\ Handshake
  BY CacheWatchAssumption DEF Init, WatchShape, NoMissedWakeup, Handshake, WatchIds
<1>5. Exchange /\ Delivery
  BY <1>2, <1>3 DEF Init, Exchange, Delivery, Listed
<1>6. Numbered
  BY CacheWatchAssumption DEF Init, Numbered
<1>. QED
  BY <1>1, <1>4, <1>5, <1>6 DEF WatchInv

LEMMA WatchInvStep ==
  ASSUME WatchInv, [Next]_vars
  PROVE  WatchInv'
<1>1. TypeOK'
  BY TypeStep DEF WatchInv
<1>2. WatchShape'
  BY ShapeStep DEF WatchInv
<1>3. NoMissedWakeup' /\ Handshake'
  BY WakeupStep DEF WatchInv
<1>4. Exchange'
  BY ExchangeStep DEF WatchInv
<1>5. Numbered'
  BY NumberedStep DEF WatchInv
<1>6. Delivery'
  BY <1>1, DeliveryStep
<1>. QED
  BY <1>1, <1>2, <1>3, <1>4, <1>5, <1>6 DEF WatchInv

\* The inductive invariant: types, timers, the check under way on each connection,
\* sequence numbers, and where every id of the session is.
THEOREM WatchInvariant == Spec => []WatchInv
<1>1. Init => WatchInv
  BY WatchInvInit
<1>2. WatchInv /\ [Next]_vars => WatchInv'
  BY WatchInvStep
<1>. QED
  BY <1>1, <1>2, PTL DEF Spec

\* However many connections break and watches end, every variable of the
\* server, the connections and the client keeps its type.
THEOREM WatchTypes == Spec => []TypeOK
<1>1. WatchInv => TypeOK
  BY DEF WatchInv
<1>. QED
  BY <1>1, WatchInvariant, PTL

\* No interleaving of check_watch_and_set_callback, the arming of the timer,
\* on_cache_watch_notify and handle_timer loses a wakeup.
THEOREM NoWakeupIsMissed == Spec => []NoMissedWakeup
<1>1. WatchInv => NoMissedWakeup
  BY DEF WatchInv
<1>. QED
  BY <1>1, WatchInvariant, PTL

\* Every id pushed to the watch of the session was dropped by the client or is
\* still held for it by Cache_Watch, in the order of the changes.
THEOREM NoChangeIsLost == Spec => []NothingLost
<1>1. WatchInv => NothingLost
  BY DEF WatchInv, Delivery, NothingLost
<1>. QED
  BY <1>1, WatchInvariant, PTL
-----------------------------------------------------------------------------
(* The protocol implements the channel.                                    *)

LEMMA ChannelStutter ==
  ASSUME TypeOK, WatchShape, UNCHANGED <<watchId, applied>>,
         Session # 0 => pushed'[Session] = pushed[Session]
  PROVE  UNCHANGED <<Session, Sent, Received>>
<1>1. Session' = Session
  BY DEF Session
<1>. QED
  BY <1>1 DEF Sent, Received

LEMMA ChannelStep ==
  ASSUME WatchInv, WatchInv', [Next]_vars
  PROVE  [Channel!Next]_<<Session, Sent, Received>>
<1> USE DEF WatchInv
<1>0. Session # 0 => Session \in WatchIds
  BY SessionIs
<1>1. ASSUME NEW w \in WatchIds, Change(w) PROVE [Channel!Next]_<<Session, Sent, Received>>
  <2> DEFINE id == Len(pushed[w]) + 1
  <2>1. /\ pushed'[w] = Append(pushed[w], id)
        /\ \A v \in WatchIds : v # w => pushed'[v] = pushed[v]
        /\ UNCHANGED <<watchId, applied>>
    BY <1>1 DEF Change, notify_watch, TypeOK, clientVars
  <2>2. CASE Session # w
    BY <1>0, <2>1, <2>2, ChannelStutter
  <2>3. CASE Session = w
    <3>1. Session' = Session /\ Session # 0
      BY <2>1, <2>3, CacheWatchAssumption DEF Session, WatchIds
    <3>2. pushed[w] \in Seq(Ids)
      BY DEF TypeOK
    <3>3. id \in Ids
      BY <1>1, <3>2, CacheWatchAssumption DEF Change, Ids
    <3>4. Sent' = Append(Sent, id) /\ Received' = Received
      BY <2>1, <2>3, <3>1 DEF Sent, Received
    <3>. QED
      BY <3>1, <3>3, <3>4 DEF Channel!Next, Channel!Push
  <2>. QED
    BY <2>2, <2>3
<1>2. ASSUME update PROVE [Channel!Next]_<<Session, Sent, Received>>
  <2>1. /\ client = "await" /\ reply[sock] # NULL /\ UNCHANGED <<watchId, pushed>>
    BY <1>2 DEF update
  <2>2. CASE reply[sock].kind # "list"
    BY <1>2, <2>1, <2>2, ChannelStutter DEF update
  <2>3. CASE reply[sock].kind = "list"
    <3> DEFINE w == watchId
               l == reply[sock].list
    <3>1. w \in WatchIds /\ Listed /\ Arriving = l
      BY <2>1, <2>3, CacheWatchAssumption DEF WatchShape, TypeOK, WatchIds, Listed, Arriving
    <3>2. Session' = Session
      BY <1>2, <3>1, SessionKept
    <3>3. CASE Session = 0
      BY <3>2, <3>3 DEF Sent, Received
    <3>4. CASE Session # 0
      <4>1. Session = w /\ Session' = w
        BY <3>2, <3>4, SessionIs
      <4>2. /\ l \in Seq(Ids) /\ l # <<>> /\ applied[w] \in Seq(Ids)
        BY <2>1, <2>3, <3>1, RepliesType DEF TypeOK, Delivery
      <4>3. applied'[w] = applied[w] \o l
        BY <1>2, <2>3, <3>1 DEF update, TypeOK
      <4>4. PICK rest \in Seq(Ids) : pushed[w] = (applied[w] \o l) \o rest
        BY <3>1, <3>4, <4>1 DEF Delivery
      <4>5. Sent = pushed[w] /\ Sent' = Sent /\ Received = applied[w] /\ Received' = applied[w] \o l
        BY <2>1, <3>4, <4>1, <4>3 DEF Sent, Received
      <4>6. applied[w] \o l \in Seq(Ids)
        BY <4>2, SeqAlgebra
      <4> DEFINE a == applied[w] \o l
                 n == Len(a)
      <4>7. n = Len(applied[w]) + Len(l) /\ Len(l) \in Nat \ {0} /\ Len(applied[w]) \in Nat
        BY <4>2, ConcatProperties, EmptySeq
      <4>8. Len(pushed[w]) = n + Len(rest) /\ Len(rest) \in Nat
        BY <4>4, <4>6, ConcatProperties
      <4>9. n \in (Len(applied[w]) + 1)..Len(pushed[w])
        <5> HIDE DEF n, l
        <5>. QED
          BY <4>7, <4>8
      <4>10. SubSeq(pushed[w], 1, n) = a
        <5>1. 1 \in 1..n /\ n \in 1..n
          <6> HIDE DEF n, l
          <6>. QED
            BY <4>7
        <5>2. SubSeq(a \o rest, 1, n) = SubSeq(a, 1, n)
          BY <4>6, <5>1, SubSeqOfConcat1
        <5>3. SubSeq(a, 1, n) = a
          BY <4>6, SubSeqFull
        <5>. QED
          BY <4>4, <5>2, <5>3
      <4>. QED
        BY <3>2, <4>5, <4>9, <4>10 DEF Channel!Next, Channel!Deliver
    <3>. QED
      BY <3>3, <3>4
  <2>. QED
    BY <2>2, <2>3
<1>3. ASSUME createWatch PROVE [Channel!Next]_<<Session, Sent, Received>>
  <2> DEFINE n == last_watch_id_ + 1
  <2>1. /\ client = "create" /\ last_watch_id_ < MaxWatch /\ watchId' = n
        /\ UNCHANGED <<pushed, applied>>
    BY <1>3 DEF createWatch, create_watch
  <2>2. last_watch_id_ \in Nat /\ MaxWatch \in Nat
    BY CacheWatchAssumption DEF TypeOK
  <2>3. n \in WatchIds /\ n # 0 /\ n > last_watch_id_ /\ n \in Nat
    BY <2>1, <2>2 DEF WatchIds
  <2>4. pushed[n] = <<>> /\ applied[n] = <<>>
    BY <2>3 DEF WatchShape
  <2>5. Session = 0
    BY <2>1, SessionIs DEF WatchShape
  <2>6. CASE Session' = 0
    BY <2>5, <2>6 DEF Sent, Received
  <2>7. CASE Session' # 0
    <3>1. Session' = n
      BY <2>1, <2>7 DEF Session
    <3>2. Sent' = <<>> /\ Received' = <<>>
      BY <2>1, <2>4, <3>1 DEF Sent, Received
    <3>. QED
      BY <2>3, <2>5, <3>1, <3>2 DEF Channel!Next, Channel!Restart
  <2>. QED
    BY <2>6, <2>7
<1>4. ASSUME checkWatch_refused \/ checkWatch_lost
      PROVE  [Channel!Next]_<<Session, Sent, Received>>
  <2>1. CheckFailed /\ UNCHANGED <<pushed, applied>>
    BY <1>4 DEF checkWatch_refused, checkWatch_lost
  <2>2. CASE UNCHANGED watchId
    BY <2>1, <2>2, ChannelStutter
  <2>3. CASE watchId' = 0
    <3>1. Session' = 0
      BY <2>3 DEF Session
    <3>2. Sent' = <<>> /\ Received' = <<>>
      BY <3>1 DEF Sent, Received
    <3>3. CASE Session = 0
      BY <3>1, <3>3 DEF Sent, Received
    <3>4. CASE Session # 0
      BY <3>1, <3>2, <3>4 DEF Channel!Next, Channel!Restart
    <3>. QED
      BY <3>3, <3>4
  <2>. QED
    BY <2>1, <2>2, <2>3 DEF CheckFailed
<1>5. ASSUME UNCHANGED <<watchId, applied, pushed>> PROVE [Channel!Next]_<<Session, Sent, Received>>
  BY <1>5, ChannelStutter
<1>6. ASSUME NEW p \in Peers,
             process_check_watch(p) \/ arm_timer(p) \/ timer_expires(p) \/ handle_timer(p)
      PROVE  [Channel!Next]_<<Session, Sent, Received>>
  BY <1>5, <1>6 DEF process_check_watch, arm_timer, timer_expires, handle_timer, clientVars
<1>7. ASSUME NEW w \in WatchIds, expire_watchs(w) PROVE [Channel!Next]_<<Session, Sent, Received>>
  BY <1>5, <1>7 DEF expire_watchs, clientVars
<1>8. ASSUME createWatch_refused \/ createWatch_lost \/ checkWatch
      PROVE  [Channel!Next]_<<Session, Sent, Received>>
  BY <1>5, <1>8 DEF createWatch_refused, createWatch_lost, checkWatch, vars, clientVars
<1>9. CASE UNCHANGED vars
  BY <1>5, <1>9 DEF vars, clientVars
<1>. QED
  BY <1>1, <1>2, <1>3, <1>4, <1>6, <1>7, <1>8, <1>9 DEF Next

\* Server, connections and client implement WatchChannel: within a session the
\* ids arrive in the order of the changes and exactly once, whatever breaks.
THEOREM ImplementsChannel == Spec => ChannelSpec
<1>1. Init => Channel!Init
  BY DEF Init, Channel!Init, Session, Sent, Received
<1>2. WatchInv /\ WatchInv' /\ [Next]_vars => [Channel!Next]_<<Session, Sent, Received>>
  BY ChannelStep
<1>. QED
  BY <1>1, <1>2, WatchInvariant, PTL DEF Spec, ChannelSpec, Channel!Spec, Channel!channelVars
=============================================================================
