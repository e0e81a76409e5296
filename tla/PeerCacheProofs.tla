-------------------------- MODULE PeerCacheProofs --------------------------
(***************************************************************************)
(* Proofs about a connection of the binary protocol, for any sequence of   *)
(* requests and any way their bytes are cut and their replies collected.   *)
(***************************************************************************)
EXTENDS PeerCache, DataLemmas

RequestSize(k) == (IF HasFixed(k) THEN 2 ELSE 1) + BodyLength[k]
Sizes == [n \in 1..Len(sent) |-> RequestSize(sent[n])]

\* What the loop still has to take of the request it is reading.
Left ==
    CASE state_ = "fixed" -> 1 + BodyLength[sent[cur]]
      [] state_ \in {"extras", "extras2"} -> next_data_len_
      [] state_ = "swallow" \/ (state_ = "write" /\ next_state_ = "swallow") -> swallow_size_
      [] OTHER -> 0

\* The requests that have a reply, sent or not.
Answered ==
    IF state_ \in {"fixed", "extras", "extras2", "wait"} THEN cur - 1 ELSE cur

Outgoing == IF op = "write" THEN writing ELSE write_buf_

\* Where the handlers are, and what is under way for each.
Control ==
    /\ pc # "idle" => alive /\ op = "none"
    /\ ~alive => op = "none"
    /\ state_ = "wait" => op = "none"
    /\ op # "none" => write_buf_ = <<>>
    /\ NeverOrphaned
    /\ state_ # "write" => next_state_ = "new_cmd"
    /\ next_state_ \in {"new_cmd", "swallow", "closing"}
    /\ (state_ \in {"new_cmd", "swallow"} /\ pc # "behind") => write_buf_ = <<>>
    /\ (state_ \in {"new_cmd", "header", "swallow"} /\ pc = "process")
          => process_reqest_count < BatchLimit

\* The request being read is of a kind its state is for.
Parts ==
    /\ cur <= Len(sent)
    /\ state_ \in {"fixed", "extras", "extras2", "wait", "write", "swallow"} => cur >= 1
    /\ state_ = "header" => (next_data_len_ >= 1 \/ Have >= 1)
    /\ state_ = "fixed" => HasFixed(sent[cur]) /\ next_data_len_ = 1
    /\ state_ = "extras" => sent[cur] \in {"update", "empty"} /\ next_data_len_ <= BodyLength[sent[cur]]
    /\ state_ = "extras2" => sent[cur] \in {"get", "get_long"} /\ next_data_len_ = BodyLength[sent[cur]]
    /\ state_ = "wait" => sent[cur] = "check"
    /\ (state_ = "swallow" \/ next_state_ = "swallow") =>
         sent[cur] = "update" /\ swallow_size_ <= BodyLength[sent[cur]]

Framing == Parts /\ Aligned(read_buffer_ \o net, Sizes, cur, Left, ~broken)

\* A check that is not answered is the only request that is not.
Alone ==
    \A n \in 1..Len(sent) :
        (sent[n] = "check" /\ n > Len(received)) => (n = Len(sent) /\ Len(received) = n - 1)

\* The replies collected and those being written follow those received; each
\* is in a slot of its own that still holds it.
Replies ==
    /\ Len(received) <= Len(sent) /\ Len(sent) <= MaxReq
    /\ RepliesInOrder
    /\ Alone
    /\ alive => Len(received) + Len(Outgoing) = Answered
    /\ alive => \A i \in 1..Len(Outgoing) : Outgoing[i].req = Len(received) + i
    /\ offset_ <= Answered
    /\ \A i \in 1..Len(Outgoing) :
          /\ Outgoing[i].slot <= offset_ /\ cache_buf_[Outgoing[i].slot] = Outgoing[i].req
          /\ Outgoing[i].item => Outgoing[i].req \in cache_items_

PeerInv == TypeOK /\ Control /\ Framing /\ Replies
-----------------------------------------------------------------------------
(* Requests in the stream.                                                 *)

LEMMA Bodies ==
  /\ \A k \in Kinds : BodyLength[k] \in 0..4 /\ RequestSize(k) \in 1..6
  /\ BodyLength["update"] = 2 /\ BodyLength["empty"] = 0 /\ BodyLength["get"] = 1
  /\ BodyLength["get_long"] = 4 /\ BodyLength["flush"] = 0 /\ BodyLength["check"] = 0
  /\ BodyLength["hello"] = 0 /\ BodyLength["bad"] = 0
  BY PeerCacheAssumption DEF BodyLength, RequestSize, HasFixed

LEMMA TokensOf ==
  ASSUME NEW n \in Nat, NEW k \in Kinds
  PROVE  /\ Tokens(n, k) \in Seq(Nat \X Nat)
         /\ Len(Tokens(n, k)) = RequestSize(k)
         /\ \A i \in 1..RequestSize(k) : Tokens(n, k)[i] = <<n, i>>
<1>1. Tokens(n, k) = [i \in 1..RequestSize(k) |-> <<n, i>>] /\ RequestSize(k) \in Nat
  BY Bodies DEF Tokens, RequestSize
<1> DEFINE f == [i \in 1..RequestSize(k) |-> <<n, i>>]
<1>2. f \in [1..RequestSize(k) -> Nat \X Nat]
  <2>1. \A i \in 1..RequestSize(k) : <<n, i>> \in Nat \X Nat
    BY <1>1
  <2>. QED
    BY <2>1
<1>3. \A i \in 1..RequestSize(k) : f[i] = <<n, i>>
  OBVIOUS
<1> HIDE DEF f
<1>4. f \in Seq(Nat \X Nat) /\ Len(f) = RequestSize(k)
  BY <1>1, <1>2
<1>. QED
  BY <1>1, <1>3, <1>4 DEF f

-----------------------------------------------------------------------------
(* Control.                                                                *)

LEMMA Facts ==
  ASSUME TypeOK
  PROVE  /\ sent \in Seq(Kinds) /\ Len(sent) \in Nat
         /\ received \in Seq(0..MaxReq) /\ Len(received) \in Nat
         /\ net \in Seq(Nat \X Nat) /\ read_buffer_ \in Seq(Nat \X Nat)
         /\ Have \in Nat /\ Len(net) \in Nat
         /\ cur \in Nat /\ next_data_len_ \in Nat /\ swallow_size_ \in Nat /\ offset_ \in Nat
         /\ write_buf_ \in Seq(Reply) /\ writing \in Seq(Reply)
         /\ Len(write_buf_) \in Nat /\ Len(writing) \in Nat
         /\ MaxReq \in Nat /\ process_reqest_count \in Nat
<1>1. /\ sent \in Seq(Kinds) /\ received \in Seq(0..MaxReq)
      /\ write_buf_ \in Seq(Reply) /\ writing \in Seq(Reply)
  BY DEF TypeOK
<1>2. net \in Seq(Reqs \X (1..6)) /\ read_buffer_ \in Seq(Reqs \X (1..6))
  BY DEF TypeOK
<1>3. \A S, T : S \subseteq T => Seq(S) \subseteq Seq(T)
  OBVIOUS
<1>4. (Reqs \X (1..6)) \subseteq (Nat \X Nat)
  BY DEF Reqs
<1>5. Seq(Reqs \X (1..6)) \subseteq Seq(Nat \X Nat)
  BY <1>3, <1>4
<1>6. MaxReq \in Nat /\ BatchLimit \in Nat
  BY PeerCacheAssumption
<1>7. cur \in Nat /\ next_data_len_ \in Nat /\ swallow_size_ \in Nat /\ offset_ \in Nat
      /\ process_reqest_count \in Nat
  BY <1>6 DEF TypeOK
<1>. QED
  BY <1>1, <1>2, <1>5, <1>6, <1>7 DEF Have

\* While a check waits there is nothing else to tell the client.
LEMMA WaitsAlone ==
  ASSUME TypeOK, Control, Parts, Replies, alive, state_ = "wait"
  PROVE  write_buf_ = <<>> /\ cur = Len(sent)
<1>1. op = "none" /\ Outgoing = write_buf_ /\ Answered = cur - 1
  BY DEF Control, Outgoing, Answered
<1>2. cur \in 1..Len(sent) /\ sent[cur] = "check"
  BY Facts DEF Parts
<1>3. Len(received) + Len(write_buf_) = cur - 1
  BY <1>1 DEF Replies
<1>4. cur > Len(received)
  BY <1>2, <1>3, Facts
<1>5. Len(received) = cur - 1 /\ cur = Len(sent)
  BY <1>2, <1>4 DEF Replies, Alone
<1>6. Len(write_buf_) = 0
  BY <1>3, <1>5, Facts
<1>. QED
  BY <1>5, <1>6, Facts

LEMMA ControlStep ==
  ASSUME TypeOK, Control, Parts, Replies, [Next]_vars
  PROVE  Control'
<1>0. 0 < BatchLimit /\ BatchLimit \in Nat
  BY PeerCacheAssumption
<1>1. ASSUME NEW k \in Kinds, Send(k) PROVE Control'
  BY <1>1 DEF Control, NeverOrphaned, Send, replyVars, readVars
<1>2. CASE Break
  BY <1>2 DEF Control, NeverOrphaned, Break, replyVars, readVars
<1>3. CASE Deliver
  BY <1>3 DEF Control, NeverOrphaned, Deliver, replyVars, readVars
<1>4. CASE handle_read
  BY <1>0, <1>4 DEF Control, NeverOrphaned, handle_read, Enter, replyVars
<1>5. CASE handle_write
  BY <1>0, <1>5 DEF Control, NeverOrphaned, handle_write, Enter, replyVars, readVars
<1>6. CASE handle_timer
  <2>1. write_buf_ = <<>> /\ op = "none"
    BY <1>6, WaitsAlone DEF handle_timer, Control
  <2>2. op' = "write" /\ write_buf_' = <<>>
    BY <1>6, <2>1 DEF handle_timer
  <2>. QED
    BY <1>6, <2>1, <2>2 DEF Control, NeverOrphaned, handle_timer
<1>7. CASE after_process
  <2>1. alive /\ (state_ = "wait" => write_buf_ = <<>>)
    BY <1>7, WaitsAlone DEF after_process, Control
  <2>2. CASE state_ # "closed" /\ try_write /\ UNCHANGED alive
    BY <1>7, <2>1, <2>2 DEF Control, NeverOrphaned, after_process, try_write
  <2>3. CASE state_ \notin {"closed", "wait"} /\ write_buf_ = <<>> /\ op' = "read" /\ UNCHANGED <<alive, writing, write_buf_>>
    BY <1>7, <2>1, <2>3 DEF Control, NeverOrphaned, after_process
  <2>4. CASE /\ state_ = "closed" \/ (state_ = "wait" /\ write_buf_ = <<>>)
             /\ alive' = (state_ = "wait") /\ UNCHANGED <<op, writing, write_buf_>>
    BY <1>7, <2>1, <2>4 DEF Control, NeverOrphaned, after_process
  <2>. QED
    BY <1>7, <2>2, <2>3, <2>4 DEF after_process
<1>8. CASE process
  <2>1. CASE reset_for_new_cmd
    BY <2>1 DEF Control, NeverOrphaned, reset_for_new_cmd, InLoop, LoopUnchanged
  <2>2. CASE process_header
    BY <2>2 DEF Control, NeverOrphaned, process_header, InLoop, LoopUnchanged, Unwritten, Answer,
                write_error, Put, replyVars
  <2>3. CASE process_pdu_fixed
    BY <2>3 DEF Control, NeverOrphaned, process_pdu_fixed, InLoop, LoopUnchanged, Unwritten, Answer,
                write_error, Put, replyVars, process_update_req_pdu_fixed,
                process_flush_req_pdu_fixed, process_check_watch_req_pdu_fixed
  <2>4. CASE process_pdu_extras2
    BY <2>4 DEF Control, NeverOrphaned, process_pdu_extras2, InLoop, LoopUnchanged, Answer,
                write_error, Put, process_get_req_pdu_extras, process_update_flags_req_pdu_extras
  <2>5. CASE process_pdu_extras
    BY <2>5 DEF Control, NeverOrphaned, process_pdu_extras, InLoop, LoopUnchanged, Answer,
                write_error, Put
  <2>6. CASE copy_extras
    BY <2>6 DEF Control, NeverOrphaned, copy_extras, InLoop, LoopUnchanged, replyVars
  <2>7. CASE swallow
    BY <2>7 DEF Control, NeverOrphaned, swallow, InLoop, LoopUnchanged, replyVars
  <2>8. CASE read_more
    BY <2>8 DEF Control, NeverOrphaned, read_more, InLoop, LoopUnchanged, replyVars
  <2>9. CASE read_extras
    BY <2>9 DEF Control, NeverOrphaned, read_extras, InLoop, LoopUnchanged, replyVars
  <2>10. CASE leave
    BY <2>10 DEF Control, NeverOrphaned, leave, InLoop, LoopUnchanged, replyVars
  <2>11. CASE write
    BY <2>11 DEF Control, NeverOrphaned, write, InLoop, LoopUnchanged, replyVars, Batched, next_request
  <2>12. CASE close
    BY <2>12 DEF Control, NeverOrphaned, close, InLoop, LoopUnchanged, replyVars
  <2>. QED
    BY <1>8, <2>1, <2>2, <2>3, <2>4, <2>5, <2>6, <2>7, <2>8, <2>9, <2>10, <2>11, <2>12 DEF process
<1>9. CASE Done \/ UNCHANGED vars
  BY <1>9 DEF Control, NeverOrphaned, Done, vars, replyVars
<1>. QED
  BY <1>1, <1>2, <1>3, <1>4, <1>5, <1>6, <1>7, <1>8, <1>9 DEF Next
-----------------------------------------------------------------------------
(* Replies.                                                                *)

LEMMA RepliesKept ==
  ASSUME Replies, UNCHANGED <<sent, received, cache_items_, cache_buf_, offset_>>, alive' => alive,
         Outgoing' = Outgoing, Answered' = Answered
  PROVE  Replies'
  BY DEF Replies, RepliesInOrder, Alone

\* A reply is collected in the next slot.
LEMMA Collected ==
  ASSUME TypeOK, Control, Replies, alive, op = "none", UNCHANGED <<sent, received, alive>>,
         NEW hit \in BOOLEAN, NEW c \in Nat, c = Answered + 1, c <= Len(sent), Answered \in Nat,
         NEW w, w = Append(write_buf_, [slot |-> offset_ + 1, req |-> c, item |-> hit]),
         offset_' = offset_ + 1, cache_buf_' = [cache_buf_ EXCEPT ![offset_ + 1] = c],
         cache_items_' = IF hit THEN cache_items_ \cup {c} ELSE cache_items_,
         Outgoing' = w, Answered' = c
  PROVE  Replies' /\ w \in Seq(Reply) /\ offset_ + 1 \in Reqs /\ c \in Reqs
<1> DEFINE e == [slot |-> offset_ + 1, req |-> c, item |-> hit]
           L == Len(write_buf_)
<1>1. Outgoing = write_buf_ /\ L \in Nat /\ offset_ \in Nat /\ Len(received) \in Nat /\ Len(sent) \in Nat
      /\ MaxReq \in Nat
  BY Facts DEF Outgoing
<1>2. Len(received) + L = Answered /\ offset_ <= Answered /\ Len(sent) <= MaxReq
  BY <1>1 DEF Replies
<1>3. offset_ + 1 \in Reqs /\ c \in Reqs /\ c = Len(received) + (L + 1)
  <2> HIDE DEF L
  <2>. QED
    BY <1>1, <1>2 DEF Reqs
<1>4. e \in Reply
  BY <1>3 DEF Reply
<1>5. /\ w \in Seq(Reply) /\ Len(w) = L + 1 /\ (\A i \in 1..L : w[i] = write_buf_[i]) /\ w[L + 1] = e
  <2> HIDE DEF e
  <2>1. w = Append(write_buf_, e) /\ write_buf_ \in Seq(Reply)
    BY Facts DEF e
  <2>. QED
    BY <1>4, <2>1, Appended
<1>6. /\ \A i \in 1..L : write_buf_[i].req = Len(received) + i
      /\ \A i \in 1..L : /\ write_buf_[i].slot <= offset_
                         /\ cache_buf_[write_buf_[i].slot] = write_buf_[i].req
                         /\ write_buf_[i].item => write_buf_[i].req \in cache_items_
  BY <1>1 DEF Replies
<1>7. \A i \in 1..L : write_buf_[i].slot \in Reqs
  <2>1. \A i \in 1..L : write_buf_[i] \in Reply
    BY Facts, SMTT(30)
  <2>. QED
    BY <2>1 DEF Reply
<1>8. e.slot = offset_ + 1 /\ e.req = c /\ (e.item <=> hit)
  OBVIOUS
<1>9. cache_buf_'[offset_ + 1] = c /\ \A s \in Reqs : s # offset_ + 1 => cache_buf_'[s] = cache_buf_[s]
  BY <1>3 DEF TypeOK
<1> HIDE DEF e, L
<1>10. \A i \in 1..(L + 1) : i \in 1..L \/ i = L + 1
  BY <1>1
<1>11. \A i \in 1..Len(w) : w[i].req = Len(received) + i
  BY <1>3, <1>5, <1>6, <1>8, <1>10
<1>12. ASSUME NEW i \in 1..Len(w)
       PROVE  /\ w[i].slot <= offset_' /\ cache_buf_'[w[i].slot] = w[i].req
              /\ w[i].item => w[i].req \in cache_items_'
  <2>1. CASE i \in 1..L
    <3>1. w[i] = write_buf_[i] /\ write_buf_[i].slot \in Reqs
      BY <1>5, <1>7, <2>1
    <3>2. write_buf_[i].slot <= offset_ /\ write_buf_[i].slot # offset_ + 1 /\ write_buf_[i].slot <= offset_ + 1
      BY <1>1, <1>6, <2>1, <3>1 DEF Reqs
    <3>3. cache_buf_'[write_buf_[i].slot] = write_buf_[i].req
      BY <1>6, <1>9, <2>1, <3>1, <3>2
    <3>4. write_buf_[i].item => write_buf_[i].req \in cache_items_'
      BY <1>6, <2>1
    <3>. QED
      BY <3>1, <3>2, <3>3, <3>4
  <2>2. CASE i = L + 1
    BY <1>1, <1>5, <1>8, <1>9, <2>2
  <2>. QED
    BY <1>5, <1>10, <2>1, <2>2
<1>13. RepliesInOrder' /\ Alone' /\ Len(received)' <= Len(sent)' /\ Len(sent)' <= MaxReq
  BY DEF Replies, RepliesInOrder, Alone
<1>14. Len(received) + Len(w) = c /\ offset_ + 1 <= c
  BY <1>1, <1>2, <1>3, <1>5
<1>. QED
  BY <1>3, <1>5, <1>11, <1>12, <1>13, <1>14 DEF Replies

\* The bytes of a write reach the client.
LEMMA Delivered ==
  ASSUME TypeOK, Control, Parts, Replies, Deliver
  PROVE  Replies' /\ received' \in Seq(0..MaxReq)
<1> DEFINE L == Len(writing)
           R == Len(received)
           d == [i \in 1..L |-> cache_buf_[writing[i].slot]]
<1>1. alive /\ Outgoing = writing /\ write_buf_ = <<>> /\ Outgoing' = <<>> /\ Answered' = Answered
  <2>1. /\ op = "write" /\ op' = "written" /\ write_buf_' = write_buf_ /\ state_' = state_
        /\ UNCHANGED <<cur, alive>>
    BY DEF Deliver, replyVars, readVars
  <2>2. alive /\ write_buf_ = <<>>
    BY <2>1 DEF Control
  <2>3. Outgoing = writing /\ Outgoing' = <<>>
    BY <2>1, <2>2 DEF Outgoing
  <2>4. Answered' = Answered
    BY <2>1 DEF Answered
  <2>. QED
    BY <2>2, <2>3, <2>4
<1>2. L \in Nat /\ R \in Nat /\ cur \in Nat /\ Len(sent) \in Nat /\ MaxReq \in Nat /\ received \in Seq(0..MaxReq)
  BY Facts
<1>3. /\ R + L = Answered /\ Answered <= cur /\ cur <= Len(sent) /\ Len(sent) <= MaxReq
      /\ offset_ <= Answered
  BY <1>1, <1>2 DEF Replies, Answered, Parts
<1>4. \A i \in 1..L : cache_buf_[writing[i].slot] = R + i
  BY <1>1 DEF Replies
<1>5. \A i \in 1..L : R + i \in 0..MaxReq
  <2> HIDE DEF L, R
  <2>. QED
    BY <1>2, <1>3 DEF Answered
<1>6. d \in Seq(0..MaxReq) /\ Len(d) = L /\ \A i \in 1..L : d[i] = R + i
  <2>1. d \in [1..L -> 0..MaxReq] /\ \A i \in 1..L : d[i] = R + i
    BY <1>4, <1>5
  <2> HIDE DEF d, L, R
  <2>2. d \in Seq(0..MaxReq) /\ Len(d) = L
    BY <1>2, <2>1
  <2>. QED
    BY <2>1, <2>2
<1>7. received' = received \o d
  BY DEF Deliver
<1> HIDE DEF d
<1>8. /\ received' \in Seq(0..MaxReq) /\ Len(received') = R + L
      /\ \A i \in 1..(R + L) : received'[i] = IF i <= R THEN received[i] ELSE d[i - R]
  <2>1. d \in Seq(0..MaxReq) /\ Len(d) = L
    BY <1>6
  <2> HIDE DEF L
  <2>2. /\ received \o d \in Seq(0..MaxReq) /\ Len(received \o d) = R + Len(d)
        /\ \A i \in 1..(R + Len(d)) : (received \o d)[i] = IF i <= R THEN received[i] ELSE d[i - R]
    BY <1>2, <2>1, Cat
  <2>. QED
    BY <1>7, <2>1, <2>2
<1> HIDE DEF L, R
<1>9. ASSUME NEW i \in 1..(R + L) PROVE received'[i] = i
  <2>1. CASE i <= R
    <3>1. i \in 1..R
      BY <1>2, <2>1
    <3>. QED
      BY <1>8, <2>1, <3>1 DEF Replies, RepliesInOrder, R
  <2>2. CASE ~(i <= R)
    <3>1. i - R \in 1..L /\ R + (i - R) = i
      BY <1>2, <2>2
    <3>. QED
      BY <1>6, <1>8, <2>2, <3>1
  <2>. QED
    BY <2>1, <2>2
<1>10. Len(received') <= Len(sent)
  BY <1>2, <1>3, <1>8 DEF Answered
<1>11. Alone'
  <2>1. SUFFICES ASSUME NEW n \in 1..Len(sent), sent[n] = "check", n > Len(received')
                 PROVE  n = Len(sent) /\ Len(received') = n - 1
    BY DEF Alone, Deliver
  <2>2. n > R /\ n \in Nat
    BY <1>2, <1>8, <2>1
  <2>3. n = Len(sent) /\ R = n - 1
    BY <2>1, <2>2 DEF Replies, Alone, R
  <2>. QED
    BY <1>2, <1>8, <2>1, <2>3
<1>12. alive' /\ sent' = sent /\ offset_' = offset_
  BY <1>1 DEF Deliver, replyVars
<1>13. RepliesInOrder'
  BY <1>8, <1>9 DEF RepliesInOrder
<1>14. Len(Outgoing') = 0 /\ Len(received') + 0 = Answered
  BY <1>1, <1>2, <1>3, <1>8
<1>. QED
  BY <1>1, <1>3, <1>8, <1>10, <1>11, <1>12, <1>13, <1>14 DEF Replies

\* handle_timer answers the check at once.
LEMMA TimerAnswers ==
  ASSUME TypeOK, Control, Parts, Replies, handle_timer
  PROVE  /\ Replies' /\ op' = "write" /\ write_buf_' = <<>> /\ writing' \in Seq(Reply)
         /\ offset_ + 1 \in Reqs /\ cur \in Reqs
<1> DEFINE w == Append(write_buf_, [slot |-> offset_ + 1, req |-> cur, item |-> FALSE])
<1>1. alive /\ state_ = "wait" /\ op = "none"
  BY DEF handle_timer, Control
<1>2. cur \in Nat /\ cur >= 1 /\ cur <= Len(sent)
  BY <1>1, Facts DEF Parts
<1>3. op' = "write" /\ write_buf_' = <<>> /\ writing' = w
  BY <1>1 DEF handle_timer
<1>4. Outgoing' = w
  BY <1>3 DEF Outgoing
<1>5. Answered = cur - 1 /\ Answered' = cur
  BY <1>1 DEF Answered, handle_timer
<1>6. Answered \in Nat /\ cur = Answered + 1
  BY <1>2, <1>5
<1>7. /\ offset_' = offset_ + 1 /\ cache_buf_' = [cache_buf_ EXCEPT ![offset_ + 1] = cur]
      /\ cache_items_' = IF FALSE THEN cache_items_ \cup {cur} ELSE cache_items_
      /\ UNCHANGED <<sent, received, alive>>
  BY DEF handle_timer, streamVars
<1> HIDE DEF w
<1>8. w = Append(write_buf_, [slot |-> offset_ + 1, req |-> cur, item |-> FALSE])
  BY DEF w
<1>9. FALSE \in BOOLEAN
  OBVIOUS
<1>10. Replies' /\ w \in Seq(Reply) /\ offset_ + 1 \in Reqs /\ cur \in Reqs
  BY <1>1, <1>2, <1>4, <1>5, <1>6, <1>7, <1>8, <1>9, Collected
<1>. QED
  BY <1>3, <1>10

\* A step of the loop that puts a reply.
LEMMA PutAnswers ==
  ASSUME TypeOK, Control, Replies, alive, op = "none", LoopUnchanged, NEW hit \in BOOLEAN, Put(hit),
         cur' \in Nat, cur' = Answered + 1, cur' <= Len(sent), Answered \in Nat, Answered' = cur'
  PROVE  Replies' /\ write_buf_' \in Seq(Reply) /\ offset_ + 1 \in Reqs /\ cur' \in Reqs
<1>1. op' = "none" /\ UNCHANGED <<sent, received, alive>>
  BY DEF LoopUnchanged
<1>2. Outgoing' = write_buf_'
  BY <1>1 DEF Outgoing
<1>3. PICK c \in Nat : c = cur'
  OBVIOUS
<1>4. /\ offset_' = offset_ + 1 /\ cache_buf_' = [cache_buf_ EXCEPT ![offset_ + 1] = c]
      /\ write_buf_' = Append(write_buf_, [slot |-> offset_ + 1, req |-> c, item |-> hit])
      /\ cache_items_' = IF hit THEN cache_items_ \cup {c} ELSE cache_items_
  BY <1>3 DEF Put
<1>5. c = Answered + 1 /\ c <= Len(sent) /\ Answered' = c
  BY <1>3
<1>6. Replies' /\ write_buf_' \in Seq(Reply) /\ offset_ + 1 \in Reqs /\ c \in Reqs
  BY <1>1, <1>2, <1>4, <1>5, Collected
<1>. QED
  BY <1>3, <1>6
-----------------------------------------------------------------------------
(* Framing.                                                                *)

LEMMA SizesType ==
  ASSUME sent \in Seq(Kinds)
  PROVE  /\ Sizes \in Seq(1..6) /\ Len(Sizes) = Len(sent)
         /\ \A n \in 1..Len(sent) : Sizes[n] = RequestSize(sent[n]) /\ sent[n] \in Kinds
<1>1. Len(sent) \in Nat /\ \A n \in 1..Len(sent) : sent[n] \in Kinds
  OBVIOUS
<1>2. Sizes \in [1..Len(sent) -> 1..6]
  BY <1>1, Bodies DEF Sizes
<1>3. \A n \in 1..Len(sent) : Sizes[n] = RequestSize(sent[n])
  BY DEF Sizes
<1>4. Sizes \in Seq(1..6) /\ Len(Sizes) = Len(sent)
  BY <1>1, <1>2
<1>. QED
  BY <1>1, <1>3, <1>4

\* A request that is not read to its end has its header behind it.
LEMMA LeftBound ==
  ASSUME TypeOK, Parts
  PROVE  /\ Left \in Nat
         /\ Left > 0 => cur \in 1..Len(sent) /\ Left < Sizes[cur]
<1>0. cur \in Nat /\ next_data_len_ \in Nat /\ swallow_size_ \in Nat /\ sent \in Seq(Kinds) /\ Len(sent) \in Nat
  BY Facts
<1>1. cur >= 1 => cur \in 1..Len(sent)
  BY <1>0 DEF Parts
<1>2. cur >= 1 => sent[cur] \in Kinds /\ Sizes[cur] = RequestSize(sent[cur]) /\ BodyLength[sent[cur]] \in Nat
  <2>1. cur >= 1 => sent[cur] \in Kinds /\ Sizes[cur] = RequestSize(sent[cur])
    BY <1>0, <1>1, SizesType
  <2>. QED
    BY <2>1, Bodies
<1>3. cur >= 1 /\ HasFixed(sent[cur]) => Sizes[cur] = 2 + BodyLength[sent[cur]]
  BY <1>2 DEF RequestSize
<1>4. CASE state_ = "fixed"
  <2>1. Left = 1 + BodyLength[sent[cur]] /\ cur >= 1 /\ HasFixed(sent[cur])
    BY <1>4 DEF Left, Parts
  <2>. QED
    BY <1>1, <1>2, <1>3, <2>1
<1>5. CASE state_ \in {"extras", "extras2"}
  <2>1. Left = next_data_len_ /\ cur >= 1 /\ next_data_len_ <= BodyLength[sent[cur]] /\ HasFixed(sent[cur])
    BY <1>0, <1>2, <1>5 DEF Left, Parts, HasFixed
  <2>. QED
    BY <1>0, <1>1, <1>2, <1>3, <2>1
<1>6. CASE state_ = "swallow" \/ (state_ = "write" /\ next_state_ = "swallow")
  <2>1. Left = swallow_size_ /\ cur >= 1 /\ swallow_size_ <= BodyLength[sent[cur]] /\ HasFixed(sent[cur])
    BY <1>0, <1>2, <1>6 DEF Left, Parts, HasFixed
  <2>. QED
    BY <1>0, <1>1, <1>2, <1>3, <2>1
<1>7. CASE /\ state_ \notin {"fixed", "extras", "extras2", "swallow"}
           /\ ~(state_ = "write" /\ next_state_ = "swallow")
  BY <1>7 DEF Left
<1>. QED
  BY <1>4, <1>5, <1>6, <1>7

\* Nothing is read, or what is read only moves into the buffer.
LEMMA FrameKept ==
  ASSUME TypeOK, Framing, UNCHANGED <<sent, broken, cur>>,
         read_buffer_' \o net' = read_buffer_ \o net, Left' = Left, Parts'
  PROVE  Framing'
<1>1. Sizes' = Sizes
  BY DEF Sizes
<1>2. Aligned(read_buffer_ \o net, Sizes, cur, Left, ~broken)
  BY DEF Framing
<1>3. Aligned(read_buffer_' \o net', Sizes', cur', Left', ~broken')
  BY <1>1, <1>2
<1>. QED
  BY <1>3 DEF Framing, Aligned, Cuts, Expected

LEMMA BytesMove ==
  ASSUME TypeOK, NEW n \in 1..Len(net), read_buffer_' = read_buffer_ \o SubSeq(net, 1, n),
         net' = SubSeq(net, n + 1, Len(net))
  PROVE  /\ read_buffer_' \o net' = read_buffer_ \o net
         /\ Len(read_buffer_') >= 1 /\ Len(read_buffer_') >= Have
         /\ read_buffer_' \in Seq(Reqs \X (1..6)) /\ net' \in Seq(Reqs \X (1..6))
<1> DEFINE S == Reqs \X (1..6)
<1>1. net \in Seq(S) /\ read_buffer_ \in Seq(S) /\ n \in 0..Len(net)
  BY DEF TypeOK
<1> HIDE DEF S
<1>2. read_buffer_' \o net' = read_buffer_ \o net
  BY <1>1, Moved
<1>3. SubSeq(net, 1, n) \in Seq(S) /\ Len(SubSeq(net, 1, n)) = n /\ net' \in Seq(S)
  BY <1>1, Prefix, Suffix
<1>4. read_buffer_' \in Seq(S) /\ Len(read_buffer_') = Len(read_buffer_) + n
  BY <1>1, <1>3, Cat
<1>5. Len(read_buffer_) \in Nat /\ n \in Nat /\ n >= 1
  BY <1>1
<1>6. Len(read_buffer_') >= 1 /\ Len(read_buffer_') >= Have
  BY <1>4, <1>5 DEF Have
<1>. QED
  BY <1>2, <1>3, <1>4, <1>6 DEF S

LEMMA Consumed ==
  ASSUME TypeOK, NEW n \in Nat, n <= Have, Consume(n), net' = net
  PROVE  /\ read_buffer_' \in Seq(Reqs \X (1..6))
         /\ Len(read_buffer_') = Have - n
         /\ read_buffer_' \o net' = SubSeq(read_buffer_ \o net, n + 1, Len(read_buffer_ \o net))
<1> DEFINE S == Reqs \X (1..6)
<1>1. net \in Seq(S) /\ read_buffer_ \in Seq(S) /\ n \in 0..Len(read_buffer_)
  BY DEF TypeOK, Have
<1>2. read_buffer_' = SubSeq(read_buffer_, n + 1, Len(read_buffer_))
  BY DEF Consume, Have
<1> HIDE DEF S
<1>3. read_buffer_' \in Seq(S) /\ Len(read_buffer_') = Len(read_buffer_) - n
  BY <1>1, <1>2, Suffix
<1>4. read_buffer_' \o net' = SubSeq(read_buffer_ \o net, n + 1, Len(read_buffer_ \o net))
  BY <1>1, <1>2, TakenOff
<1>. QED
  BY <1>3, <1>4 DEF S, Have

LEMMA Pending ==
  ASSUME TypeOK
  PROVE  /\ read_buffer_ \o net \in Seq(Nat \X Nat)
         /\ Len(read_buffer_ \o net) = Have + Len(net)
         /\ Have > 0 => (read_buffer_ \o net)[1] = Head(read_buffer_)
<1>1. read_buffer_ \in Seq(Nat \X Nat) /\ net \in Seq(Nat \X Nat) /\ Have \in Nat /\ Len(net) \in Nat
  BY Facts
<1>2. /\ read_buffer_ \o net \in Seq(Nat \X Nat) /\ Len(read_buffer_ \o net) = Len(read_buffer_) + Len(net)
      /\ \A i \in 1..(Len(read_buffer_) + Len(net)) :
            (read_buffer_ \o net)[i] = IF i <= Len(read_buffer_) THEN read_buffer_[i]
                                       ELSE net[i - Len(read_buffer_)]
  BY <1>1, Cat
<1>3. Have > 0 => (read_buffer_ \o net)[1] = read_buffer_[1]
  <2>1. Have > 0 => 1 \in 1..(Len(read_buffer_) + Len(net)) /\ 1 <= Len(read_buffer_)
    BY <1>1 DEF Have
  <2>. QED
    BY <1>2, <2>1
<1>4. Have > 0 => Head(read_buffer_) = read_buffer_[1]
  BY <1>1 DEF Have
<1>. QED
  BY <1>2, <1>3, <1>4 DEF Have

\* n tokens of the request being read are taken from the buffer.
LEMMA BodyTaken ==
  ASSUME TypeOK, Framing, UNCHANGED <<sent, broken, cur>>, Left > 0,
         NEW n \in Nat \ {0}, n <= Left, n <= Len(read_buffer_ \o net),
         read_buffer_' \o net' = SubSeq(read_buffer_ \o net, n + 1, Len(read_buffer_ \o net)),
         Left' = Left - n, Parts'
  PROVE  Framing'
<1>1. sent \in Seq(Kinds) /\ read_buffer_ \o net \in Seq(Nat \X Nat)
  BY Facts, Pending
<1>2. Sizes \in Seq(1..6) /\ Len(Sizes) = Len(sent) /\ Sizes' = Sizes
  BY <1>1, SizesType DEF Sizes
<1>3. cur \in 1..Len(Sizes) /\ Left \in Nat /\ Left < Sizes[cur] /\ (~broken) \in BOOLEAN
  BY <1>2, LeftBound DEF Framing
<1>4. Aligned(read_buffer_ \o net, Sizes, cur, Left, ~broken)
  BY DEF Framing
<1>5. Aligned(SubSeq(read_buffer_ \o net, n + 1, Len(read_buffer_ \o net)), Sizes, cur, Left - n, ~broken)
  BY <1>1, <1>2, <1>3, <1>4, TakeBody
<1>6. Aligned(read_buffer_' \o net', Sizes', cur', Left', ~broken')
  BY <1>2, <1>5
<1>. QED
  BY <1>6 DEF Framing, Aligned, Cuts, Expected

\* The header in front is that of the request behind the one that is done.
LEMMA NextHeader ==
  ASSUME TypeOK, Framing, process_header
  PROVE  /\ cur' = cur + 1 /\ cur + 1 \in 1..Len(sent) /\ UNCHANGED <<sent, broken, net>>
         /\ read_buffer_' \in Seq(Reqs \X (1..6))
         /\ Aligned(read_buffer_' \o net', Sizes, cur + 1, Sizes[cur + 1] - 1, ~broken)
<1> DEFINE p == read_buffer_ \o net
<1>1. state_ = "header" /\ Have >= next_data_len_ /\ UNCHANGED <<sent, broken, net>>
  BY DEF process_header, InLoop, LoopUnchanged
<1>2. Have >= 1 /\ Have > 0
  BY <1>1, Facts DEF Framing, Parts
<1>3. p \in Seq(Nat \X Nat) /\ Len(p) >= 1 /\ p[1] = Head(read_buffer_)
  <2>1. p \in Seq(Nat \X Nat) /\ Len(p) = Have + Len(net) /\ p[1] = Head(read_buffer_)
    BY <1>2, Pending
  <2>. QED
    BY <1>2, <2>1, Facts
<1>4. sent \in Seq(Kinds) /\ Sizes \in Seq(1..6) /\ Len(Sizes) = Len(sent) /\ cur \in Nat
  BY Facts, SizesType
<1>5. Aligned(p, Sizes, cur, 0, ~broken) /\ (~broken) \in BOOLEAN
  <2>1. Left = 0
    BY <1>1 DEF Left
  <2>. QED
    BY <2>1 DEF Framing
<1>6. Consume(1) /\ cur' = Head(read_buffer_)[1]
  BY DEF process_header
<1>7. read_buffer_' \in Seq(Reqs \X (1..6)) /\ read_buffer_' \o net' = SubSeq(p, 2, Len(p))
  <2>1. 1 \in Nat /\ 1 <= Have /\ net' = net
    BY <1>1, <1>2
  <2>2. /\ read_buffer_' \in Seq(Reqs \X (1..6))
        /\ read_buffer_' \o net' = SubSeq(p, 1 + 1, Len(p))
    BY <1>6, <2>1, Consumed
  <2>. QED
    BY <2>2
<1> HIDE DEF p
<1>8. /\ p[1] = <<cur + 1, 1>> /\ cur + 1 \in 1..Len(Sizes)
      /\ Aligned(SubSeq(p, 2, Len(p)), Sizes, cur + 1, Sizes[cur + 1] - 1, ~broken)
  BY <1>3, <1>4, <1>5, TakeHeader
<1>9. cur' = cur + 1
  BY <1>3, <1>6, <1>8
<1>. QED
  BY <1>1, <1>4, <1>7, <1>8, <1>9

LEMMA Refused ==
  ASSUME NEW next, write_error(0, next)
  PROVE  Put(FALSE) /\ state_' = "write" /\ next_state_' = next /\ swallow_size_' = swallow_size_
<1>1. ~(0 > 0)
  OBVIOUS
<1>. QED
  BY <1>1, Zenon DEF write_error

LEMMA FramingStep ==
  ASSUME TypeOK, Control, Framing, [Next]_vars
  PROVE  Framing'
<1>0. /\ sent \in Seq(Kinds) /\ Len(sent) \in Nat /\ cur \in Nat /\ next_data_len_ \in Nat
      /\ swallow_size_ \in Nat /\ Have \in Nat /\ Len(net) \in Nat
      /\ net \in Seq(Nat \X Nat) /\ read_buffer_ \in Seq(Nat \X Nat)
  BY Facts
<1>p. Parts
  BY DEF Framing
<1>l. Left \in Nat /\ (Left > 0 => cur \in 1..Len(sent) /\ Left < Sizes[cur])
  BY <1>p, LeftBound
<1>k. cur >= 1 => sent[cur] \in Kinds /\ BodyLength[sent[cur]] \in Nat
  <2>1. cur >= 1 => sent[cur] \in Kinds
    BY <1>0, <1>p DEF Parts
  <2>. QED
    BY <2>1, Bodies
<1>1. ASSUME NEW k \in Kinds, Send(k) PROVE Framing'
  <2>1. /\ sent' = Append(sent, k) /\ net' = net \o Tokens(Len(sent) + 1, k) /\ ~broken
        /\ UNCHANGED <<broken, next_data_len_, swallow_size_, read_buffer_, cur, state_, next_state_>>
    BY <1>1 DEF Send, replyVars, readVars
  <2>2. Len(sent') = Len(sent) + 1 /\ (\A i \in 1..Len(sent) : sent'[i] = sent[i]) /\ sent'[Len(sent) + 1] = k
    BY <1>0, <2>1
  <2>3. cur >= 1 => sent'[cur] = sent[cur]
    BY <1>0, <1>p, <2>2 DEF Parts
  <2>4. Parts'
    <3>1. next_state_ = "swallow" => state_ = "write"
      BY DEF Control
    <3>2. cur <= Len(sent) + 1
      BY <1>0, <1>p DEF Parts
    <3>. QED
      BY <1>p, <2>1, <2>2, <2>3, <3>1, <3>2 DEF Parts, Have
  <2>5. Left' = Left
    <3>1. state_ = "fixed" => cur >= 1
      BY <1>p DEF Parts
    <3>. QED
      BY <2>1, <2>3, <3>1 DEF Left
  <2>6. Sizes' = Append(Sizes, RequestSize(k)) /\ Sizes \in Seq(1..6) /\ Len(Sizes) = Len(sent) /\ RequestSize(k) \in 1..6
    <3>1. RequestSize(k) \in 1..6
      BY Bodies
    <3>2. Sizes \in Seq(1..6) /\ Len(Sizes) = Len(sent)
      BY <1>0, SizesType
    <3>3. sent' \in Seq(Kinds)
      BY <1>0, <2>1
    <3>4. Sizes' \in Seq(1..6) /\ Len(Sizes') = Len(sent) + 1 /\ \A n \in 1..(Len(sent) + 1) : Sizes'[n] = RequestSize(sent'[n])
      <4>1. \A n \in 1..Len(sent') : sent'[n] \in Kinds
        BY <3>3
      <4>2. Sizes' = [n \in 1..Len(sent') |-> RequestSize(sent'[n])]
        BY DEF Sizes
      <4>3. \A n \in 1..(Len(sent) + 1) : RequestSize(sent'[n]) \in 1..6
        BY <2>2, <4>1, Bodies
      <4> HIDE DEF Sizes
      <4>4. Sizes' \in [1..(Len(sent) + 1) -> 1..6] /\ \A n \in 1..(Len(sent) + 1) : Sizes'[n] = RequestSize(sent'[n])
        BY <2>2, <4>2, <4>3
      <4>5. PICK f : f = Sizes'
        OBVIOUS
      <4>6. f \in [1..(Len(sent) + 1) -> 1..6] /\ Len(sent) + 1 \in Nat
        BY <1>0, <4>4, <4>5
      <4>7. f \in Seq(1..6) /\ Len(f) = Len(sent) + 1
        BY <4>6
      <4>. QED
        BY <4>4, <4>5, <4>7
    <3>5. \A n \in 1..(Len(sent) + 1) : Sizes'[n] = Append(Sizes, RequestSize(k))[n]
      <4>1. \A n \in 1..Len(sent) : Sizes'[n] = Sizes[n]
        BY <1>0, <2>2, <3>4, SizesType
      <4>2. Sizes'[Len(sent) + 1] = RequestSize(k)
        BY <1>0, <2>2, <3>4
      <4>3. /\ \A n \in 1..Len(sent) : Append(Sizes, RequestSize(k))[n] = Sizes[n]
            /\ Append(Sizes, RequestSize(k))[Len(sent) + 1] = RequestSize(k)
        BY <3>1, <3>2
      <4>4. \A n \in 1..(Len(sent) + 1) : n \in 1..Len(sent) \/ n = Len(sent) + 1
        BY <1>0
      <4>. QED
        BY <4>1, <4>2, <4>3, <4>4
    <3>6. Append(Sizes, RequestSize(k)) \in Seq(1..6) /\ Len(Append(Sizes, RequestSize(k))) = Len(sent) + 1
      BY <3>1, <3>2
    <3>7. Sizes' = Append(Sizes, RequestSize(k))
      BY <3>4, <3>5, <3>6, SeqEqual
    <3>. QED
      BY <3>1, <3>2, <3>7
  <2>7. /\ Tokens(Len(sent) + 1, k) \in Seq(Nat \X Nat) /\ Len(Tokens(Len(sent) + 1, k)) = RequestSize(k)
        /\ \A i \in 1..RequestSize(k) : Tokens(Len(sent) + 1, k)[i] = <<Len(Sizes) + 1, i>>
    <3>1. Len(sent) + 1 \in Nat
      BY <1>0
    <3>2. /\ Tokens(Len(sent) + 1, k) \in Seq(Nat \X Nat) /\ Len(Tokens(Len(sent) + 1, k)) = RequestSize(k)
          /\ \A i \in 1..RequestSize(k) : Tokens(Len(sent) + 1, k)[i] = <<Len(sent) + 1, i>>
      BY <3>1, TokensOf
    <3>. QED
      BY <2>6, <3>2
  <2>8. Aligned(read_buffer_ \o net, Sizes, cur, Left, TRUE)
    BY <2>1 DEF Framing
  <2>9. cur <= Len(Sizes) /\ (Left = 0 \/ cur >= 1)
    BY <1>0, <1>l, <1>p, <2>6 DEF Parts
  <2>10. read_buffer_ \o net \in Seq(Nat \X Nat)
    BY Pending
  <2>11. Aligned((read_buffer_ \o net) \o Tokens(Len(sent) + 1, k), Append(Sizes, RequestSize(k)), cur, Left, TRUE)
    BY <1>0, <1>l, <2>6, <2>7, <2>8, <2>9, <2>10, Extend
  <2>12. (read_buffer_ \o net) \o Tokens(Len(sent) + 1, k) = read_buffer_' \o net'
    <3>1. \A u \in Seq(Nat \X Nat) : (read_buffer_ \o net) \o u = read_buffer_ \o (net \o u)
      BY <1>0, Assoc, Zenon
    <3>2. (read_buffer_ \o net) \o Tokens(Len(sent) + 1, k) = read_buffer_ \o (net \o Tokens(Len(sent) + 1, k))
      BY <2>7, <3>1, Zenon
    <3>. QED
      BY <2>1, <3>2
  <2>13. Aligned(read_buffer_' \o net', Sizes', cur', Left', ~broken')
    BY <2>1, <2>5, <2>6, <2>11, <2>12
  <2>. QED
    BY <2>4, <2>13 DEF Framing, Aligned, Cuts, Expected
<1>2. CASE Break
  <2>1. /\ net' = <<>> /\ broken'
        /\ UNCHANGED <<sent, next_data_len_, swallow_size_, read_buffer_, cur, state_, next_state_>>
    BY <1>2 DEF Break, replyVars, readVars
  <2>2. Parts' /\ Left' = Left /\ Sizes' = Sizes
    BY <1>p, <2>1 DEF Parts, Left, Have, Sizes
  <2>3. Sizes \in Seq(1..6)
    BY <1>0, SizesType
  <2>4. Aligned(read_buffer_ \o <<>>, Sizes, cur, Left, FALSE)
    <3>1. Aligned(read_buffer_ \o net, Sizes, cur, Left, ~broken) /\ (~broken) \in BOOLEAN
      BY DEF Framing
    <3>. QED
      BY <1>0, <1>l, <2>3, <3>1, LoseNet
  <2>5. Aligned(read_buffer_' \o net', Sizes', cur', Left', ~broken')
    BY <2>1, <2>2, <2>4
  <2>. QED
    BY <2>2, <2>5 DEF Framing, Aligned, Cuts, Expected
<1>3. CASE Deliver
  <2>1. UNCHANGED <<sent, broken, net, next_data_len_, swallow_size_, read_buffer_, cur, state_, next_state_>>
    BY <1>3 DEF Deliver, replyVars, readVars
  <2>2. Parts' /\ Left' = Left
    BY <1>p, <2>1 DEF Parts, Left, Have
  <2>. QED
    BY <2>1, <2>2, FrameKept
<1>4. CASE handle_read
  <2>1. UNCHANGED <<sent, broken, next_data_len_, swallow_size_, cur, state_, next_state_>>
    BY <1>4 DEF handle_read
  <2>2. read_buffer_' \o net' = read_buffer_ \o net /\ Len(read_buffer_') >= Have
    <3>1. CASE broken
      BY <1>0, <1>4, <3>1 DEF handle_read, Have
    <3>2. CASE ~broken
      <4>1. PICK n \in 1..Len(net) : /\ read_buffer_' = read_buffer_ \o SubSeq(net, 1, n)
                                     /\ net' = SubSeq(net, n + 1, Len(net))
        BY <1>4, <3>2 DEF handle_read
      <4>. QED
        BY <4>1, BytesMove
    <3>. QED
      BY <3>1, <3>2
  <2>3. state_ = "header" => next_data_len_ >= 1 \/ Len(read_buffer_') >= 1
    <3>1. Len(read_buffer_') \in Int \/ Len(read_buffer_') = Have
      BY <1>0, <1>4, BytesMove DEF handle_read, Have
    <3>. QED
      BY <1>0, <1>p, <2>2, <3>1 DEF Parts
  <2>4. Parts' /\ Left' = Left
    BY <1>p, <2>1, <2>3 DEF Parts, Left, Have
  <2>. QED
    BY <2>1, <2>2, <2>4, FrameKept
<1>5. CASE handle_write
  <2>1. UNCHANGED <<sent, broken, net, next_data_len_, swallow_size_, read_buffer_, cur, state_, next_state_>>
    BY <1>5 DEF handle_write, streamVars, readVars
  <2>2. Parts' /\ Left' = Left
    BY <1>p, <2>1 DEF Parts, Left, Have
  <2>. QED
    BY <2>1, <2>2, FrameKept
<1>6. CASE handle_timer
  <2>1. /\ UNCHANGED <<sent, broken, net, next_data_len_, swallow_size_, read_buffer_, cur>>
        /\ state_ = "wait" /\ state_' \in {"new_cmd", "write"} /\ next_state_' = "new_cmd"
    BY <1>6 DEF handle_timer, streamVars
  <2>2. Parts' /\ Left' = Left
    BY <1>p, <2>1 DEF Parts, Left, Have
  <2>. QED
    BY <2>1, <2>2, FrameKept
<1>7. CASE after_process
  <2>1. UNCHANGED <<sent, broken, net, next_data_len_, swallow_size_, read_buffer_, cur, state_, next_state_>>
    BY <1>7 DEF after_process, streamVars, readVars
  <2>2. Parts' /\ Left' = Left
    BY <1>p, <2>1 DEF Parts, Left, Have
  <2>. QED
    BY <2>1, <2>2, FrameKept
<1>8. CASE process
  <2>n. state_ # "write" => next_state_ = "new_cmd"
    BY DEF Control
  <2>1. CASE reset_for_new_cmd
    <3>1. /\ UNCHANGED <<sent, broken, net, swallow_size_, read_buffer_, cur, next_state_>>
          /\ next_data_len_' = 1 /\ state_ = "new_cmd" /\ state_' = "header"
      BY <2>1 DEF reset_for_new_cmd, InLoop, LoopUnchanged
    <3>2. Parts' /\ Left' = Left
      BY <1>p, <2>n, <3>1 DEF Parts, Left, Have
    <3>. QED
      BY <3>1, <3>2, FrameKept
  <2>2. CASE process_header
    <3>1. /\ cur' = cur + 1 /\ cur + 1 \in 1..Len(sent) /\ UNCHANGED <<sent, broken, net>>
          /\ Aligned(read_buffer_' \o net', Sizes, cur + 1, Sizes[cur + 1] - 1, ~broken)
      BY <2>2, NextHeader
    <3>2. Sizes' = Sizes /\ Sizes[cur + 1] = RequestSize(sent[cur + 1]) /\ sent[cur + 1] \in Kinds
      BY <1>0, <3>1, SizesType DEF Sizes
    <3>3. BodyLength[sent[cur + 1]] \in Nat /\ state_ = "header"
      BY <2>2, <3>2, Bodies DEF process_header, InLoop
    <3>4. Parts' /\ Left' = Sizes[cur + 1] - 1
      <4>1. CASE HasFixed(sent[cur + 1])
        <5>1. next_data_len_' = 1 /\ state_' = "fixed" /\ next_state_' = next_state_ /\ swallow_size_' = swallow_size_
          BY <2>2, <3>1, <4>1 DEF process_header, Kind, Unwritten, HasFixed
        <5>2. Left' = 1 + BodyLength[sent[cur + 1]]
          BY <3>1, <5>1 DEF Left
        <5>3. Parts'
          BY <1>0, <2>n, <3>1, <3>3, <4>1, <5>1 DEF Parts
        <5>. QED
          BY <3>2, <3>3, <4>1, <5>2, <5>3 DEF RequestSize
      <4>2. CASE ~HasFixed(sent[cur + 1])
        <5>1. state_' = "write" /\ next_state_' \in {"new_cmd", "closing"}
          <6>1. Kind = sent[cur + 1] /\ ~HasFixed(Kind)
            BY <3>1, <4>2 DEF Kind
          <6>2. \/ write_error(0, "new_cmd")
                \/ write_error(0, "closing")
            BY <2>2, <6>1 DEF process_header, Answer
          <6>. QED
            BY <6>2, Refused
        <5>2. Left' = 0
          BY <5>1 DEF Left
        <5>3. Parts'
          BY <1>0, <3>1, <5>1 DEF Parts
        <5>4. sent[cur + 1] \in {"hello", "bad"} /\ RequestSize(sent[cur + 1]) = 1
          BY <4>2, Bodies DEF HasFixed, RequestSize
        <5>. QED
          BY <3>2, <5>2, <5>3, <5>4
      <4>. QED
        BY <4>1, <4>2
    <3>5. Aligned(read_buffer_' \o net', Sizes', cur', Left', ~broken')
      BY <3>1, <3>2, <3>4
    <3>. QED
      BY <3>4, <3>5 DEF Framing, Aligned, Cuts, Expected
  <2>3. CASE process_pdu_fixed
    <3>1. /\ state_ = "fixed" /\ cur' = cur /\ UNCHANGED <<sent, broken, net>> /\ Have >= next_data_len_
          /\ Consume(next_data_len_)
      BY <2>3 DEF process_pdu_fixed, InLoop, LoopUnchanged
    <3>2. next_data_len_ = 1 /\ cur >= 1 /\ HasFixed(sent[cur]) /\ Left = 1 + BodyLength[sent[cur]]
      BY <1>p, <3>1 DEF Parts, Left
    <3>3. read_buffer_' \o net' = SubSeq(read_buffer_ \o net, 1 + 1, Len(read_buffer_ \o net))
      BY <1>0, <3>1, <3>2, Consumed
    <3>4. 1 <= Len(read_buffer_ \o net) /\ 1 <= Left /\ Left > 0
      <4>1. Len(read_buffer_ \o net) = Have + Len(net)
        BY Pending
      <4>2. 1 <= Len(read_buffer_ \o net)
        BY <1>0, <3>1, <3>2, <4>1
      <4>3. BodyLength[sent[cur]] \in Nat
        BY <1>k, <3>2
      <4>. QED
        BY <3>2, <4>2, <4>3
    <3>5. Left' = Left - 1 /\ Parts'
      <4>0. Kind = sent[cur] /\ next_state_ = "new_cmd"
        BY <2>n, <3>1 DEF Kind
      <4>00. Left - 1 = BodyLength[sent[cur]]
        BY <1>k, <3>2
      <4>1. CASE sent[cur] \in {"get", "get_long"}
        <5>1. /\ next_data_len_' = BodyLength[sent[cur]] /\ state_' = "extras2"
              /\ next_state_' = "new_cmd" /\ swallow_size_' = swallow_size_
          BY <2>3, <4>0, <4>1 DEF process_pdu_fixed, Unwritten
        <5>2. Left' = BodyLength[sent[cur]]
          BY <5>1 DEF Left
        <5>3. Parts'
          BY <1>0, <1>p, <3>1, <3>2, <4>1, <5>1 DEF Parts
        <5>. QED
          BY <4>00, <5>2, <5>3
      <4>2. CASE sent[cur] \in {"update", "empty"}
        <5>0. process_update_req_pdu_fixed
          BY <2>3, <4>0, <4>2 DEF process_pdu_fixed
        <5>1. CASE /\ next_data_len_' = BodyLength[Kind] /\ state_' = "extras" /\ Unwritten
          <6>1. next_state_' = "new_cmd" /\ swallow_size_' = swallow_size_
            BY <4>0, <5>1 DEF Unwritten
          <6>2. Left' = BodyLength[sent[cur]]
            BY <4>0, <5>1 DEF Left
          <6>3. Parts'
            BY <1>0, <1>k, <1>p, <3>1, <3>2, <4>0, <4>2, <5>1, <6>1 DEF Parts
          <6>. QED
            BY <4>00, <6>2, <6>3
        <5>2. CASE write_error(BodyLength[Kind], "new_cmd")
          <6>1. CASE BodyLength[sent[cur]] > 0
            <7>1. state_' = "write" /\ swallow_size_' = BodyLength[sent[cur]] /\ next_state_' = "swallow"
              BY <4>0, <5>2, <6>1 DEF write_error
            <7>2. Left' = BodyLength[sent[cur]] /\ sent[cur] = "update"
              BY <4>2, <6>1, <7>1, Bodies DEF Left
            <7>3. Parts'
              BY <1>0, <1>k, <1>p, <3>1, <3>2, <7>1, <7>2 DEF Parts
            <7>. QED
              BY <4>00, <7>2, <7>3
          <6>2. CASE ~(BodyLength[sent[cur]] > 0)
            <7>1. state_' = "write" /\ next_state_' = "new_cmd"
              BY <4>0, <5>2, <6>2 DEF write_error
            <7>2. Left' = 0 /\ BodyLength[sent[cur]] = 0
              BY <1>k, <3>2, <6>2, <7>1 DEF Left
            <7>3. Parts'
              BY <1>0, <1>p, <3>1, <3>2, <7>1 DEF Parts
            <7>. QED
              BY <4>00, <7>2, <7>3
          <6>. QED
            BY <6>1, <6>2
        <5>. QED
          BY <5>0, <5>1, <5>2 DEF process_update_req_pdu_fixed
      <4>3. CASE sent[cur] = "flush" \/ sent[cur] = "check"
        <5>1. \/ state_' = "write" /\ next_state_' = "new_cmd"
              \/ state_' = "wait" /\ next_state_' = "new_cmd" /\ sent[cur] = "check"
          <6>1. Answer \/ (state_' = "wait" /\ Unwritten /\ sent[cur] = "check")
            BY <2>3, <4>0, <4>3 DEF process_pdu_fixed, process_flush_req_pdu_fixed,
               process_check_watch_req_pdu_fixed
          <6>. QED
            BY <4>0, <6>1, Refused DEF Answer, Unwritten
        <5>2. Left' = 0 /\ BodyLength[sent[cur]] = 0
          BY <4>3, <5>1, Bodies DEF Left
        <5>3. Parts'
          BY <1>0, <1>p, <3>1, <3>2, <5>1 DEF Parts
        <5>. QED
          BY <4>00, <5>2, <5>3
      <4>. QED
        BY <2>3, <4>0, <4>1, <4>2, <4>3 DEF process_pdu_fixed
    <3>6. UNCHANGED <<sent, broken, cur>> /\ 1 \in Nat \ {0}
      BY <3>1
    <3>. QED
      BY <3>3, <3>4, <3>5, <3>6, BodyTaken
  <2>4. CASE process_pdu_extras2
    <3>1. /\ state_ = "extras2" /\ UNCHANGED <<sent, broken, cur>> /\ net' = net /\ Have >= next_data_len_
          /\ Consume(next_data_len_) /\ state_' = "write" /\ next_state_' = "new_cmd"
      <4>1. process_get_req_pdu_extras \/ write_error(0, "new_cmd")
        BY <2>4 DEF process_pdu_extras2, process_update_flags_req_pdu_extras, Answer
      <4>2. state_' = "write" /\ next_state_' = "new_cmd"
        BY <4>1, Refused DEF process_get_req_pdu_extras
      <4>. QED
        BY <2>4, <4>2 DEF process_pdu_extras2, InLoop, LoopUnchanged
    <3>2. Left = next_data_len_ /\ next_data_len_ > 0 /\ cur >= 1
      BY <1>p, <3>1, Bodies DEF Parts, Left
    <3>3. /\ read_buffer_' \o net' = SubSeq(read_buffer_ \o net, next_data_len_ + 1, Len(read_buffer_ \o net))
          /\ next_data_len_ <= Len(read_buffer_ \o net)
      <4>1. Len(read_buffer_ \o net) = Have + Len(net)
        BY Pending
      <4>2. next_data_len_ <= Len(read_buffer_ \o net)
        BY <1>0, <3>1, <4>1
      <4>. QED
        BY <1>0, <3>1, <4>2, Consumed
    <3>4. Left' = Left - next_data_len_ /\ Parts'
      <4>1. Left' = 0
        BY <3>1 DEF Left
      <4>2. Parts'
        BY <1>0, <1>p, <3>1, <3>2 DEF Parts
      <4>. QED
        BY <1>0, <3>2, <4>1, <4>2
    <3>5. next_data_len_ \in Nat \ {0} /\ next_data_len_ <= Left /\ Left > 0
      BY <1>0, <3>2
    <3>. QED
      BY <3>1, <3>3, <3>4, <3>5, BodyTaken
  <2>5. CASE process_pdu_extras
    <3>1. /\ UNCHANGED <<sent, broken, net, read_buffer_, cur, next_data_len_>> /\ state_ = "extras"
          /\ next_data_len_ = 0 /\ state_' = "write" /\ next_state_' = "new_cmd"
      BY <2>5 DEF process_pdu_extras, InLoop, LoopUnchanged, Answer, write_error
    <3>2. Left' = Left /\ Parts'
      BY <1>0, <1>p, <3>1 DEF Parts, Left
    <3>. QED
      BY <3>1, <3>2, FrameKept
  <2>6. CASE copy_extras
    <3>1. /\ UNCHANGED <<sent, broken, cur, state_, next_state_, swallow_size_>> /\ net' = net
          /\ state_ = "extras" /\ next_data_len_ > 0 /\ Have > 0
          /\ next_data_len_' = next_data_len_ - Taken(next_data_len_) /\ Consume(Taken(next_data_len_))
      BY <2>6 DEF copy_extras, InLoop, LoopUnchanged
    <3>2. PICK n \in Nat \ {0} : n = Taken(next_data_len_) /\ n <= Have /\ n <= next_data_len_
      BY <1>0, <3>1 DEF Taken
    <3>3. Left = next_data_len_ /\ Left' = Left - n /\ cur >= 1
      BY <1>p, <3>1, <3>2 DEF Left, Parts
    <3>4. /\ read_buffer_' \o net' = SubSeq(read_buffer_ \o net, n + 1, Len(read_buffer_ \o net))
          /\ n <= Len(read_buffer_ \o net)
      <4>1. Len(read_buffer_ \o net) = Have + Len(net)
        BY Pending
      <4>2. n <= Len(read_buffer_ \o net)
        BY <1>0, <3>2, <4>1
      <4>. QED
        BY <3>1, <3>2, <4>2, Consumed
    <3>5. Parts'
      <4>1. next_data_len_' <= BodyLength[sent[cur]] /\ sent[cur] \in {"update", "empty"}
        <5>1. next_data_len_ <= BodyLength[sent[cur]] /\ sent[cur] \in {"update", "empty"}
          BY <1>p, <3>1 DEF Parts
        <5>. QED
          BY <1>0, <1>k, <3>1, <3>2, <3>3, <5>1
      <4>. QED
        BY <1>p, <2>n, <3>1, <4>1 DEF Parts
    <3>. QED
      BY <3>1, <3>2, <3>3, <3>4, <3>5, BodyTaken
  <2>7. CASE swallow
    <3>0. UNCHANGED <<sent, broken, cur, next_state_, next_data_len_>> /\ net' = net /\ state_ = "swallow"
      BY <2>7 DEF swallow, InLoop, LoopUnchanged
    <3>1. CASE swallow_size_ = 0
      <4>1. state_' = "new_cmd" /\ UNCHANGED <<swallow_size_, read_buffer_>>
        BY <2>7, <3>1 DEF swallow
      <4>2. Left' = Left /\ Parts'
        BY <1>0, <1>p, <2>n, <3>0, <3>1, <4>1 DEF Parts, Left
      <4>. QED
        BY <3>0, <4>1, <4>2, FrameKept
    <3>2. CASE swallow_size_ # 0
      <4>1. /\ state_' = state_ /\ swallow_size_ > 0 /\ Have > 0
            /\ swallow_size_' = swallow_size_ - Taken(swallow_size_) /\ Consume(Taken(swallow_size_))
        BY <2>7, <3>2 DEF swallow
      <4>2. PICK n \in Nat \ {0} : n = Taken(swallow_size_) /\ n <= Have /\ n <= swallow_size_
        BY <1>0, <4>1 DEF Taken
      <4>3. Left = swallow_size_ /\ Left' = Left - n /\ cur >= 1
        BY <1>p, <3>0, <4>1, <4>2 DEF Left, Parts
      <4>4. /\ read_buffer_' \o net' = SubSeq(read_buffer_ \o net, n + 1, Len(read_buffer_ \o net))
            /\ n <= Len(read_buffer_ \o net)
        <5>1. Len(read_buffer_ \o net) = Have + Len(net)
          BY Pending
        <5>2. n <= Len(read_buffer_ \o net)
          BY <1>0, <4>2, <5>1
        <5>. QED
          BY <3>0, <4>1, <4>2, <5>2, Consumed
      <4>5. Parts'
        <5>1. swallow_size_ <= BodyLength[sent[cur]] /\ sent[cur] = "update"
          BY <1>p, <3>0 DEF Parts
        <5>2. swallow_size_' <= BodyLength[sent[cur]]
          BY <1>0, <1>k, <4>1, <4>2, <4>3, <5>1
        <5>. QED
          BY <1>p, <2>n, <3>0, <4>1, <5>1, <5>2 DEF Parts
      <4>6. n <= Left /\ Left > 0
        BY <4>1, <4>2, <4>3
      <4>. QED
        BY <3>0, <4>2, <4>3, <4>4, <4>5, <4>6, BodyTaken
    <3>. QED
      BY <3>1, <3>2
  <2>8. CASE read_more
    <3>1. UNCHANGED <<sent, broken, next_data_len_, swallow_size_, cur, state_, next_state_>>
      BY <2>8 DEF read_more, LoopUnchanged
    <3>2. PICK n \in 1..Len(net) : /\ read_buffer_' = read_buffer_ \o SubSeq(net, 1, n)
                                   /\ net' = SubSeq(net, n + 1, Len(net))
      BY <2>8 DEF read_more
    <3>3. read_buffer_' \o net' = read_buffer_ \o net /\ Len(read_buffer_') >= 1
      BY <3>2, BytesMove
    <3>4. Parts' /\ Left' = Left
      BY <1>p, <3>1, <3>3 DEF Parts, Left, Have
    <3>. QED
      BY <3>1, <3>3, <3>4, FrameKept
  <2>9. CASE read_extras
    <3>1. /\ UNCHANGED <<sent, broken, cur, state_, next_state_, swallow_size_, read_buffer_>>
          /\ state_ = "extras" /\ next_data_len_ > 0 /\ Have = 0
      BY <2>9 DEF read_extras, InLoop, LoopUnchanged
    <3>2. PICK n \in 1..next_data_len_ : n <= Len(net) /\ next_data_len_' = next_data_len_ - n
                                         /\ net' = SubSeq(net, n + 1, Len(net))
      BY <2>9 DEF read_extras
    <3>3. n \in Nat \ {0} /\ n <= next_data_len_
      BY <1>0, <3>2
    <3>4. Left = next_data_len_ /\ Left' = Left - n /\ cur >= 1
      BY <1>p, <3>1, <3>2 DEF Left, Parts
    <3>5. read_buffer_ = <<>>
      BY <1>0, <3>1 DEF Have
    <3>6. \A s \in Seq(Nat \X Nat) : <<>> \o s = s
      OBVIOUS
    <3>7. read_buffer_ \o net = net /\ read_buffer_' \o net' = net'
      <4>1. net' \in Seq(Nat \X Nat)
        <5>1. n \in 0..Len(net)
          BY <1>0, <3>2, <3>3
        <5>. QED
          BY <1>0, <3>2, <5>1, Suffix
      <4>. QED
        BY <1>0, <3>1, <3>5, <3>6, <4>1
    <3>8. Parts'
      <4>1. next_data_len_' <= BodyLength[sent[cur]] /\ sent[cur] \in {"update", "empty"}
        <5>1. next_data_len_ <= BodyLength[sent[cur]] /\ sent[cur] \in {"update", "empty"}
          BY <1>p, <3>1 DEF Parts
        <5>. QED
          BY <1>0, <1>k, <3>2, <3>3, <3>4, <5>1, SMTT(30)
      <4>. QED
        BY <1>p, <2>n, <3>1, <4>1 DEF Parts
    <3>9. n <= Left /\ Left > 0 /\ n <= Len(read_buffer_ \o net)
          /\ read_buffer_' \o net' = SubSeq(read_buffer_ \o net, n + 1, Len(read_buffer_ \o net))
      BY <3>1, <3>2, <3>3, <3>4, <3>7
    <3>. QED
      BY <3>1, <3>3, <3>4, <3>8, <3>9, BodyTaken
  <2>10. CASE leave
    <3>1. UNCHANGED <<sent, broken, net, next_data_len_, swallow_size_, read_buffer_, cur, state_, next_state_>>
      BY <2>10 DEF leave, LoopUnchanged, readVars
    <3>2. Parts' /\ Left' = Left
      BY <1>p, <3>1 DEF Parts, Left, Have
    <3>. QED
      BY <3>1, <3>2, FrameKept
  <2>11. CASE write
    <3>1. /\ UNCHANGED <<sent, broken, net, next_data_len_, swallow_size_, read_buffer_, cur>>
          /\ state_ = "write" /\ next_state_' = "new_cmd"
          /\ \/ state_' = "header" /\ next_state_ = "new_cmd" /\ Have >= 1
             \/ state_' = next_state_
      BY <2>11 DEF write, InLoop, LoopUnchanged, readVars, Batched, next_request
    <3>2. next_state_ \in {"new_cmd", "swallow", "closing"}
      BY DEF Control
    <3>3. Parts'
      BY <1>p, <3>1, <3>2 DEF Parts, Have
    <3>4. Left' = Left
      BY <3>1, <3>2 DEF Left
    <3>. QED
      BY <3>1, <3>3, <3>4, FrameKept
  <2>12. CASE close
    <3>1. /\ UNCHANGED <<sent, broken, net, next_data_len_, swallow_size_, read_buffer_, cur, next_state_>>
          /\ state_ = "closing" /\ state_' = "closed"
      BY <2>12 DEF close, InLoop, LoopUnchanged, readVars
    <3>2. Parts' /\ Left' = Left
      BY <1>p, <2>n, <3>1 DEF Parts, Left, Have
    <3>. QED
      BY <3>1, <3>2, FrameKept
  <2>. QED
    BY <1>8, <2>1, <2>2, <2>3, <2>4, <2>5, <2>6, <2>7, <2>8, <2>9, <2>10, <2>11, <2>12 DEF process
<1>9. CASE Done \/ UNCHANGED vars
  <2>1. UNCHANGED <<sent, broken, net, next_data_len_, swallow_size_, read_buffer_, cur, state_, next_state_>>
    BY <1>9 DEF Done, vars, streamVars, readVars
  <2>2. Parts' /\ Left' = Left
    BY <1>p, <2>1 DEF Parts, Left, Have
  <2>. QED
    BY <2>1, <2>2, FrameKept
<1>. QED
  BY <1>1, <1>2, <1>3, <1>4, <1>5, <1>6, <1>7, <1>8, <1>9 DEF Next
-----------------------------------------------------------------------------
(* Types, and the invariant.                                               *)

\* A case of the loop that reads a request to its end answers it.
LEMMA AnswersOrReads ==
  ASSUME TypeOK, Control, Framing,
         process_header \/ process_pdu_fixed \/ process_pdu_extras2 \/ process_pdu_extras
  PROVE  /\ alive /\ op = "none" /\ LoopUnchanged
         /\ cur' \in Nat /\ cur' = Answered + 1 /\ cur' <= Len(sent) /\ Answered \in Nat
         /\ \/ \E hit \in BOOLEAN : Put(hit) /\ state_' = "write"
            \/ UNCHANGED replyVars /\ state_' \in {"fixed", "extras", "extras2", "wait"}
<1>0. cur \in Nat /\ Len(sent) \in Nat /\ Parts
  BY Facts DEF Framing
<1>1. alive /\ pc = "process" /\ op = "none" /\ LoopUnchanged
  BY DEF process_header, process_pdu_fixed, process_pdu_extras2, process_pdu_extras, InLoop, Control
<1>2. CASE process_header
  <2>1. cur' = cur + 1 /\ cur + 1 \in 1..Len(sent) /\ state_ = "header"
    BY <1>2, NextHeader DEF process_header, InLoop
  <2>2. Answered = cur
    BY <2>1 DEF Answered
  <2>3. \/ write_error(0, "new_cmd") \/ write_error(0, "closing")
        \/ state_' = "fixed" /\ Unwritten
    BY <1>2 DEF process_header, Answer
  <2>4. \/ Put(FALSE) /\ state_' = "write"
        \/ UNCHANGED replyVars /\ state_' = "fixed"
    BY <2>3, Refused DEF Unwritten
  <2>5. \/ \E hit \in BOOLEAN : Put(hit) /\ state_' = "write"
        \/ UNCHANGED replyVars /\ state_' \in {"fixed", "extras", "extras2", "wait"}
    <3>1. FALSE \in BOOLEAN /\ TRUE \in BOOLEAN
      OBVIOUS
    <3>. QED
      BY <2>4, <3>1, Zenon
  <2>6. cur' \in Nat /\ cur' = Answered + 1 /\ cur' <= Len(sent) /\ Answered \in Nat
    BY <1>0, <2>1, <2>2
  <2>. QED
    BY <1>1, <2>5, <2>6
<1>3. CASE process_pdu_fixed \/ process_pdu_extras2 \/ process_pdu_extras
  <2>1. cur' = cur /\ state_ \in {"fixed", "extras", "extras2"}
    BY <1>3 DEF process_pdu_fixed, process_pdu_extras2, process_pdu_extras, InLoop
  <2>2. Answered = cur - 1 /\ cur >= 1 /\ cur <= Len(sent)
    BY <1>0, <2>1 DEF Answered, Parts
  <2>3. \/ \E n \in Nat, next \in States : write_error(n, next)
        \/ process_get_req_pdu_extras
        \/ Unwritten /\ state_' \in {"extras", "extras2", "wait"}
    <3>1. 0 \in Nat /\ "new_cmd" \in States
      BY DEF States
    <3>2. CASE process_pdu_fixed
      <4>1. Kind \in {"update", "empty"} => BodyLength[Kind] \in Nat
        BY Bodies
      <4>2. CASE Kind \in {"update", "empty"} /\ process_update_req_pdu_fixed
        <5>1. \/ write_error(BodyLength[Kind], "new_cmd")
              \/ Unwritten /\ state_' = "extras"
          BY <4>2 DEF process_update_req_pdu_fixed
        <5>2. PICK n \in Nat : n = BodyLength[Kind]
          BY <4>1, <4>2
        <5>. QED
          BY <3>1, <5>1, <5>2
      <4>3. \/ write_error(0, "new_cmd")
            \/ Unwritten /\ state_' \in {"extras", "extras2", "wait"}
            \/ Kind \in {"update", "empty"} /\ process_update_req_pdu_fixed
        BY <3>2 DEF process_pdu_fixed, process_flush_req_pdu_fixed,
           process_check_watch_req_pdu_fixed, Answer
      <4>. QED
        BY <3>1, <4>2, <4>3
    <3>3. CASE process_pdu_extras2
      BY <3>1, <3>3 DEF process_pdu_extras2, process_update_flags_req_pdu_extras, Answer
    <3>4. CASE process_pdu_extras
      BY <3>1, <3>4 DEF process_pdu_extras, Answer
    <3>. QED
      BY <1>3, <3>2, <3>3, <3>4
  <2>4. \/ Put(FALSE) /\ state_' = "write"
        \/ Put(TRUE) /\ state_' = "write"
        \/ UNCHANGED replyVars /\ state_' \in {"extras", "extras2", "wait"}
    BY <2>3, Zenon DEF Unwritten, write_error, process_get_req_pdu_extras
  <2>5. \/ \E hit \in BOOLEAN : Put(hit) /\ state_' = "write"
        \/ UNCHANGED replyVars /\ state_' \in {"fixed", "extras", "extras2", "wait"}
    <3>1. FALSE \in BOOLEAN /\ TRUE \in BOOLEAN
      OBVIOUS
    <3>. QED
      BY <2>4, <3>1, Zenon
  <2>6. cur' \in Nat /\ cur' = Answered + 1 /\ cur' <= Len(sent) /\ Answered \in Nat
    BY <1>0, <2>1, <2>2
  <2>. QED
    BY <1>1, <2>5, <2>6
<1>. QED
  BY <1>2, <1>3

LEMMA ReplySteps ==
  ASSUME TypeOK, Control, Framing, Replies,
         process_header \/ process_pdu_fixed \/ process_pdu_extras2 \/ process_pdu_extras
  PROVE  /\ Replies' /\ write_buf_' \in Seq(Reply) /\ offset_' \in 0..MaxReq
         /\ cache_buf_' \in [Reqs -> 0..MaxReq] /\ cache_items_' \subseteq Reqs /\ cur' \in 0..MaxReq
<1>1. /\ alive /\ op = "none" /\ LoopUnchanged
      /\ cur' \in Nat /\ cur' = Answered + 1 /\ cur' <= Len(sent) /\ Answered \in Nat
      /\ \/ \E hit \in BOOLEAN : Put(hit) /\ state_' = "write"
         \/ UNCHANGED replyVars /\ state_' \in {"fixed", "extras", "extras2", "wait"}
  BY AnswersOrReads
<1>2. CASE \E hit \in BOOLEAN : Put(hit) /\ state_' = "write"
  <2>1. PICK hit \in BOOLEAN : Put(hit) /\ state_' = "write"
    BY <1>2
  <2>2. Answered' = cur'
    BY <2>1 DEF Answered
  <2>3. Replies' /\ write_buf_' \in Seq(Reply) /\ offset_ + 1 \in Reqs /\ cur' \in Reqs
    BY <1>1, <2>1, <2>2, PutAnswers
  <2>4. PICK c \in Reqs : c = cur'
    BY <2>3
  <2>5. c \in 0..MaxReq /\ offset_ + 1 \in 0..MaxReq
    BY <2>3, PeerCacheAssumption DEF Reqs
  <2>6. cache_buf_' = [cache_buf_ EXCEPT ![offset_ + 1] = c] /\ offset_' = offset_ + 1
        /\ cache_items_' \subseteq cache_items_ \cup {c}
    BY <2>1, <2>4 DEF Put
  <2>7. cache_buf_ \in [Reqs -> 0..MaxReq] /\ cache_items_ \subseteq Reqs
    BY DEF TypeOK
  <2>8. cache_buf_' \in [Reqs -> 0..MaxReq]
    BY <2>5, <2>6, <2>7
  <2>. QED
    BY <2>3, <2>4, <2>5, <2>6, <2>7, <2>8
<1>3. CASE UNCHANGED replyVars /\ state_' \in {"fixed", "extras", "extras2", "wait"}
  <2>1. Answered' = Answered
    BY <1>1, <1>3 DEF Answered
  <2>2. Outgoing' = Outgoing /\ UNCHANGED <<sent, received, cache_items_, cache_buf_, offset_, alive, write_buf_>>
    BY <1>1, <1>3 DEF Outgoing, LoopUnchanged, replyVars
  <2>3. Replies'
    BY <2>1, <2>2, RepliesKept
  <2>4. cur' \in 0..MaxReq
    BY <1>1, Facts DEF Replies
  <2>. QED
    BY <2>2, <2>3, <2>4 DEF TypeOK
<1>. QED
  BY <1>1, <1>2, <1>3

LEMMA RepliesStep ==
  ASSUME TypeOK, Control, Framing, Replies, [Next]_vars
  PROVE  Replies'
<1>0. /\ sent \in Seq(Kinds) /\ Len(sent) \in Nat /\ Len(received) \in Nat /\ cur \in Nat
      /\ MaxReq \in Nat /\ offset_ \in Nat /\ Parts
  BY Facts DEF Framing
<1>1. ASSUME NEW k \in Kinds, Send(k) PROVE Replies'
  <2>1. /\ sent' = Append(sent, k) /\ Len(sent) < MaxReq
        /\ UNCHANGED <<received, cache_items_, cache_buf_, offset_, alive, op, write_buf_, writing, state_, cur>>
    BY <1>1 DEF Send, replyVars, readVars
  <2>2. Len(sent') = Len(sent) + 1 /\ (\A i \in 1..Len(sent) : sent'[i] = sent[i]) /\ sent'[Len(sent) + 1] = k
    BY <1>0, <2>1
  <2>3. Outgoing' = Outgoing /\ Answered' = Answered
    BY <2>1 DEF Outgoing, Answered
  <2>4. Len(received') <= Len(sent') /\ Len(sent') <= MaxReq
    BY <1>0, <2>1, <2>2 DEF Replies
  <2>5. Alone'
    <3>1. SUFFICES ASSUME NEW n \in 1..(Len(sent) + 1), sent'[n] = "check", n > Len(received)
                   PROVE  n = Len(sent) + 1 /\ Len(received) = n - 1
      BY <2>1, <2>2 DEF Alone
    <3>2. n \in 1..Len(sent) \/ n = Len(sent) + 1
      BY <1>0
    <3>3. CASE n \in 1..Len(sent)
      <4>1. n \in Unanswered /\ sent[n] = "check"
        BY <1>0, <2>2, <3>1, <3>3 DEF Unanswered
      <4>. QED
        BY <1>1, <4>1 DEF Send
    <3>4. CASE n = Len(sent) + 1
      <4>1. Unanswered = {}
        BY <1>1, <2>2, <3>1, <3>4 DEF Send
      <4>2. ~(Len(received) + 1 <= Len(sent))
        <5>1. Len(received) + 1 <= Len(sent) => Len(sent) \in Unanswered
          BY <1>0 DEF Unanswered
        <5>. QED
          BY <4>1, <5>1
      <4>3. Len(received) <= Len(sent)
        BY DEF Replies
      <4>. QED
        BY <1>0, <3>4, <4>2, <4>3
    <3>. QED
      BY <3>2, <3>3, <3>4
  <2>6. RepliesInOrder'
    BY <2>1 DEF Replies, RepliesInOrder
  <2>. QED
    BY <2>1, <2>3, <2>4, <2>5, <2>6 DEF Replies
<1>2. CASE Break
  <2>1. /\ UNCHANGED <<sent, received, cache_items_, cache_buf_, offset_>> /\ alive' = alive
        /\ UNCHANGED <<op, writing, write_buf_, state_, cur>>
    BY <1>2 DEF Break, replyVars, readVars
  <2>. QED
    BY <2>1, RepliesKept DEF Outgoing, Answered
<1>3. CASE Deliver
  BY <1>0, <1>3, Delivered
<1>4. CASE handle_read
  <2>1. /\ UNCHANGED <<sent, received, cache_items_, cache_buf_, offset_>> /\ (alive' => alive)
        /\ UNCHANGED <<write_buf_, state_, cur>> /\ op = "read" /\ op' = "none"
    BY <1>4 DEF handle_read, replyVars
  <2>. QED
    BY <2>1, RepliesKept DEF Outgoing, Answered
<1>5. CASE handle_write
  <2>1. /\ UNCHANGED <<sent, received, cache_items_, cache_buf_, offset_, write_buf_, state_, cur>>
        /\ alive /\ op' = "none" /\ Answered' = Answered
    BY <1>5 DEF handle_write, streamVars, replyVars, readVars, Answered
  <2>2. CASE op = "written"
    <3>1. Outgoing' = Outgoing
      BY <2>1, <2>2 DEF Outgoing
    <3>. QED
      BY <2>1, <3>1, RepliesKept
  <2>3. CASE op = "write" /\ broken
    <3>1. state_ # "wait" /\ write_buf_ = <<>>
      BY <2>3 DEF Control
    <3>2. ~alive'
      BY <1>5, <2>3, <3>1 DEF handle_write
    <3>3. Outgoing' = <<>>
      BY <2>1, <3>1 DEF Outgoing
    <3>4. RepliesInOrder' /\ Alone' /\ (Len(received) <= Len(sent))' /\ (Len(sent) <= MaxReq)'
          /\ (offset_ <= Answered)'
      BY <2>1 DEF Replies, RepliesInOrder, Alone
    <3>5. Len(Outgoing') = 0
      BY <3>3
    <3>. QED
      BY <3>2, <3>3, <3>4, <3>5 DEF Replies
  <2>. QED
    BY <1>5, <2>2, <2>3 DEF handle_write
<1>6. CASE handle_timer
  BY <1>0, <1>6, TimerAnswers
<1>7. CASE after_process
  <2>1. /\ UNCHANGED <<sent, received, cache_items_, cache_buf_, offset_, state_, cur>>
        /\ alive /\ op = "none" /\ Answered' = Answered
    BY <1>7 DEF after_process, Control, streamVars, readVars, Answered
  <2>2. Outgoing' = Outgoing
    BY <1>7, <2>1 DEF after_process, try_write, Outgoing
  <2>. QED
    BY <2>1, <2>2, RepliesKept
<1>8. CASE process
  <2>1. CASE reset_for_new_cmd
    <3>1. /\ alive /\ op = "none" /\ write_buf_ = <<>> /\ state_ = "new_cmd" /\ state_' = "header"
          /\ UNCHANGED <<sent, received, alive, op, write_buf_, cur>> /\ offset_' = 0
      BY <2>1 DEF reset_for_new_cmd, Control, InLoop, LoopUnchanged
    <3>2. Outgoing = <<>> /\ Outgoing' = <<>> /\ Answered = cur /\ Answered' = cur
      BY <3>1 DEF Outgoing, Answered
    <3>3. Len(Outgoing) = 0 /\ Len(Outgoing') = 0
      BY <3>2
    <3>4. RepliesInOrder' /\ Alone' /\ (Len(received) <= Len(sent))' /\ (Len(sent) <= MaxReq)'
      BY <3>1 DEF Replies, RepliesInOrder, Alone
    <3>5. (Len(received) + Len(Outgoing) = Answered)' /\ (offset_ <= Answered)'
      BY <1>0, <3>1, <3>2, <3>3 DEF Replies
    <3>. QED
      BY <3>3, <3>4, <3>5 DEF Replies
  <2>2. CASE process_header \/ process_pdu_fixed \/ process_pdu_extras2 \/ process_pdu_extras
    BY <2>2, ReplySteps
  <2>3. CASE copy_extras \/ swallow \/ read_more \/ read_extras \/ leave \/ write \/ close
    <3>1. UNCHANGED <<sent, received, cache_items_, cache_buf_, offset_, alive, op, writing, write_buf_, cur>>
      BY <2>3 DEF copy_extras, swallow, read_more, read_extras, leave, write, close, LoopUnchanged,
         readVars, replyVars
    <3>2. \/ state_' = state_
          \/ /\ state_ \in {"swallow", "write", "closing"}
             /\ state_' \in {"new_cmd", "header", "swallow", "closing", "closed"}
      BY <2>3 DEF copy_extras, swallow, read_more, read_extras, leave, write, close, InLoop, Control,
         next_request
    <3>3. Answered' = Answered /\ Outgoing' = Outgoing
      BY <3>1, <3>2 DEF Answered, Outgoing
    <3>. QED
      BY <3>1, <3>3, RepliesKept
  <2>. QED
    BY <1>8, <2>1, <2>2, <2>3 DEF process
<1>9. CASE Done \/ UNCHANGED vars
  <2>1. UNCHANGED <<sent, received, cache_items_, cache_buf_, offset_, alive, op, writing, write_buf_, cur, state_>>
    BY <1>9 DEF Done, vars, streamVars, readVars, replyVars
  <2>. QED
    BY <2>1, RepliesKept DEF Outgoing, Answered
<1>. QED
  BY <1>1, <1>2, <1>3, <1>4, <1>5, <1>6, <1>7, <1>8, <1>9 DEF Next

LEMMA TypeStep ==
  ASSUME TypeOK, Control, Framing, Replies, [Next]_vars
  PROVE  TypeOK'
<1>0. /\ MaxReq \in Nat /\ BatchLimit \in Nat \ {0} /\ 0 \in 0..BatchLimit
      /\ sent \in Seq(Kinds) /\ Len(sent) \in Nat /\ Parts /\ cur \in Nat
      /\ next_data_len_ \in Nat /\ swallow_size_ \in Nat /\ Have \in Nat /\ process_reqest_count \in Nat
  BY PeerCacheAssumption, Facts DEF Framing
<1>b. cur >= 1 => sent[cur] \in Kinds /\ BodyLength[sent[cur]] \in 0..4
  <2>1. cur >= 1 => sent[cur] \in Kinds
    BY <1>0 DEF Parts
  <2>. QED
    BY <2>1, Bodies
<1>1. ASSUME NEW k \in Kinds, Send(k) PROVE TypeOK'
  <2>1. sent' \in Seq(Kinds)
    BY <1>0, <1>1 DEF Send
  <2>2. net' \in Seq(Reqs \X (1..6))
    <3> DEFINE n == Len(sent) + 1
               f == [i \in 1..RequestSize(k) |-> <<n, i>>]
    <3>1. n \in Reqs
      BY <1>0, <1>1 DEF Send, Reqs
    <3>2. RequestSize(k) \in Nat /\ RequestSize(k) \in 1..6
      BY Bodies
    <3>3. Tokens(n, k) = f
      BY DEF Tokens, RequestSize
    <3> HIDE DEF n
    <3>4. \A i \in 1..RequestSize(k) : <<n, i>> \in Reqs \X (1..6)
      BY <3>1, <3>2
    <3>5. f \in [1..RequestSize(k) -> Reqs \X (1..6)]
      BY <3>4
    <3> HIDE DEF f
    <3>6. net \in Seq(Reqs \X (1..6))
      BY DEF TypeOK
    <3>7. net \o f \in Seq(Reqs \X (1..6))
      <4> DEFINE S == Reqs \X (1..6)
      <4>1. f \in [1..RequestSize(k) -> S] /\ net \in Seq(S)
        BY <3>5, <3>6
      <4> HIDE DEF S
      <4>2. PICK m \in Nat : RequestSize(k) = m
        BY <3>2
      <4>3. f \in [1..m -> S]
        BY <4>1, <4>2
      <4>4. f \in Seq(S)
        BY <4>3
      <4>5. net \o f \in Seq(S)
        BY <4>1, <4>4
      <4>. QED
        BY <4>5 DEF S
    <3>8. net' = net \o Tokens(Len(sent) + 1, k)
      BY <1>1 DEF Send
    <3>. QED
      BY <3>3, <3>7, <3>8 DEF n
  <2>. QED
    BY <1>1, <2>1, <2>2 DEF TypeOK, Send, replyVars, readVars
<1>2. CASE Break
  BY <1>2 DEF TypeOK, Break, replyVars, readVars
<1>3. CASE Deliver
  <2>1. received' \in Seq(0..MaxReq)
    BY <1>0, <1>3, Delivered
  <2>. QED
    BY <1>3, <2>1 DEF TypeOK, Deliver, replyVars, readVars
<1>4. CASE handle_read
  <2>1. read_buffer_' \in Seq(Reqs \X (1..6)) /\ net' \in Seq(Reqs \X (1..6))
    <3>1. CASE broken
      BY <1>4, <3>1 DEF handle_read, TypeOK
    <3>2. CASE ~broken
      <4>1. PICK n \in 1..Len(net) : /\ read_buffer_' = read_buffer_ \o SubSeq(net, 1, n)
                                     /\ net' = SubSeq(net, n + 1, Len(net))
        BY <1>4, <3>2 DEF handle_read
      <4>. QED
        BY <4>1, BytesMove
    <3>. QED
      BY <3>1, <3>2
  <2>2. pc' \in {"idle", "process", "behind"} /\ process_reqest_count' \in 0..BatchLimit /\ alive' \in BOOLEAN
    BY <1>0, <1>4 DEF handle_read, Enter, TypeOK
  <2>. QED
    BY <1>4, <2>1, <2>2 DEF TypeOK, handle_read, replyVars
<1>5. CASE handle_write
  <2>1. pc' \in {"idle", "process", "behind"} /\ process_reqest_count' \in 0..BatchLimit /\ alive' \in BOOLEAN
    BY <1>0, <1>5 DEF handle_write, Enter, TypeOK
  <2>2. writing' \in Seq(Reply)
    BY <1>5 DEF handle_write
  <2>. QED
    BY <1>5, <2>1, <2>2 DEF TypeOK, handle_write, replyVars, readVars, streamVars
<1>6. CASE handle_timer
  <2>1. op' = "write" /\ write_buf_' = <<>> /\ writing' \in Seq(Reply) /\ offset_ + 1 \in Reqs /\ cur \in Reqs
    BY <1>0, <1>6, TimerAnswers
  <2>2. offset_' \in 0..MaxReq
    BY <1>0, <1>6, <2>1 DEF handle_timer, Reqs
  <2>3. cur \in 0..MaxReq /\ cache_buf_ \in [Reqs -> 0..MaxReq]
    BY DEF TypeOK
  <2>4. cache_buf_' \in [Reqs -> 0..MaxReq]
    BY <1>6, <2>1, <2>3 DEF handle_timer
  <2>5. state_' \in States /\ next_state_' \in States
    BY <1>6 DEF handle_timer, States
  <2>. QED
    BY <1>6, <2>1, <2>2, <2>4, <2>5 DEF TypeOK, handle_timer, streamVars
<1>7. CASE after_process
  <2>1. pc' = "idle" /\ UNCHANGED <<streamVars, readVars, cache_items_, cache_buf_, offset_, state_,
                   next_state_, process_reqest_count>>
    BY <1>7 DEF after_process
  <2>2. /\ alive' \in {alive, state_ = "wait"} /\ op' \in {op, "write", "read"}
        /\ writing' \in {writing, write_buf_} /\ write_buf_' \in {write_buf_, <<>>}
    BY <1>7 DEF after_process, try_write
  <2>3. alive' \in BOOLEAN
    BY <2>2, Zenon DEF TypeOK
  <2>4. op' \in {"none", "read", "write", "written"}
    BY <2>2, Zenon DEF TypeOK
  <2>5. writing' \in Seq(Reply) /\ write_buf_' \in Seq(Reply)
    <3>1. writing \in Seq(Reply) /\ write_buf_ \in Seq(Reply)
      BY DEF TypeOK
    <3>2. <<>> \in Seq(Reply)
      OBVIOUS
    <3>. QED
      BY <2>2, <3>1, <3>2, Zenon
  <2>. QED
    BY <2>1, <2>3, <2>4, <2>5 DEF TypeOK, streamVars, readVars
<1>8. CASE process
  <2>1. CASE reset_for_new_cmd
    <3>1. next_data_len_' \in 0..4 /\ offset_' \in 0..MaxReq /\ state_' \in States /\ cache_items_' \subseteq Reqs
      BY <1>0, <2>1 DEF reset_for_new_cmd, States
    <3>. QED
      BY <2>1, <3>1 DEF TypeOK, reset_for_new_cmd, LoopUnchanged
  <2>2. CASE process_header
    <3>1. /\ write_buf_' \in Seq(Reply) /\ offset_' \in 0..MaxReq /\ cur' \in 0..MaxReq
          /\ cache_buf_' \in [Reqs -> 0..MaxReq] /\ cache_items_' \subseteq Reqs
      BY <2>2, ReplySteps
    <3>2. read_buffer_' \in Seq(Reqs \X (1..6))
      BY <2>2, NextHeader
    <3>3. process_reqest_count' \in 0..BatchLimit
      <4>1. process_reqest_count < BatchLimit /\ process_reqest_count' = process_reqest_count + 1
        BY <2>2 DEF process_header, Control, InLoop
      <4>. QED
        BY <1>0, <4>1
    <3>4. \/ /\ state_' = "write" /\ next_state_' \in {"new_cmd", "closing"}
             /\ UNCHANGED <<next_data_len_, swallow_size_>>
          \/ /\ state_' = "fixed" /\ next_data_len_' = 1 /\ UNCHANGED <<swallow_size_, next_state_>>
      <4>1. \/ (write_error(0, "new_cmd") \/ write_error(0, "closing")) /\ UNCHANGED next_data_len_
            \/ state_' = "fixed" /\ next_data_len_' = 1 /\ Unwritten
        BY <2>2 DEF process_header, Answer
      <4>. QED
        BY <4>1, Refused DEF Unwritten
    <3>5. next_data_len_' \in 0..4 /\ swallow_size_' \in 0..2 /\ state_' \in States /\ next_state_' \in States
      BY <3>4 DEF TypeOK, States
    <3>. QED
      BY <2>2, <3>1, <3>2, <3>3, <3>5 DEF TypeOK, process_header, LoopUnchanged
  <2>3. CASE process_pdu_fixed
    <3>1. /\ write_buf_' \in Seq(Reply) /\ offset_' \in 0..MaxReq /\ cur' \in 0..MaxReq
          /\ cache_buf_' \in [Reqs -> 0..MaxReq] /\ cache_items_' \subseteq Reqs
      BY <2>3, ReplySteps
    <3>2. read_buffer_' \in Seq(Reqs \X (1..6))
      BY <1>0, <2>3, Consumed DEF process_pdu_fixed
    <3>3. next_data_len_' \in 0..4 /\ swallow_size_' \in 0..2 /\ state_' \in States /\ next_state_' \in States
          /\ uploading' \in BOOLEAN
      <4>0. state_ = "fixed" /\ cur >= 1 /\ Kind = sent[cur]
        BY <1>0, <2>3 DEF process_pdu_fixed, InLoop, Parts, Kind
      <4>00. /\ swallow_size_ \in 0..2 /\ next_data_len_ \in 0..4 /\ next_state_ \in States /\ uploading \in BOOLEAN
             /\ {"write", "wait", "extras", "extras2", "swallow", "new_cmd"} \subseteq States
        BY DEF TypeOK, States
      <4>1. CASE Kind \in {"update", "empty"} /\ process_update_req_pdu_fixed
        <5>1. BodyLength[Kind] \in 0..2 /\ BodyLength[Kind] \in 0..4
          BY <4>1, Bodies
        <5>2. CASE /\ uploading' = TRUE /\ next_data_len_' = BodyLength[Kind] /\ state_' = "extras" /\ Unwritten
          BY <4>00, <5>1, <5>2 DEF Unwritten
        <5>3. CASE write_error(BodyLength[Kind], "new_cmd") /\ UNCHANGED <<uploading, next_data_len_>>
          BY <4>00, <5>1, <5>3 DEF write_error
        <5>. QED
          BY <4>1, <5>2, <5>3 DEF process_update_req_pdu_fixed
      <4>2. CASE /\ Kind \in {"get", "get_long"} /\ next_data_len_' = BodyLength[Kind] /\ state_' = "extras2"
                 /\ Unwritten /\ UNCHANGED uploading
        BY <1>b, <4>0, <4>00, <4>2 DEF Unwritten
      <4>3. CASE (write_error(0, "new_cmd") \/ (state_' = "wait" /\ Unwritten)) /\ UNCHANGED <<uploading, next_data_len_>>
        <5>1. state_' \in {"write", "wait"} /\ next_state_' \in {"new_cmd", next_state_} /\ swallow_size_' = swallow_size_
          BY <4>3, Refused DEF Unwritten
        <5>. QED
          BY <4>00, <4>3, <5>1
      <4>4. \/ /\ Kind \in {"get", "get_long"} /\ next_data_len_' = BodyLength[Kind] /\ state_' = "extras2"
               /\ Unwritten /\ UNCHANGED uploading
            \/ Kind \in {"update", "empty"} /\ process_update_req_pdu_fixed
            \/ process_flush_req_pdu_fixed
            \/ process_check_watch_req_pdu_fixed
        BY <2>3, Zenon DEF process_pdu_fixed
      <4>5. CASE process_flush_req_pdu_fixed
        <5>1. (write_error(0, "new_cmd") \/ (state_' = "wait" /\ Unwritten)) /\ UNCHANGED <<uploading, next_data_len_>>
          BY <4>5, Zenon DEF process_flush_req_pdu_fixed, Answer
        <5>. QED
          BY <4>3, <5>1
      <4>6. CASE process_check_watch_req_pdu_fixed
        <5>1. (write_error(0, "new_cmd") \/ (state_' = "wait" /\ Unwritten)) /\ UNCHANGED <<uploading, next_data_len_>>
          BY <4>6, Zenon DEF process_check_watch_req_pdu_fixed, Answer
        <5>. QED
          BY <4>3, <5>1
      <4>. QED
        BY <4>1, <4>2, <4>4, <4>5, <4>6
    <3>. QED
      BY <2>3, <3>1, <3>2, <3>3 DEF TypeOK, process_pdu_fixed, LoopUnchanged
  <2>4. CASE process_pdu_extras2
    <3>1. /\ write_buf_' \in Seq(Reply) /\ offset_' \in 0..MaxReq /\ cur' \in 0..MaxReq
          /\ cache_buf_' \in [Reqs -> 0..MaxReq] /\ cache_items_' \subseteq Reqs
      BY <2>4, ReplySteps
    <3>2. read_buffer_' \in Seq(Reqs \X (1..6))
      BY <1>0, <2>4, Consumed DEF process_pdu_extras2
    <3>3. state_' = "write" /\ next_state_' = "new_cmd" /\ swallow_size_' = swallow_size_
      <4>1. process_get_req_pdu_extras \/ write_error(0, "new_cmd")
        BY <2>4 DEF process_pdu_extras2, process_update_flags_req_pdu_extras, Answer
      <4>. QED
        BY <4>1, Refused DEF process_get_req_pdu_extras
    <3>4. state_' \in States /\ next_state_' \in States
      BY <3>3 DEF States
    <3>. QED
      BY <2>4, <3>1, <3>2, <3>3, <3>4 DEF TypeOK, process_pdu_extras2, LoopUnchanged
  <2>5. CASE process_pdu_extras
    <3>1. /\ write_buf_' \in Seq(Reply) /\ offset_' \in 0..MaxReq /\ cur' \in 0..MaxReq
          /\ cache_buf_' \in [Reqs -> 0..MaxReq] /\ cache_items_' \subseteq Reqs
      BY <2>5, ReplySteps
    <3>3. state_' = "write" /\ next_state_' = "new_cmd" /\ swallow_size_' = swallow_size_
      BY <2>5, Refused DEF process_pdu_extras, Answer
    <3>4. state_' \in States /\ next_state_' \in States
      BY <3>3 DEF States
    <3>. QED
      BY <2>5, <3>1, <3>3, <3>4 DEF TypeOK, process_pdu_extras, LoopUnchanged
  <2>6. CASE copy_extras
    <3>1. PICK n \in Nat : n = Taken(next_data_len_) /\ n <= Have /\ n <= next_data_len_
      BY <1>0 DEF Taken
    <3>2. read_buffer_' \in Seq(Reqs \X (1..6))
      BY <2>6, <3>1, Consumed DEF copy_extras
    <3>3. next_data_len_' \in 0..4
      <4>1. next_data_len_ \in 0..4 /\ next_data_len_' = next_data_len_ - n
        BY <2>6, <3>1 DEF copy_extras, TypeOK
      <4>. QED
        BY <3>1, <4>1
    <3>. QED
      BY <2>6, <3>2, <3>3 DEF TypeOK, copy_extras, LoopUnchanged, replyVars
  <2>7. CASE swallow
    <3>1. PICK n \in Nat : n = Taken(swallow_size_) /\ n <= Have /\ n <= swallow_size_
      BY <1>0 DEF Taken
    <3>2. read_buffer_' \in Seq(Reqs \X (1..6))
      <4>1. CASE Consume(Taken(swallow_size_))
        BY <2>7, <3>1, <4>1, Consumed DEF swallow
      <4>2. CASE read_buffer_' = read_buffer_
        BY <4>2 DEF TypeOK
      <4>. QED
        BY <2>7, <4>1, <4>2 DEF swallow
    <3>3. swallow_size_' \in 0..2 /\ state_' \in States
      <4>1. swallow_size_ \in 0..2 /\ swallow_size_' \in {swallow_size_, swallow_size_ - n} /\ state_' \in {state_, "new_cmd"}
        BY <2>7, <3>1 DEF swallow, TypeOK
      <4>2. state_ \in States /\ "new_cmd" \in States
        BY DEF TypeOK, States
      <4>. QED
        BY <3>1, <4>1, <4>2
    <3>. QED
      BY <2>7, <3>2, <3>3 DEF TypeOK, swallow, LoopUnchanged, replyVars
  <2>8. CASE read_more
    <3>1. PICK n \in 1..Len(net) : /\ read_buffer_' = read_buffer_ \o SubSeq(net, 1, n)
                                   /\ net' = SubSeq(net, n + 1, Len(net))
      BY <2>8 DEF read_more
    <3>2. read_buffer_' \in Seq(Reqs \X (1..6)) /\ net' \in Seq(Reqs \X (1..6))
      BY <3>1, BytesMove
    <3>. QED
      BY <2>8, <3>2 DEF TypeOK, read_more, LoopUnchanged, replyVars
  <2>9. CASE read_extras
    <3>1. PICK n \in 1..next_data_len_ : n <= Len(net) /\ next_data_len_' = next_data_len_ - n
                                         /\ net' = SubSeq(net, n + 1, Len(net))
      BY <2>9 DEF read_extras
    <3>2. net' \in Seq(Reqs \X (1..6))
      <4>1. net \in Seq(Reqs \X (1..6)) /\ n \in 0..Len(net)
        BY <1>0, <3>1 DEF TypeOK
      <4>. QED
        BY <3>1, <4>1, Suffix
    <3>3. next_data_len_' \in 0..4
      <4>1. next_data_len_ \in 0..4
        BY DEF TypeOK
      <4>. QED
        BY <3>1, <4>1
    <3>. QED
      BY <2>9, <3>2, <3>3 DEF TypeOK, read_extras, LoopUnchanged, replyVars
  <2>10. CASE leave
    BY <2>10 DEF TypeOK, leave, LoopUnchanged, replyVars, readVars
  <2>11. CASE write
    <3>1. state_' \in States /\ next_state_' \in States /\ pc' \in {"idle", "process", "behind"}
      BY <2>11 DEF TypeOK, write, next_request, States
    <3>. QED
      BY <2>11, <3>1 DEF TypeOK, write, LoopUnchanged, replyVars, readVars
  <2>12. CASE close
    BY <2>12 DEF TypeOK, close, LoopUnchanged, replyVars, readVars, States
  <2>. QED
    BY <1>8, <2>1, <2>2, <2>3, <2>4, <2>5, <2>6, <2>7, <2>8, <2>9, <2>10, <2>11, <2>12 DEF process
<1>9. CASE Done \/ UNCHANGED vars
  BY <1>9 DEF TypeOK, Done, vars, streamVars, readVars, replyVars
<1>. QED
  BY <1>1, <1>2, <1>3, <1>4, <1>5, <1>6, <1>7, <1>8, <1>9 DEF Next

LEMMA PeerInit ==
  ASSUME Init
  PROVE  PeerInv
<1>0. MaxReq \in Nat /\ BatchLimit \in Nat /\ 0 < BatchLimit
  BY PeerCacheAssumption
<1>1. TypeOK
  <2>1. cache_buf_ \in [Reqs -> 0..MaxReq] /\ offset_ \in 0..MaxReq /\ cur \in 0..MaxReq /\ process_reqest_count \in 0..BatchLimit
    BY <1>0 DEF Init
  <2>2. /\ sent \in Seq(Kinds) /\ received \in Seq(0..MaxReq) /\ write_buf_ \in Seq(Reply) /\ writing \in Seq(Reply)
        /\ next_data_len_ \in 0..4 /\ swallow_size_ \in 0..2 /\ state_ \in States /\ next_state_ \in States
    BY DEF Init, States
  <2>3. net \in Seq(Reqs \X (1..6)) /\ read_buffer_ \in Seq(Reqs \X (1..6))
    BY DEF Init
  <2>4. /\ broken \in BOOLEAN /\ alive \in BOOLEAN /\ uploading \in BOOLEAN /\ pc \in {"idle", "process", "behind"}
        /\ op \in {"none", "read", "write", "written"} /\ cache_items_ \subseteq Reqs
    BY DEF Init
  <2>. QED
    BY <2>1, <2>2, <2>3, <2>4 DEF TypeOK
<1>2. Control
  BY <1>0 DEF Init, Control, NeverOrphaned
<1>3. Parts /\ Left = 0
  BY DEF Init, Parts, Left
<1>4. Aligned(read_buffer_ \o net, Sizes, cur, Left, ~broken)
  <2>1. read_buffer_ \o net = <<>> /\ cur = 0 /\ sent = <<>>
    BY DEF Init
  <2>2. Len(read_buffer_ \o net) = 0 /\ Len(sent) = 0
    BY <2>1
  <2>3. sent \in Seq(Kinds)
    BY <2>1
  <2>4. Len(Sizes) = 0
    BY <2>2, <2>3, SizesType
  <2>. QED
    BY <1>3, <2>1, <2>2, <2>4 DEF Aligned, Cuts
<1>5. Replies
  <2>1. Outgoing = <<>> /\ Answered = 0 /\ received = <<>> /\ sent = <<>> /\ offset_ = 0
    BY DEF Init, Outgoing, Answered
  <2>2. Len(Outgoing) = 0 /\ Len(received) = 0 /\ Len(sent) = 0
    BY <2>1
  <2>. QED
    BY <1>0, <2>1, <2>2 DEF Replies, RepliesInOrder, Alone
<1>. QED
  BY <1>1, <1>2, <1>3, <1>4, <1>5 DEF PeerInv, Framing

\* The inductive invariant: types, control, the framing of the stream and the
\* replies under way.
THEOREM PeerInvariant == Spec => []PeerInv
<1>1. Init => PeerInv
  BY PeerInit
<1>2. PeerInv /\ [Next]_vars => PeerInv'
  <2>1. SUFFICES ASSUME PeerInv, [Next]_vars PROVE PeerInv'
    OBVIOUS
  <2>2. TypeOK /\ Control /\ Framing /\ Parts /\ Replies
    BY <2>1 DEF PeerInv, Framing
  <2>3. Control'
    BY <2>1, <2>2, ControlStep
  <2>4. Framing'
    BY <2>1, <2>2, FramingStep
  <2>5. Replies'
    BY <2>1, <2>2, RepliesStep
  <2>6. TypeOK'
    BY <2>1, <2>2, TypeStep
  <2>. QED
    BY <2>3, <2>4, <2>5, <2>6 DEF PeerInv
<1>. QED
  BY <1>1, <1>2, PTL DEF Spec

\* Every variable of the connection and its client keeps its type, however the
\* bytes are cut; no slot or count leaves its range.
THEOREM PeerTypes == Spec => []TypeOK
<1>1. PeerInv => TypeOK
  BY DEF PeerInv
<1>. QED
  BY <1>1, PeerInvariant, PTL

\* process, handle_read, handle_write and handle_timer never leave a living
\* connection without an operation or a timer that will call it again.
THEOREM NoConnectionIsOrphaned == Spec => []NeverOrphaned
<1>1. PeerInv => NeverOrphaned
  BY DEF PeerInv, Control
<1>. QED
  BY <1>1, PeerInvariant, PTL

\* However requests are cut, refused and batched, the replies come in the
\* order of the requests, one each.
THEOREM RepliesAreInOrder == Spec => []RepliesInOrder
<1>1. PeerInv => RepliesInOrder
  BY DEF PeerInv, Replies
<1>. QED
  BY <1>1, PeerInvariant, PTL

\* reset_for_new_cmd gives up no slot and no item a reply still points at.
THEOREM PendingStaysIntact == Spec => []PendingIntact
<1>1. PeerInv => PendingIntact
  <2>1. SUFFICES ASSUME PeerInv PROVE PendingIntact
    OBVIOUS
  <2>2. TypeOK /\ Control /\ Replies
    BY <2>1 DEF PeerInv
  <2>3. write_buf_ \in Seq(Reply) /\ writing \in Seq(Reply)
    BY <2>2, Facts
  <2>4. ToSet(write_buf_) \cup (IF op = "write" THEN ToSet(writing) ELSE {}) \subseteq
          {Outgoing[i] : i \in 1..Len(Outgoing)}
    <3>1. CASE op = "write"
      <4>1. write_buf_ = <<>> /\ Outgoing = writing
        BY <2>2, <3>1 DEF Control, Outgoing
      <4>2. ToSet(write_buf_) = {}
        BY <4>1 DEF ToSet
      <4>. QED
        BY <3>1, <4>1, <4>2 DEF ToSet
    <3>2. CASE op # "write"
      BY <3>2 DEF ToSet, Outgoing
    <3>. QED
      BY <3>1, <3>2
  <2>5. \A i \in 1..Len(Outgoing) :
          /\ Outgoing[i].slot <= offset_ /\ cache_buf_[Outgoing[i].slot] = Outgoing[i].req
          /\ Outgoing[i].item => Outgoing[i].req \in cache_items_
    BY <2>2 DEF Replies
  <2>. QED
    BY <2>4, <2>5 DEF PendingIntact
<1>. QED
  BY <1>1, PeerInvariant, PTL

\* The loop and the stream agree where a request begins, also behind a body
\* that was swallowed, refused or cut in two.
THEOREM StreamIsFramed == Spec => []Framed
<1>1. PeerInv => Framed
  <2>1. SUFFICES ASSUME PeerInv, Have > 0
                 PROVE  CASE state_ \in {"header", "new_cmd"} -> Head(read_buffer_) = <<cur + 1, 1>>
                          [] state_ = "fixed" -> Head(read_buffer_) = <<cur, 2>>
                          [] state_ \in {"extras", "extras2"} /\ next_data_len_ > 0 ->
                                Head(read_buffer_)[1] = cur
                          [] state_ = "swallow" /\ swallow_size_ > 0 -> Head(read_buffer_)[1] = cur
                          [] OTHER -> TRUE
    BY DEF Framed
  <2>2. TypeOK /\ Framing /\ Parts
    BY <2>1 DEF PeerInv, Framing
  <2>3. Len(read_buffer_ \o net) > 0 /\ (read_buffer_ \o net)[1] = Head(read_buffer_)
    BY <2>1, <2>2, Pending, Facts, SMTT(30)
  <2>4. Head(read_buffer_) = Expected(Sizes, cur, Left)
    BY <2>2, <2>3 DEF Framing, Aligned
  <2>5. Left = 0 => Head(read_buffer_) = <<cur + 1, 1>>
    BY <2>4 DEF Expected
  <2>6. Left # 0 => Head(read_buffer_) = <<cur, Sizes[cur] - Left + 1>>
    BY <2>4 DEF Expected
  <2>7. next_data_len_ \in Nat /\ swallow_size_ \in Nat
    BY <2>2, Facts
  <2>8. CASE state_ \in {"header", "new_cmd"}
    BY <2>5, <2>8 DEF Left
  <2>9. CASE state_ = "fixed"
    <3>1. Left = 1 + BodyLength[sent[cur]] /\ cur >= 1 /\ HasFixed(sent[cur])
      BY <2>2, <2>9 DEF Left, Parts
    <3>2. Left \in Nat /\ (Left > 0 => cur \in 1..Len(sent))
      BY <2>2, LeftBound
    <3>3. cur \in 1..Len(sent)
      BY <2>2, <3>1, Facts DEF Parts
    <3>4. Sizes[cur] = RequestSize(sent[cur]) /\ BodyLength[sent[cur]] \in Nat
      <4>1. sent \in Seq(Kinds)
        BY <2>2 DEF TypeOK
      <4>2. sent[cur] \in Kinds
        BY <3>3, <4>1
      <4>3. Sizes[cur] = RequestSize(sent[cur])
        BY <3>3, <4>1, SizesType
      <4>. QED
        BY <4>2, <4>3, Bodies
    <3>5. Sizes[cur] = 2 + BodyLength[sent[cur]]
      BY <3>1, <3>4 DEF RequestSize
    <3>6. Left # 0 /\ Sizes[cur] - Left + 1 = 2
      BY <3>1, <3>4, <3>5
    <3>. QED
      BY <2>6, <2>9, <3>6
  <2>10. CASE state_ \in {"extras", "extras2"}
    BY <2>6, <2>7, <2>10 DEF Left
  <2>11. CASE state_ = "swallow"
    BY <2>6, <2>7, <2>11 DEF Left
  <2>12. CASE state_ \notin {"header", "new_cmd", "fixed", "extras", "extras2", "swallow"}
    BY <2>12
  <2>. QED
    BY <2>8, <2>9, <2>10, <2>11, <2>12
<1>. QED
  BY <1>1, PeerInvariant, PTL
=============================================================================
