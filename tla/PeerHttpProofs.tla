--------------------------- MODULE PeerHttpProofs ---------------------------
(***************************************************************************)
(* Proofs about an HTTP connection, for any sequence of requests, any way  *)
(* their bytes are cut, and any limits on headers and next requests.       *)
(***************************************************************************)
EXTENDS PeerHttp, DataLemmas

RequestSize(k) == HeaderLength[k] + BodyLength[k]
Sizes == [n \in 1..Len(sent) |-> RequestSize(sent[n])]

\* What the loop still has to take of the request it is reading, and how many
\* requests have a reply, sent or not.
Left == IF state_ = "extras" THEN next_data_len_ ELSE 0
Replied == IF state_ = "extras" THEN cur - 1 ELSE cur

Outgoing == IF op = "write" THEN writing ELSE write_buf_

\* Where the handlers are, and what is under way for each.  A pass reads one
\* header.
Control ==
    /\ pc # "idle" => alive /\ op = "none"
    /\ ~alive => op = "none"
    /\ op # "none" => write_buf_ = <<>>
    /\ NeverOrphaned
    /\ next_state_ = "new_cmd"
    /\ (state_ = "new_cmd" /\ pc # "behind") => write_buf_ = <<>>
    /\ (state_ \in {"new_cmd", "header"} /\ pc = "process") => process_reqest_count = 0

\* The item kept is that of the request just answered, or of a late POST.
Kept == {0} \cup late
Items ==
    /\ LostOnlyBehindLatePost
    /\ state_ \in {"header", "extras"} => cache_item_ \in Kept
    /\ state_ = "write" => cache_item_ \in Kept \cup {cur}
    /\ (state_ = "write" /\ process_reqest_count = 0) => cache_item_ \in Kept
    /\ (state_ = "extras" /\ (pc # "process" \/ process_reqest_count = 0)) => cur \in late
    /\ state_ = "write" => pc = "process"

\* The requests the buffers and the loop name have been sent.
Within(p, m) == \A i \in 1..Len(p) : p[i][1] \in 1..m
Parts ==
    /\ Within(read_buffer_, Len(sent)) /\ Within(net, Len(sent))
    /\ cur <= Len(sent) /\ Len(sent) <= MaxReq
    /\ state_ \in {"extras", "write"} => cur >= 1
    /\ (state_ = "extras" /\ intact) => sent[cur] = "post"

\* While nothing is left unread the bytes go on where the loop is.
InStep == intact => Aligned(read_buffer_ \o net, Sizes, cur, Left, ~broken)
Framing == Parts /\ InStep

Faultless == {"get", "old", "bare"}

\* The replies collected and those being written follow those received, and
\* their bytes are still there.
Replies ==
    /\ \A i \in 1..Len(Outgoing) : Outgoing[i].req \in request_buf_
    /\ intact =>
         /\ Len(received) <= Len(sent)
         /\ RepliesInOrder
         /\ alive => Len(received) + Len(Outgoing) = Replied
         /\ alive => \A i \in 1..Len(Outgoing) :
               /\ Outgoing[i].req = Len(received) + i
               /\ Outgoing[i].refused => sent[Len(received) + i] \notin Faultless

HttpInv == TypeOK /\ Control /\ Items /\ Framing /\ Replies
-----------------------------------------------------------------------------
(* Requests and what reading one can do.                                   *)

LEMMA Lengths ==
  /\ Kinds \subseteq {"get", "old", "post", "bare", "large", "bad", "long"}
  /\ \A k \in Kinds :
        /\ HeaderLength[k] \in 2..5 /\ BodyLength[k] \in {0, 2}
        /\ RequestSize(k) \in 1..5
        /\ BodyLength[k] = 2 <=> k \in {"post", "large"}
  /\ HeaderLength["post"] = 2
<1>1. Kinds \subseteq {"get", "old", "post", "bare", "large", "bad", "long"}
  BY PeerHttpAssumption DEF HeaderLength
<1>. QED
  BY <1>1 DEF HeaderLength, BodyLength, RequestSize

LEMMA Facts ==
  ASSUME TypeOK
  PROVE  /\ sent \in Seq(Kinds) /\ Len(sent) \in Nat
         /\ received \in Seq([req: 0..MaxReq, refused: BOOLEAN]) /\ Len(received) \in Nat
         /\ net \in Seq(Nat \X Nat) /\ read_buffer_ \in Seq(Nat \X Nat)
         /\ Have \in Nat /\ Len(net) \in Nat
         /\ cur \in Nat /\ next_data_len_ \in 0..2
         /\ write_buf_ \in Seq(Reply) /\ writing \in Seq(Reply)
         /\ Len(write_buf_) \in Nat /\ Len(writing) \in Nat
         /\ MaxReq \in Nat /\ process_reqest_count \in 0..1
<1>1. /\ sent \in Seq(Kinds) /\ received \in Seq([req: 0..MaxReq, refused: BOOLEAN])
      /\ write_buf_ \in Seq(Reply) /\ writing \in Seq(Reply)
  BY DEF TypeOK
<1>2. net \in Seq(Reqs \X (1..5)) /\ read_buffer_ \in Seq(Reqs \X (1..5))
  BY DEF TypeOK
<1>3. \A S, T : S \subseteq T => Seq(S) \subseteq Seq(T)
  OBVIOUS
<1>4. (Reqs \X (1..5)) \subseteq (Nat \X Nat)
  BY DEF Reqs
<1>5. Seq(Reqs \X (1..5)) \subseteq Seq(Nat \X Nat)
  BY <1>3, <1>4
<1>6. MaxReq \in Nat
  BY PeerHttpAssumption
<1>7. cur \in Nat /\ next_data_len_ \in 0..2 /\ process_reqest_count \in 0..1
  BY <1>6 DEF TypeOK
<1>8. Len(sent) \in Nat /\ Len(received) \in Nat /\ Len(write_buf_) \in Nat /\ Len(writing) \in Nat
  BY <1>1
<1>9. net \in Seq(Nat \X Nat) /\ read_buffer_ \in Seq(Nat \X Nat)
  BY <1>2, <1>5
<1>10. Have \in Nat /\ Len(net) \in Nat
  BY <1>9 DEF Have
<1>. QED
  BY <1>1, <1>6, <1>7, <1>8, <1>9, <1>10

\* A reply is collected, and the item it may refer to takes the place of the
\* one that was there.
LEMMA Replying ==
  ASSUME process_command \/ write_error
  PROVE  /\ \/ \E item \in BOOLEAN : AddReply(item, FALSE)
            \/ AddReply(FALSE, TRUE)
         /\ \/ cache_item_' = cur' /\ held' = held \cup {cur'}
            \/ cache_item_' = 0 /\ held' = held
            \/ cache_item_' = cache_item_ /\ held' = held
         /\ state_' = "write" /\ next_state_' = "new_cmd"
<1>1. CASE process_get
  BY <1>1, Zenon DEF process_get, AddReply
<1>2. CASE process_update
  BY <1>2, Zenon DEF process_update, AddReply
<1>3. CASE process_delete
  BY <1>3, Zenon DEF process_delete, AddReply
<1>4. CASE write_error
  BY <1>4, Zenon DEF write_error, AddReply
<1>. QED
  BY <1>1, <1>2, <1>3, <1>4 DEF process_command

\* A header is read up to the first end of one.
LEMMA HeaderRead ==
  ASSUME TypeOK, Parts, read_header
  PROVE  \E p \in Ends : \E n \in 1..Len(sent) :
            /\ \A y \in Ends : p <= y
            /\ n = read_buffer_[p][1]
            /\ process_request_header(n, read_buffer_[1] = <<n, 1>>)
            /\ Consume(p)
<1>0. Ends \subseteq 1..Have /\ Have \in Nat
  BY Facts DEF Ends
<1>1. Ends \in SUBSET Nat /\ Ends # {} /\ Ends \subseteq 1..Have
  BY <1>0 DEF read_header
<1>2. \E x \in Ends : \A y \in Ends : x <= y
  BY <1>1, Least
<1>3. Min(Ends) \in Ends /\ \A y \in Ends : Min(Ends) <= y
  BY <1>2 DEF Min
<1>4. PICK p : p = Min(Ends)
  OBVIOUS
<1>5. p \in Ends /\ \A y \in Ends : p <= y
  BY <1>3, <1>4
<1>6. read_buffer_[p][1] \in 1..Len(sent)
  BY <1>1, <1>5 DEF Parts, Within, Have
<1>7. /\ process_request_header(read_buffer_[p][1], read_buffer_[1] = <<read_buffer_[p][1], 1>>)
      /\ Consume(p)
  BY <1>4 DEF read_header
<1>. QED
  BY <1>5, <1>6, <1>7

\* Then the body is waited for, the command is run, or the request is refused.
LEMMA HeaderOutcome ==
  ASSUME TypeOK, NEW n \in 1..Len(sent), NEW alone \in BOOLEAN, process_request_header(n, alone)
  PROVE  /\ cur' = n
         /\ keepalive' \in BOOLEAN /\ content_length_' \in {0, 2} /\ intact' \in BOOLEAN
         /\ intact' => intact
         /\ \/ /\ state_' = "extras" /\ NoReply /\ next_data_len_' = 2
               /\ intact' => sent[n] = "post"
            \/ /\ process_command /\ next_data_len_' = next_data_len_
               /\ sent[n] \in {"get", "old", "long", "bare"}
            \/ /\ write_error /\ next_data_len_' = next_data_len_
               /\ intact' => (~alone \/ sent[n] = "bad")
<1> DEFINE kind == sent[n]
           length == IF BodyLength[kind] > 0 THEN BodyLength[kind] ELSE content_length_
<1>0. kind \in Kinds /\ length \in {0, 2} /\ keepalive \in BOOLEAN /\ intact \in BOOLEAN
      /\ content_length_ \in {0, 2}
  <2>1. kind \in Kinds
    BY Facts
  <2>2. BodyLength[kind] \in {0, 2}
    BY <2>1, Lengths
  <2>. QED
    BY <2>1, <2>2 DEF TypeOK
<1>1. cur' = n
  BY DEF process_request_header
<1>9. \/ /\ ~alone \/ kind = "bad"
         /\ keepalive' \in {TRUE, keepalive}
         /\ write_error
         /\ UNCHANGED <<content_length_, next_data_len_, intact>>
      \/ /\ alone /\ kind # "bad"
         /\ keepalive' = (keepalive \/ kind # "old")
         /\ content_length_' = length
         /\ \/ kind = "large" /\ write_error /\ intact' = FALSE /\ UNCHANGED next_data_len_
            \/ /\ kind \in {"post", "bare"} /\ length > 0
               /\ next_data_len_' = length /\ state_' = "extras"
               /\ intact' = (intact /\ kind = "post")
               /\ NoReply
            \/ /\ kind \in {"get", "old", "long"} \/ (kind = "bare" /\ length = 0)
               /\ process_command /\ UNCHANGED <<next_data_len_, intact>>
  BY Zenon DEF process_request_header
<1> HIDE DEF kind, length
<1>2. CASE /\ ~alone \/ kind = "bad"
           /\ keepalive' \in {TRUE, keepalive}
           /\ write_error
           /\ UNCHANGED <<content_length_, next_data_len_, intact>>
  BY <1>0, <1>1, <1>2, Zenon DEF kind
<1>3. CASE /\ alone /\ kind # "bad"
           /\ keepalive' = (keepalive \/ kind # "old")
           /\ content_length_' = length
           /\ \/ kind = "large" /\ write_error /\ intact' = FALSE /\ UNCHANGED next_data_len_
              \/ /\ kind \in {"post", "bare"} /\ length > 0
                 /\ next_data_len_' = length /\ state_' = "extras"
                 /\ intact' = (intact /\ kind = "post")
                 /\ NoReply
              \/ /\ kind \in {"get", "old", "long"} \/ (kind = "bare" /\ length = 0)
                 /\ process_command /\ UNCHANGED <<next_data_len_, intact>>
  <2>1. keepalive' \in BOOLEAN /\ content_length_' \in {0, 2}
    BY <1>0, <1>3, Zenon
  <2>2. CASE kind = "large" /\ write_error /\ intact' = FALSE /\ UNCHANGED next_data_len_
    BY <1>1, <2>1, <2>2, Zenon
  <2>3. CASE /\ kind \in {"post", "bare"} /\ length > 0
             /\ next_data_len_' = length /\ state_' = "extras"
             /\ intact' = (intact /\ kind = "post")
             /\ NoReply
    <3>1. next_data_len_' = 2
      BY <1>0, <2>3
    <3>2. intact' \in BOOLEAN /\ (intact' => intact) /\ (intact' => kind = "post")
      BY <1>0, <2>3, Zenon
    <3>. QED
      BY <1>1, <2>1, <2>3, <3>1, <3>2, Zenon DEF kind
  <2>4. CASE /\ kind \in {"get", "old", "long"} \/ (kind = "bare" /\ length = 0)
             /\ process_command /\ UNCHANGED <<next_data_len_, intact>>
    BY <1>0, <1>1, <2>1, <2>4, Zenon DEF kind
  <2>. QED
    BY <1>3, <2>2, <2>3, <2>4, Zenon
<1>. QED
  BY <1>2, <1>3, <1>9, Zenon

\* Reading a header leaves a body to read or a reply.
LEMMA HeaderEffect ==
  ASSUME TypeOK, Parts, read_header
  PROVE  /\ \/ state_' = "extras" /\ NoReply
            \/ process_command \/ write_error
         /\ cur' \in 1..Len(sent) /\ pc' = pc /\ late' = late
         /\ process_reqest_count' = process_reqest_count + 1
         /\ InLoop("header") /\ LoopUnchanged
<1>1. PICK p \in Ends, n \in 1..Len(sent) :
         process_request_header(n, read_buffer_[1] = <<n, 1>>)
  BY HeaderRead
<1>2. PICK alone \in BOOLEAN : alone = (read_buffer_[1] = <<n, 1>>)
  OBVIOUS
<1>3. process_request_header(n, alone)
  BY <1>1, <1>2
<1>4. cur' = n /\ ((state_' = "extras" /\ NoReply) \/ process_command \/ write_error)
  BY <1>3, HeaderOutcome
<1>5. /\ pc' = pc /\ late' = late /\ process_reqest_count' = process_reqest_count + 1
      /\ InLoop("header") /\ LoopUnchanged
  BY DEF read_header
<1>. QED
  BY <1>4, <1>5
-----------------------------------------------------------------------------
(* Control.                                                                *)

LEMMA ControlStep ==
  ASSUME TypeOK, Control, Parts, [Next]_vars
  PROVE  Control'
<1>0. process_reqest_count \in 0..1
  BY Facts
<1>1. CASE (\E k \in Kinds : Send(k)) \/ Break \/ Deliver \/ Done \/ UNCHANGED vars
  BY <1>1 DEF Control, NeverOrphaned, Send, Break, Deliver, Done, vars, streamVars, requestVars,
              replyVars
<1>2. CASE handle_read
  BY <1>2 DEF Control, NeverOrphaned, handle_read, Enter, Open, Closed
<1>3. CASE handle_write
  BY <1>3 DEF Control, NeverOrphaned, handle_write, Enter, Open, Closed
<1>4. CASE after_process
  BY <1>4 DEF Control, NeverOrphaned, after_process, Open, Closed
<1>5. CASE reset_for_new_cmd \/ copy_extras \/ read_more \/ read_extras \/ leave \/ close
  BY <1>5 DEF Control, NeverOrphaned, reset_for_new_cmd, copy_extras, read_more, read_extras, leave,
              close, InLoop, LoopUnchanged, NoReply, replyVars
<1>6. CASE read_header
  <2>1. /\ (state_' = "extras" /\ NoReply) \/ process_command \/ write_error
        /\ pc' = pc /\ InLoop("header") /\ LoopUnchanged
    BY <1>6, HeaderEffect
  <2>2. CASE state_' = "extras" /\ NoReply
    BY <2>1, <2>2 DEF Control, NeverOrphaned, InLoop, LoopUnchanged, NoReply, replyVars
  <2>3. CASE process_command \/ write_error
    <3>1. state_' = "write" /\ next_state_' = "new_cmd"
      BY <2>3, Replying
    <3>. QED
      BY <2>1, <3>1 DEF Control, NeverOrphaned, InLoop, LoopUnchanged
  <2>. QED
    BY <2>1, <2>2, <2>3
<1>7. CASE header_too_large
  <2>1. state_' = "write" /\ next_state_' = "new_cmd"
    BY <1>7, Replying DEF header_too_large
  <2>. QED
    BY <1>7, <2>1 DEF Control, NeverOrphaned, header_too_large, InLoop, LoopUnchanged
<1>8. CASE process_post
  <2>1. state_' = "write" /\ next_state_' = "new_cmd"
    BY <1>8, Replying DEF process_post
  <2>. QED
    BY <1>8, <2>1 DEF Control, NeverOrphaned, process_post, InLoop, LoopUnchanged
<1>9. CASE write
  BY <1>0, <1>9 DEF Control, NeverOrphaned, write, InLoop, LoopUnchanged, Another, replyVars
<1>. QED
  BY <1>1, <1>2, <1>3, <1>4, <1>5, <1>6, <1>7, <1>8, <1>9 DEF Next, process
-----------------------------------------------------------------------------
(* Items.                                                                  *)

\* A reply takes the place of an item that only a late POST can have left.
LEMMA ItemReplaced ==
  ASSUME TypeOK, Items, state_ \in {"header", "extras"}, alive, alive' = alive,
         process_command \/ write_error,
         pc' = "process", late' = late, cur' \in 1..MaxReq,
         process_reqest_count' = 0 => cur' \in late
  PROVE  Items'
<1>1. 0 \notin held
  BY Facts DEF TypeOK, Reqs
<1>2. /\ held \ {cache_item_} \subseteq late /\ cache_item_ \in {0} \cup late
  BY DEF Items, LostOnlyBehindLatePost, Kept
<1>3. held \subseteq late
  BY <1>1, <1>2
<1>4. /\ \/ cache_item_' = cur' /\ held' = held \cup {cur'}
         \/ cache_item_' = 0 /\ held' = held
         \/ cache_item_' = cache_item_ /\ held' = held
      /\ state_' = "write"
  BY Replying
<1>5. \A n \in held' \ {cache_item_'} : n \in late'
  BY <1>3, <1>4
<1>6. cache_item_' \in Kept' \cup {cur'}
  BY <1>2, <1>4 DEF Kept
<1>7. process_reqest_count' = 0 => cache_item_' \in Kept'
  BY <1>6 DEF Kept
<1>. QED
  BY <1>4, <1>5, <1>6, <1>7 DEF Items, LostOnlyBehindLatePost

LEMMA ItemsStep ==
  ASSUME TypeOK, Control, Items, Parts, [Next]_vars
  PROVE  Items'
<1>0. process_reqest_count \in 0..1
  BY Facts
<1>1. CASE (\E k \in Kinds : Send(k)) \/ Break \/ Deliver \/ Done \/ UNCHANGED vars
  BY <1>1 DEF Items, LostOnlyBehindLatePost, Kept, Send, Break, Deliver, Done, vars, streamVars,
              requestVars, replyVars
<1>2. CASE handle_read
  BY <1>2 DEF Items, LostOnlyBehindLatePost, Kept, handle_read, Enter, Open, Closed, requestVars
<1>3. CASE handle_write
  BY <1>3 DEF Items, LostOnlyBehindLatePost, Kept, handle_write, Enter, Open, Closed, requestVars
<1>4. CASE after_process
  BY <1>4 DEF Items, LostOnlyBehindLatePost, Kept, after_process, Open, Closed, requestVars
<1>5. CASE reset_for_new_cmd
  BY <1>5 DEF Items, LostOnlyBehindLatePost, Kept, reset_for_new_cmd, InLoop, LoopUnchanged
<1>6. CASE copy_extras \/ read_more \/ read_extras \/ close
  BY <1>6 DEF Items, LostOnlyBehindLatePost, Kept, copy_extras, read_more, read_extras,
              close, InLoop, LoopUnchanged, NoReply, replyVars, requestVars
<1>7. CASE leave
  BY <1>7 DEF Items, LostOnlyBehindLatePost, Kept, leave, InLoop, LoopUnchanged, NoReply, replyVars,
              requestVars
<1>8. CASE write
  BY <1>0, <1>8 DEF Items, LostOnlyBehindLatePost, Kept, Control, write, InLoop, LoopUnchanged,
                    Another, replyVars, requestVars
<1>9. CASE read_header
  <2>1. /\ (state_' = "extras" /\ NoReply) \/ process_command \/ write_error
        /\ cur' \in 1..Len(sent) /\ pc' = pc /\ late' = late
        /\ process_reqest_count' = process_reqest_count + 1
        /\ InLoop("header") /\ LoopUnchanged
    BY <1>9, HeaderEffect
  <2>2. process_reqest_count' = 1 /\ pc' = "process"
    BY <2>1 DEF Control, InLoop
  <2>3. cur' \in 1..MaxReq
    BY <2>1, Facts DEF Parts
  <2>4. CASE state_' = "extras" /\ NoReply
    BY <2>1, <2>2, <2>4 DEF Items, LostOnlyBehindLatePost, Kept, InLoop, LoopUnchanged, NoReply,
                             replyVars
  <2>5. CASE process_command \/ write_error
    BY <2>1, <2>2, <2>3, <2>5, ItemReplaced DEF InLoop, LoopUnchanged
  <2>. QED
    BY <2>1, <2>4, <2>5
<1>10. CASE header_too_large
  <2>1. /\ write_error /\ pc' = pc /\ late' = late /\ cur' = read_buffer_[1][1] /\ Have >= HeaderMax
        /\ process_reqest_count' = process_reqest_count + 1
        /\ InLoop("header") /\ LoopUnchanged
    BY <1>10 DEF header_too_large
  <2>2. process_reqest_count' = 1 /\ pc' = "process"
    BY <2>1 DEF Control, InLoop
  <2>3. cur' \in 1..MaxReq
    <3>1. 1 \in 1..Have
      BY <2>1, Facts, PeerHttpAssumption
    <3>. QED
      BY <2>1, <3>1, Facts DEF Parts, Within, Have
  <2>. QED
    BY <2>1, <2>2, <2>3, ItemReplaced DEF InLoop, LoopUnchanged
<1>11. CASE process_post
  <2>1. /\ process_command \/ write_error
        /\ pc' = pc /\ late' = late /\ cur' = cur /\ InLoop("extras") /\ LoopUnchanged
        /\ process_reqest_count' = process_reqest_count
    BY <1>11 DEF process_post
  <2>2. process_reqest_count' = 0 => cur' \in late
    BY <2>1 DEF Items, InLoop
  <2>3. cur' \in 1..MaxReq
    BY <2>1, Facts DEF Parts, InLoop
  <2>. QED
    BY <2>1, <2>2, <2>3, ItemReplaced DEF InLoop, LoopUnchanged
<1>. QED
  BY <1>1, <1>2, <1>3, <1>4, <1>5, <1>6, <1>7, <1>8, <1>9, <1>10, <1>11 DEF Next, process
-----------------------------------------------------------------------------
(* The stream of requests.                                                 *)

LEMMA TokensOf ==
  ASSUME NEW n \in Nat, NEW k \in Kinds
  PROVE  /\ Tokens(n, k) \in Seq(Nat \X Nat)
         /\ n \in Reqs => Tokens(n, k) \in Seq(Reqs \X (1..5))
         /\ Len(Tokens(n, k)) = RequestSize(k)
         /\ \A i \in 1..RequestSize(k) : Tokens(n, k)[i] = <<n, i>>
<1>1. Tokens(n, k) = [i \in 1..RequestSize(k) |-> <<n, i>>] /\ RequestSize(k) \in 1..5
  BY Lengths DEF Tokens, RequestSize
<1> DEFINE f == [i \in 1..RequestSize(k) |-> <<n, i>>]
<1>2. f \in [1..RequestSize(k) -> Nat \X Nat]
  <2>1. \A i \in 1..RequestSize(k) : <<n, i>> \in Nat \X Nat
    BY <1>1
  <2>. QED
    BY <2>1
<1>3. n \in Reqs => f \in [1..RequestSize(k) -> Reqs \X (1..5)]
  <2>1. n \in Reqs => \A i \in 1..RequestSize(k) : <<n, i>> \in Reqs \X (1..5)
    BY <1>1
  <2>. QED
    BY <2>1
<1>4. \A i \in 1..RequestSize(k) : f[i] = <<n, i>>
  OBVIOUS
<1> HIDE DEF f
<1>5. f \in Seq(Nat \X Nat) /\ Len(f) = RequestSize(k)
  BY <1>1, <1>2
<1>6. n \in Reqs => f \in Seq(Reqs \X (1..5))
  BY <1>1, <1>3
<1>. QED
  BY <1>1, <1>4, <1>5, <1>6 DEF f

LEMMA WithinCat ==
  ASSUME NEW S, NEW r \in Seq(S), NEW p \in Seq(S), NEW m \in Nat, Within(r, m), Within(p, m)
  PROVE  Within(r \o p, m)
<1>1. Len(r) \in Nat /\ Len(p) \in Nat
  OBVIOUS
<1>2. /\ Len(r \o p) = Len(r) + Len(p)
      /\ \A i \in 1..(Len(r) + Len(p)) : (r \o p)[i] = IF i <= Len(r) THEN r[i] ELSE p[i - Len(r)]
  BY Cat
<1>3. SUFFICES ASSUME NEW i \in 1..(Len(r) + Len(p)) PROVE (r \o p)[i][1] \in 1..m
  BY <1>2 DEF Within
<1>4. CASE i <= Len(r)
  BY <1>1, <1>2, <1>4 DEF Within
<1>5. CASE i > Len(r)
  <2>1. i - Len(r) \in 1..Len(p) /\ ~(i <= Len(r))
    BY <1>1, <1>5
  <2>. QED
    BY <1>2, <2>1 DEF Within
<1>. QED
  BY <1>1, <1>4, <1>5

LEMMA WithinPiece ==
  ASSUME NEW S, NEW p \in Seq(S), NEW m \in Nat, Within(p, m), NEW n \in 0..Len(p)
  PROVE  Within(SubSeq(p, 1, n), m) /\ Within(SubSeq(p, n + 1, Len(p)), m)
<1>0. n \in Nat /\ Len(p) \in Nat
  OBVIOUS
<1>1. Len(SubSeq(p, 1, n)) = n /\ \A i \in 1..n : SubSeq(p, 1, n)[i] = p[i] /\ i \in 1..Len(p)
  BY <1>0, Prefix
<1>2. Within(SubSeq(p, 1, n), m)
  BY <1>1 DEF Within
<1> DEFINE q == SubSeq(p, n + 1, Len(p))
<1>3. Len(q) = Len(p) - n /\ \A i \in 1..(Len(p) - n) : q[i] = p[i + n]
  BY Suffix
<1> HIDE DEF q
<1>4. \A i \in 1..(Len(p) - n) : i + n \in 1..Len(p)
  BY <1>0
<1>5. Within(q, m)
  BY <1>3, <1>4 DEF Within
<1>. QED
  BY <1>2, <1>5 DEF q

LEMMA WithinMore ==
  ASSUME NEW p, NEW m \in Nat, NEW k \in Nat, m <= k, Within(p, m)
  PROVE  Within(p, k)
  BY DEF Within

\* What a step can do to the bytes: nothing, move them to the buffer, take them
\* from the buffer or from the network, lose them, or put more on the way.
LEMMA StreamMoves ==
  ASSUME TypeOK, Parts, [Next]_vars
  PROVE  \/ UNCHANGED <<sent, read_buffer_, net>>
         \/ /\ sent' = sent
            /\ \E n \in 0..Len(net) : /\ read_buffer_' = read_buffer_ \o SubSeq(net, 1, n)
                                      /\ net' = SubSeq(net, n + 1, Len(net))
         \/ UNCHANGED <<sent, net>> /\ \E n \in 0..Have : Consume(n)
         \/ /\ UNCHANGED <<sent, read_buffer_>>
            /\ \E n \in 0..Len(net) : net' = SubSeq(net, n + 1, Len(net))
         \/ UNCHANGED <<sent, read_buffer_>> /\ net' = <<>>
         \/ /\ read_buffer_' = read_buffer_ /\ Len(sent) < MaxReq
            /\ \E k \in Kinds : /\ sent' = Append(sent, k)
                                /\ net' = net \o Tokens(Len(sent) + 1, k)
<1>0. Have \in Nat /\ Len(net) \in Nat /\ next_data_len_ \in 0..2
  BY Facts
<1>1. CASE (\E k \in Kinds : Send(k)) \/ Break \/ Deliver \/ Done \/ UNCHANGED vars
  BY <1>1 DEF Send, Break, Deliver, Done, vars, streamVars
<1>2. CASE handle_read
  <2>1. sent' = sent
    BY <1>2 DEF handle_read
  <2>2. \/ \E n \in 1..Len(net) : /\ read_buffer_' = read_buffer_ \o SubSeq(net, 1, n)
                                  /\ net' = SubSeq(net, n + 1, Len(net))
        \/ UNCHANGED <<read_buffer_, net>>
    BY <1>2 DEF handle_read
  <2>3. \A n \in 1..Len(net) : n \in 0..Len(net)
    BY <1>0
  <2>. QED
    BY <2>1, <2>2, <2>3
<1>3. CASE handle_write \/ after_process \/ reset_for_new_cmd \/ process_post \/ leave \/ write \/ close
  BY <1>3 DEF handle_write, after_process, reset_for_new_cmd, process_post, leave, write, close,
              LoopUnchanged, streamVars
<1>4. CASE read_header
  <2>1. PICK p \in Ends : Consume(p)
    BY <1>4, HeaderRead
  <2>2. p \in 0..Have
    BY <1>0 DEF Ends
  <2>. QED
    BY <1>4, <2>1, <2>2 DEF read_header, LoopUnchanged
<1>5. CASE header_too_large
  BY <1>0, <1>5 DEF header_too_large, LoopUnchanged
<1>6. CASE copy_extras
  <2> DEFINE tmp == IF Have > next_data_len_ THEN next_data_len_ ELSE Have
  <2>1. tmp \in 0..Have
    BY <1>0
  <2>2. Consume(tmp) /\ UNCHANGED <<sent, net>>
    BY <1>6 DEF copy_extras, LoopUnchanged
  <2> HIDE DEF tmp
  <2>. QED
    BY <2>1, <2>2
<1>7. CASE read_more
  <2>1. /\ sent' = sent
        /\ \E n \in 1..Len(net) : /\ read_buffer_' = read_buffer_ \o SubSeq(net, 1, n)
                                  /\ net' = SubSeq(net, n + 1, Len(net))
    BY <1>7 DEF read_more, LoopUnchanged
  <2>2. \A n \in 1..Len(net) : n \in 0..Len(net)
    BY <1>0
  <2>. QED
    BY <2>1, <2>2
<1>8. CASE read_extras
  <2>1. /\ UNCHANGED <<sent, read_buffer_>>
        /\ \E n \in 1..next_data_len_ : n <= Len(net) /\ net' = SubSeq(net, n + 1, Len(net))
    BY <1>8 DEF read_extras, LoopUnchanged
  <2>2. \A n \in 1..next_data_len_ : n <= Len(net) => n \in 0..Len(net)
    BY <1>0
  <2>. QED
    BY <2>1, <2>2
<1>. QED
  BY <1>1, <1>2, <1>3, <1>4, <1>5, <1>6, <1>7, <1>8 DEF Next, process

LEMMA StreamKept ==
  ASSUME TypeOK, Parts, [Next]_vars
  PROVE  /\ sent' \in Seq(Kinds) /\ Len(sent) <= Len(sent') /\ Len(sent') <= MaxReq
         /\ \A n \in 1..Len(sent) : sent'[n] = sent[n]
         /\ read_buffer_' \in Seq(Reqs \X (1..5)) /\ net' \in Seq(Reqs \X (1..5))
         /\ Within(read_buffer_, Len(sent))' /\ Within(net, Len(sent))'
<1> DEFINE S == Reqs \X (1..5)
<1>0. /\ read_buffer_ \in Seq(S) /\ net \in Seq(S) /\ sent \in Seq(Kinds)
      /\ Within(read_buffer_, Len(sent)) /\ Within(net, Len(sent)) /\ Len(sent) <= MaxReq
  BY DEF TypeOK, Parts
<1>00. Len(sent) \in Nat /\ MaxReq \in Nat
  BY Facts
<1>1. CASE UNCHANGED <<sent, read_buffer_, net>>
  BY <1>0, <1>00, <1>1
<1>2. CASE /\ sent' = sent
           /\ \E n \in 0..Len(net) : /\ read_buffer_' = read_buffer_ \o SubSeq(net, 1, n)
                                     /\ net' = SubSeq(net, n + 1, Len(net))
  <2>1. PICK n \in 0..Len(net) : /\ read_buffer_' = read_buffer_ \o SubSeq(net, 1, n)
                                 /\ net' = SubSeq(net, n + 1, Len(net))
    BY <1>2
  <2> HIDE DEF S
  <2>2. SubSeq(net, 1, n) \in Seq(S) /\ SubSeq(net, n + 1, Len(net)) \in Seq(S)
    BY <1>0, Prefix, Suffix
  <2>3. /\ Within(SubSeq(net, 1, n), Len(sent)) /\ Within(SubSeq(net, n + 1, Len(net)), Len(sent))
    BY <1>0, <1>00, WithinPiece
  <2>4. read_buffer_ \o SubSeq(net, 1, n) \in Seq(S)
    BY <1>0, <2>2, Cat
  <2>5. Within(read_buffer_ \o SubSeq(net, 1, n), Len(sent))
    BY <1>0, <1>00, <2>2, <2>3, WithinCat
  <2>. QED
    BY <1>0, <1>00, <1>2, <2>1, <2>2, <2>3, <2>4, <2>5 DEF S
<1>3. CASE UNCHANGED <<sent, net>> /\ \E n \in 0..Have : Consume(n)
  <2>1. PICK n \in 0..Len(read_buffer_) :
             read_buffer_' = SubSeq(read_buffer_, n + 1, Len(read_buffer_))
    BY <1>3 DEF Consume, Have
  <2> HIDE DEF S
  <2>2. SubSeq(read_buffer_, n + 1, Len(read_buffer_)) \in Seq(S)
    BY <1>0, Suffix
  <2>3. Within(SubSeq(read_buffer_, n + 1, Len(read_buffer_)), Len(sent))
    BY <1>0, <1>00, WithinPiece
  <2>. QED
    BY <1>0, <1>00, <1>3, <2>1, <2>2, <2>3 DEF S
<1>4. CASE /\ UNCHANGED <<sent, read_buffer_>>
           /\ \E n \in 0..Len(net) : net' = SubSeq(net, n + 1, Len(net))
  <2>1. PICK n \in 0..Len(net) : net' = SubSeq(net, n + 1, Len(net))
    BY <1>4
  <2> HIDE DEF S
  <2>2. SubSeq(net, n + 1, Len(net)) \in Seq(S)
    BY <1>0, Suffix
  <2>3. Within(SubSeq(net, n + 1, Len(net)), Len(sent))
    BY <1>0, <1>00, WithinPiece
  <2>. QED
    BY <1>0, <1>00, <1>4, <2>1, <2>2, <2>3 DEF S
<1>5. CASE UNCHANGED <<sent, read_buffer_>> /\ net' = <<>>
  <2>1. <<>> \in Seq(S) /\ Within(<<>>, Len(sent))
    BY DEF Within
  <2>. QED
    BY <1>0, <1>00, <1>5, <2>1 DEF S
<1>6. CASE /\ read_buffer_' = read_buffer_ /\ Len(sent) < MaxReq
           /\ \E k \in Kinds : /\ sent' = Append(sent, k)
                               /\ net' = net \o Tokens(Len(sent) + 1, k)
  <2>1. PICK k \in Kinds : sent' = Append(sent, k) /\ net' = net \o Tokens(Len(sent) + 1, k)
    BY <1>6
  <2>2. /\ Append(sent, k) \in Seq(Kinds) /\ Len(Append(sent, k)) = Len(sent) + 1
        /\ \A n \in 1..Len(sent) : Append(sent, k)[n] = sent[n]
    BY <1>0, Appended
  <2>3. PICK m \in Nat : m = Len(sent) + 1
    BY <1>00
  <2>4. Len(sent) <= m /\ m <= MaxReq /\ m \in Reqs
    BY <1>00, <1>6, <2>3 DEF Reqs
  <2>5. PICK t : t = Tokens(m, k)
    OBVIOUS
  <2>6. t \in Seq(S)
    BY <2>4, <2>5, TokensOf
  <2>60. Len(t) = RequestSize(k) /\ \A i \in 1..RequestSize(k) : t[i] = <<m, i>>
    BY <2>5, TokensOf
  <2>61. m \in 1..m
    BY <1>00, <2>3
  <2>7. Within(t, m)
    BY <2>60, <2>61 DEF Within
  <2>8. Within(read_buffer_, m) /\ Within(net, m)
    BY <1>0, <1>00, <2>4, WithinMore
  <2> HIDE DEF S
  <2>9. net \o t \in Seq(S)
    BY <1>0, <2>6, Cat
  <2>10. Within(net \o t, m)
    BY <1>0, <2>6, <2>7, <2>8, WithinCat
  <2>11. Len(sent') = m /\ net' = net \o t
    BY <2>1, <2>2, <2>3, <2>5
  <2>12. Within(read_buffer_, Len(sent))'
    BY <1>6, <2>8, <2>11 DEF Within
  <2>13. Within(net, Len(sent))'
    BY <2>10, <2>11 DEF Within
  <2>14. read_buffer_' \in Seq(S) /\ net' \in Seq(S)
    BY <1>0, <1>6, <2>9, <2>11
  <2>. QED
    BY <2>1, <2>2, <2>4, <2>11, <2>12, <2>13, <2>14 DEF S
<1>. QED
  BY <1>1, <1>2, <1>3, <1>4, <1>5, <1>6, StreamMoves

LEMMA SizesType ==
  ASSUME sent \in Seq(Kinds)
  PROVE  /\ Sizes \in Seq(1..6) /\ Len(Sizes) = Len(sent)
         /\ \A n \in 1..Len(sent) : Sizes[n] = RequestSize(sent[n]) /\ sent[n] \in Kinds
<1>1. Len(sent) \in Nat /\ \A n \in 1..Len(sent) : sent[n] \in Kinds
  OBVIOUS
<1>0. \A k \in Kinds : RequestSize(k) \in 1..6
  BY Lengths
<1>2. Sizes \in [1..Len(sent) -> 1..6]
  BY <1>0, <1>1 DEF Sizes
<1>3. \A n \in 1..Len(sent) : Sizes[n] = RequestSize(sent[n])
  BY DEF Sizes
<1>4. Sizes \in Seq(1..6) /\ Len(Sizes) = Len(sent)
  BY <1>1, <1>2
<1>. QED
  BY <1>1, <1>3, <1>4

LEMMA SizesGrow ==
  ASSUME sent \in Seq(Kinds), NEW k \in Kinds, sent' = Append(sent, k)
  PROVE  Sizes' = Append(Sizes, RequestSize(k)) /\ RequestSize(k) \in 1..6
<1>0. Len(sent) \in Nat /\ RequestSize(k) \in 1..6
  BY Lengths
<1>1. Sizes \in Seq(1..6) /\ Len(Sizes) = Len(sent)
  BY SizesType
<1>2. /\ sent' \in Seq(Kinds) /\ Len(sent') = Len(sent) + 1 /\ sent'[Len(sent) + 1] = k
      /\ \A n \in 1..Len(sent) : sent'[n] = sent[n]
  BY Appended
<1>3. /\ Sizes' \in Seq(1..6) /\ Len(Sizes') = Len(sent) + 1
      /\ \A n \in 1..(Len(sent) + 1) : Sizes'[n] = RequestSize(sent'[n])
  <2>1. \A n \in 1..Len(sent') : sent'[n] \in Kinds
    BY <1>2
  <2>2. Sizes' = [n \in 1..Len(sent') |-> RequestSize(sent'[n])]
    BY DEF Sizes
  <2>3. \A n \in 1..(Len(sent) + 1) : RequestSize(sent'[n]) \in 1..6
    <3>1. \A kind \in Kinds : RequestSize(kind) \in 1..6
      BY Lengths
    <3>2. \A n \in 1..(Len(sent) + 1) : sent'[n] \in Kinds
      BY <1>2, <2>1
    <3>. QED
      BY <3>1, <3>2
  <2> HIDE DEF Sizes
  <2>4. /\ Sizes' \in [1..(Len(sent) + 1) -> 1..6]
        /\ \A n \in 1..(Len(sent) + 1) : Sizes'[n] = RequestSize(sent'[n])
    BY <1>2, <2>2, <2>3
  <2>5. PICK f : f = Sizes'
    OBVIOUS
  <2>6. f \in [1..(Len(sent) + 1) -> 1..6] /\ Len(sent) + 1 \in Nat
    BY <1>0, <2>4, <2>5
  <2>7. f \in Seq(1..6) /\ Len(f) = Len(sent) + 1
    BY <2>6
  <2>. QED
    BY <2>4, <2>5, <2>7
<1>4. \A n \in 1..(Len(sent) + 1) : Sizes'[n] = Append(Sizes, RequestSize(k))[n]
  <2>1. \A n \in 1..Len(sent) : Sizes'[n] = Sizes[n]
    BY <1>0, <1>2, <1>3, SizesType
  <2>2. Sizes'[Len(sent) + 1] = RequestSize(k)
    BY <1>0, <1>2, <1>3
  <2>3. /\ \A n \in 1..Len(sent) : Append(Sizes, RequestSize(k))[n] = Sizes[n]
        /\ Append(Sizes, RequestSize(k))[Len(sent) + 1] = RequestSize(k)
    BY <1>0, <1>1, Appended
  <2>4. \A n \in 1..(Len(sent) + 1) : n \in 1..Len(sent) \/ n = Len(sent) + 1
    BY <1>0
  <2>. QED
    BY <2>1, <2>2, <2>3, <2>4
<1>5. /\ Append(Sizes, RequestSize(k)) \in Seq(1..6)
      /\ Len(Append(Sizes, RequestSize(k))) = Len(sent) + 1
  BY <1>0, <1>1
<1>6. Sizes' = Append(Sizes, RequestSize(k))
  BY <1>3, <1>4, <1>5, SeqEqual
<1>. QED
  BY <1>0, <1>6

LEMMA Pending ==
  ASSUME TypeOK
  PROVE  /\ read_buffer_ \o net \in Seq(Nat \X Nat)
         /\ Len(read_buffer_ \o net) = Have + Len(net)
         /\ \A i \in 1..Have : (read_buffer_ \o net)[i] = read_buffer_[i]
<1>1. read_buffer_ \in Seq(Nat \X Nat) /\ net \in Seq(Nat \X Nat) /\ Have \in Nat /\ Len(net) \in Nat
  BY Facts
<1>2. /\ read_buffer_ \o net \in Seq(Nat \X Nat) /\ Len(read_buffer_ \o net) = Len(read_buffer_) + Len(net)
      /\ \A i \in 1..(Len(read_buffer_) + Len(net)) :
            (read_buffer_ \o net)[i] = IF i <= Len(read_buffer_) THEN read_buffer_[i]
                                       ELSE net[i - Len(read_buffer_)]
  BY <1>1, Cat
<1>3. ASSUME NEW i \in 1..Have PROVE (read_buffer_ \o net)[i] = read_buffer_[i]
  <2>1. i \in 1..(Len(read_buffer_) + Len(net)) /\ i <= Len(read_buffer_)
    BY <1>1 DEF Have
  <2>. QED
    BY <1>2, <2>1
<1>. QED
  BY <1>2, <1>3 DEF Have

\* Nothing brings a stream back in step.
LEMMA IntactOnce ==
  ASSUME TypeOK, Parts, [Next]_vars
  PROVE  intact' \in BOOLEAN /\ (intact' => intact)
<1>0. intact \in BOOLEAN
  BY DEF TypeOK
<1>1. CASE read_header
  <2>1. PICK p \in Ends, n \in 1..Len(sent) :
           process_request_header(n, read_buffer_[1] = <<n, 1>>)
    BY <1>1, HeaderRead
  <2>2. PICK alone \in BOOLEAN : alone = (read_buffer_[1] = <<n, 1>>)
    OBVIOUS
  <2>3. process_request_header(n, alone)
    BY <2>1, <2>2
  <2>. QED
    BY <2>3, HeaderOutcome
<1>2. CASE header_too_large
  BY <1>2 DEF header_too_large
<1>3. ASSUME ~read_header, ~header_too_large PROVE intact' = intact
  BY <1>3 DEF Next, process, vars, Send, Break, Deliver, handle_read, handle_write, after_process,
              Done, reset_for_new_cmd, process_post, copy_extras, read_more, read_extras, leave,
              write, close
<1>. QED
  BY <1>0, <1>1, <1>2, <1>3

\* In step, the first end of a header is that of the next request, and nothing
\* precedes it.
LEMMA FirstEnd ==
  ASSUME TypeOK, Parts, InStep, intact, state_ = "header",
         NEW p \in Ends, \A y \in Ends : p <= y
  PROVE  LET n == cur + 1 IN
         /\ n \in 1..Len(sent) /\ read_buffer_[p][1] = n
         /\ p = HeaderLength[sent[n]] /\ p <= Have /\ read_buffer_[1] = <<n, 1>>
<1> DEFINE q == read_buffer_ \o net
           n == cur + 1
           H == HeaderLength[sent[n]]
<1>0. sent \in Seq(Kinds) /\ cur \in Nat /\ Have \in Nat /\ Len(net) \in Nat
  BY Facts
<1>1. /\ q \in Seq(Nat \X Nat) /\ Len(q) = Have + Len(net)
      /\ \A i \in 1..Have : q[i] = read_buffer_[i]
  BY Pending
<1>2. p \in 1..Have /\ read_buffer_[p][2] = HeaderLength[sent[read_buffer_[p][1]]]
  BY DEF Ends
<1>3. Sizes \in Seq(1..6) /\ Len(Sizes) = Len(sent)
      /\ \A m \in 1..Len(sent) : Sizes[m] = RequestSize(sent[m]) /\ sent[m] \in Kinds
  BY <1>0, SizesType
<1>4. Aligned(q, Sizes, cur, 0, ~broken) /\ (~broken) \in BOOLEAN
  BY DEF InStep, Left, TypeOK
<1> HIDE DEF q
<1>5. 1 <= Len(q)
  BY <1>0, <1>1, <1>2
<1>6. /\ n \in 1..Len(sent)
      /\ \A j \in 1..Sizes[n] : j <= Len(q) => q[j] = <<n, j>>
  BY <1>0, <1>1, <1>3, <1>4, <1>5, FirstTokens
<1>7. H \in 2..5 /\ Sizes[n] \in Nat /\ H <= Sizes[n]
  <2>1. Sizes[n] = RequestSize(sent[n]) /\ sent[n] \in Kinds
    BY <1>3, <1>6
  <2>2. HeaderLength[sent[n]] \in 2..5 /\ BodyLength[sent[n]] \in {0, 2}
    BY <2>1, Lengths
  <2>. QED
    BY <2>1, <2>2 DEF RequestSize
<1> HIDE DEF n
<1>8. \A j \in 1..Have : j <= Sizes[n] => read_buffer_[j] = <<n, j>>
  <2>1. \A j \in 1..Have : j <= Sizes[n] => j \in 1..Sizes[n] /\ j <= Len(q)
    BY <1>0, <1>1, <1>7
  <2>. QED
    BY <1>1, <1>6, <2>1
<1>9. p = H
  <2>1. CASE p < H
    <3>1. read_buffer_[p] = <<n, p>>
      BY <1>2, <1>7, <1>8, <2>1
    <3>2. read_buffer_[p][1] = n /\ read_buffer_[p][2] = p
      BY <3>1
    <3>. QED
      BY <1>2, <3>2
  <2>2. CASE H <= p
    <3>1. H \in 1..Have
      BY <1>0, <1>2, <1>7, <2>2
    <3>2. read_buffer_[H] = <<n, H>>
      BY <1>7, <1>8, <3>1
    <3>3. read_buffer_[H][1] = n /\ read_buffer_[H][2] = H
      BY <3>2
    <3>4. H \in Ends
      BY <3>1, <3>3 DEF Ends
    <3>5. p <= H
      BY <3>4
    <3>. QED
      BY <1>0, <1>2, <1>7, <2>2, <3>5
  <2>. QED
    BY <1>0, <1>2, <1>7, <2>1, <2>2
<1>10. read_buffer_[p] = <<n, p>>
  BY <1>2, <1>7, <1>8, <1>9
<1>11. read_buffer_[1] = <<n, 1>>
  <2>1. 1 \in 1..Have /\ 1 <= Sizes[n]
    BY <1>0, <1>2, <1>7
  <2>. QED
    BY <1>8, <2>1
<1>12. p <= Have /\ read_buffer_[p][1] = n
  BY <1>2, <1>10
<1>. QED
  BY <1>6, <1>9, <1>11, <1>12 DEF n

LEMMA PartsStep ==
  ASSUME TypeOK, Parts, [Next]_vars
  PROVE  Parts'
<1>0. /\ Len(sent) <= Len(sent') /\ Len(sent') <= MaxReq /\ \A n \in 1..Len(sent) : sent'[n] = sent[n]
      /\ Within(read_buffer_, Len(sent))' /\ Within(net, Len(sent))'
  BY StreamKept
<1>00. Len(sent) \in Nat /\ Len(sent') \in Nat /\ cur \in Nat
  BY Facts, StreamKept
<1>01. next_state_ \in {"new_cmd", "closing"}
  BY DEF TypeOK
<1>1. SUFFICES /\ cur' \in 0..Len(sent)
               /\ state_' \in {"extras", "write"} => cur' \in 1..Len(sent)
               /\ (state_' = "extras" /\ intact') => sent[cur'] = "post"
  <2>1. cur' <= Len(sent')
    BY <1>0, <1>00, <1>1
  <2>. QED
    BY <1>0, <1>00, <1>1, <2>1 DEF Parts
<1>2. CASE read_header
  <2>1. PICK p \in Ends, n \in 1..Len(sent) :
           process_request_header(n, read_buffer_[1] = <<n, 1>>)
    BY <1>2, HeaderRead
  <2>2. PICK alone \in BOOLEAN : alone = (read_buffer_[1] = <<n, 1>>)
    OBVIOUS
  <2>3. process_request_header(n, alone)
    BY <2>1, <2>2
  <2>4. cur' = n /\ ((intact' => sent[n] = "post") \/ process_command \/ write_error)
    BY <2>3, HeaderOutcome
  <2>5. process_command \/ write_error => state_' = "write"
    BY Replying
  <2>. QED
    BY <1>00, <2>4, <2>5
<1>3. CASE header_too_large
  <2>1. state_' = "write" /\ cur' = read_buffer_[1][1] /\ Have >= HeaderMax
    BY <1>3, Replying DEF header_too_large
  <2>2. 1 \in 1..Have
    BY <2>1, Facts, PeerHttpAssumption
  <2>3. cur' \in 1..Len(sent)
    BY <2>1, <2>2 DEF Parts, Within, Have
  <2>. QED
    BY <1>00, <2>1, <2>3
<1>4. CASE process_post
  <2>1. state_' = "write" /\ cur' = cur /\ state_ = "extras"
    BY <1>4, Replying DEF process_post, InLoop
  <2>. QED
    BY <1>00, <2>1 DEF Parts
<1>5. ASSUME ~read_header, ~header_too_large, ~process_post
      PROVE  cur' = cur /\ intact' = intact /\ (state_' \in {"extras", "write"} => state_' = state_)
  BY <1>01, <1>5 DEF Next, process, vars, Send, Break, Deliver, handle_read, handle_write, after_process,
              Done, reset_for_new_cmd, copy_extras, read_more, read_extras, leave, write, close,
              requestVars
<1>6. ASSUME ~read_header, ~header_too_large, ~process_post
      PROVE  /\ cur' \in 0..Len(sent)
             /\ state_' \in {"extras", "write"} => cur' \in 1..Len(sent)
             /\ (state_' = "extras" /\ intact') => sent[cur'] = "post"
  BY <1>00, <1>5, <1>6 DEF Parts
<1>. QED
  BY <1>2, <1>3, <1>4, <1>6

\* The bytes stay where they are, or move to the buffer.
LEMMA FrameKept ==
  ASSUME InStep, intact' => intact, UNCHANGED <<sent, cur, broken>>,
         read_buffer_' \o net' = read_buffer_ \o net, Left' = Left
  PROVE  InStep'
<1>1. Sizes' = Sizes
  BY DEF Sizes
<1>2. intact' => Aligned(read_buffer_' \o net', Sizes', cur', Left', ~broken')
  BY <1>1 DEF InStep
<1>. QED
  BY <1>2 DEF InStep, Aligned, Cuts, Expected

LEMMA BytesMove ==
  ASSUME TypeOK, NEW n \in 1..Len(net), read_buffer_' = read_buffer_ \o SubSeq(net, 1, n),
         net' = SubSeq(net, n + 1, Len(net))
  PROVE  read_buffer_' \o net' = read_buffer_ \o net
<1> DEFINE S == Reqs \X (1..5)
<1>1. net \in Seq(S) /\ read_buffer_ \in Seq(S) /\ n \in 0..Len(net)
  BY DEF TypeOK
<1> HIDE DEF S
<1>. QED
  BY <1>1, Moved

LEMMA Consumed ==
  ASSUME TypeOK, NEW n \in Nat, n <= Have, Consume(n), net' = net
  PROVE  read_buffer_' \o net' = SubSeq(read_buffer_ \o net, n + 1, Len(read_buffer_ \o net))
<1> DEFINE S == Reqs \X (1..5)
<1>1. net \in Seq(S) /\ read_buffer_ \in Seq(S) /\ n \in 0..Len(read_buffer_)
  BY DEF TypeOK, Have
<1>2. read_buffer_' = SubSeq(read_buffer_, n + 1, Len(read_buffer_))
  BY DEF Consume, Have
<1> HIDE DEF S
<1>. QED
  BY <1>1, <1>2, TakenOff

\* n tokens of the body are taken.
LEMMA BodyTaken ==
  ASSUME TypeOK, Parts, InStep, intact' => intact, UNCHANGED <<sent, broken, cur, state_>>,
         state_ = "extras",
         NEW n \in Nat \ {0}, n <= next_data_len_, n <= Len(read_buffer_ \o net),
         read_buffer_' \o net' = SubSeq(read_buffer_ \o net, n + 1, Len(read_buffer_ \o net)),
         next_data_len_' = next_data_len_ - n
  PROVE  InStep'
<1>0. SUFFICES ASSUME intact' PROVE Aligned(read_buffer_' \o net', Sizes', cur', Left', ~broken')
  BY DEF InStep, Aligned, Cuts, Expected
<1>1. sent \in Seq(Kinds) /\ cur \in Nat /\ read_buffer_ \o net \in Seq(Nat \X Nat)
      /\ next_data_len_ \in 0..2
  BY Facts, Pending
<1>2. /\ Sizes \in Seq(1..6) /\ Len(Sizes) = Len(sent) /\ Sizes' = Sizes
      /\ \A m \in 1..Len(sent) : Sizes[m] = RequestSize(sent[m])
  BY <1>1, SizesType DEF Sizes
<1>3. cur \in 1..Len(Sizes) /\ sent[cur] = "post"
  BY <1>0, <1>1, <1>2 DEF Parts
<1>4. Sizes[cur] = 4
  BY <1>2, <1>3 DEF RequestSize, HeaderLength, BodyLength
<1>5. next_data_len_ < Sizes[cur] /\ next_data_len_ \in Nat /\ (~broken) \in BOOLEAN
  BY <1>1, <1>4
<1>6. Left = next_data_len_ /\ Left' = next_data_len_ - n
  BY DEF Left
<1>7. Aligned(read_buffer_ \o net, Sizes, cur, next_data_len_, ~broken)
  BY <1>0, <1>6 DEF InStep
<1>8. Aligned(SubSeq(read_buffer_ \o net, n + 1, Len(read_buffer_ \o net)), Sizes, cur,
              next_data_len_ - n, ~broken)
  BY <1>1, <1>2, <1>3, <1>5, <1>7, TakeBody
<1>. QED
  BY <1>2, <1>6, <1>8

\* A header is taken: in step it is the next one, and what it leaves to read is
\* its body.
LEMMA HeaderTaken ==
  ASSUME TypeOK, Parts, InStep, read_header
  PROVE  InStep'
<1>1. PICK p \in Ends, n \in 1..Len(sent) :
         /\ \A y \in Ends : p <= y
         /\ n = read_buffer_[p][1]
         /\ process_request_header(n, read_buffer_[1] = <<n, 1>>)
         /\ Consume(p)
  BY HeaderRead
<1>2. PICK alone \in BOOLEAN : alone = (read_buffer_[1] = <<n, 1>>)
  OBVIOUS
<1>3. process_request_header(n, alone)
  BY <1>1, <1>2
<1>4. /\ cur' = n /\ (intact' => intact)
      /\ \/ /\ state_' = "extras" /\ NoReply /\ next_data_len_' = 2
            /\ intact' => sent[n] = "post"
         \/ /\ process_command /\ sent[n] \in {"get", "old", "long", "bare"}
         \/ /\ write_error
            /\ intact' => (~alone \/ sent[n] = "bad")
  BY <1>3, HeaderOutcome
<1>5. SUFFICES ASSUME intact' PROVE Aligned(read_buffer_' \o net', Sizes', cur', Left', ~broken')
  BY DEF InStep, Aligned, Cuts, Expected
<1>6. UNCHANGED <<sent, net, broken>> /\ state_ = "header"
  BY DEF read_header, LoopUnchanged, InLoop
<1>7. /\ n = cur + 1 /\ p = HeaderLength[sent[n]] /\ p <= Have /\ read_buffer_[1] = <<n, 1>>
  BY <1>1, <1>4, <1>5, <1>6, FirstEnd
<1>8. sent \in Seq(Kinds) /\ cur \in Nat /\ Have \in Nat /\ Len(net) \in Nat
  BY Facts
<1>9. /\ Sizes \in Seq(1..6) /\ Len(Sizes) = Len(sent) /\ Sizes' = Sizes
      /\ Sizes[n] = RequestSize(sent[n]) /\ sent[n] \in Kinds
  BY <1>6, <1>8, SizesType DEF Sizes
<1>10. /\ p \in 2..5 /\ BodyLength[sent[n]] \in {0, 2}
       /\ Sizes[n] = p + BodyLength[sent[n]]
       /\ BodyLength[sent[n]] = 2 <=> sent[n] \in {"post", "large"}
  BY <1>7, <1>9, Lengths DEF RequestSize
<1>11. Left' = BodyLength[sent[n]]
  <2>1. CASE state_' = "extras" /\ next_data_len_' = 2 /\ sent[n] = "post"
    BY <1>10, <2>1 DEF Left
  <2>2. CASE process_command /\ sent[n] \in {"get", "old", "long", "bare"}
    BY <1>10, <2>2, Replying DEF Left
  <2>3. CASE write_error /\ sent[n] = "bad"
    BY <1>10, <2>3, Replying DEF Left
  <2>4. alone
    BY <1>2, <1>7
  <2>. QED
    BY <1>4, <1>5, <2>1, <2>2, <2>3, <2>4
<1> DEFINE q == read_buffer_ \o net
<1>12. q \in Seq(Nat \X Nat) /\ Len(q) = Have + Len(net)
  BY Pending
<1>13. Aligned(q, Sizes, cur, 0, ~broken) /\ (~broken) \in BOOLEAN
  BY <1>4, <1>5, <1>6 DEF InStep, Left
<1>18. p \in Nat \ {0}
  BY <1>10
<1>14. read_buffer_' \o net' = SubSeq(q, p + 1, Len(q))
  BY <1>1, <1>6, <1>7, <1>18, Consumed
<1> HIDE DEF q
<1>15. p \in Nat \ {0} /\ p <= Len(q)
  BY <1>7, <1>8, <1>12, <1>18
<1>16. p <= Sizes[n] /\ Sizes[n] - p = BodyLength[sent[n]]
  BY <1>10
<1>17. Aligned(SubSeq(q, p + 1, Len(q)), Sizes, n, Sizes[n] - p, ~broken)
  BY <1>7, <1>8, <1>9, <1>12, <1>13, <1>15, <1>16, TakeFirst
<1>. QED
  BY <1>4, <1>6, <1>9, <1>11, <1>14, <1>16, <1>17

LEMMA Sent ==
  ASSUME TypeOK, Parts, InStep, NEW k \in Kinds, Send(k)
  PROVE  InStep'
<1>0. /\ sent \in Seq(Kinds) /\ Len(sent) \in Nat /\ cur \in Nat /\ next_data_len_ \in 0..2
      /\ net \in Seq(Nat \X Nat) /\ read_buffer_ \in Seq(Nat \X Nat)
  BY Facts
<1>1. /\ sent' = Append(sent, k) /\ net' = net \o Tokens(Len(sent) + 1, k) /\ ~broken
      /\ UNCHANGED <<broken, next_data_len_, read_buffer_, cur, state_, intact>>
  BY DEF Send, requestVars
<1>2. SUFFICES ASSUME intact' PROVE Aligned(read_buffer_' \o net', Sizes', cur', Left', ~broken')
  BY DEF InStep, Aligned, Cuts, Expected
<1>3. Left' = Left /\ Left \in Nat /\ (Left = 0 \/ cur >= 1) /\ cur <= Len(sent)
  BY <1>0, <1>1 DEF Left, Parts
<1>4. Sizes \in Seq(1..6) /\ Len(Sizes) = Len(sent)
  BY <1>0, SizesType
<1>5. Sizes' = Append(Sizes, RequestSize(k)) /\ RequestSize(k) \in 1..6
  BY <1>0, <1>1, SizesGrow
<1>6. PICK t : t = Tokens(Len(sent) + 1, k)
  OBVIOUS
<1>7. /\ t \in Seq(Nat \X Nat) /\ Len(t) = RequestSize(k)
      /\ \A i \in 1..RequestSize(k) : t[i] = <<Len(Sizes) + 1, i>>
  <2>1. Len(sent) + 1 \in Nat
    BY <1>0
  <2>. QED
    BY <1>4, <1>6, <2>1, TokensOf
<1>8. Aligned(read_buffer_ \o net, Sizes, cur, Left, TRUE)
  BY <1>1, <1>2 DEF InStep
<1>9. read_buffer_ \o net \in Seq(Nat \X Nat)
  BY Pending
<1>10. Aligned((read_buffer_ \o net) \o t, Append(Sizes, RequestSize(k)), cur, Left, TRUE)
  BY <1>0, <1>3, <1>4, <1>5, <1>7, <1>8, <1>9, Extend
<1>11. (read_buffer_ \o net) \o t = read_buffer_' \o net'
  <2>1. (read_buffer_ \o net) \o t = read_buffer_ \o (net \o t)
    BY <1>0, <1>7, Assoc, Zenon
  <2>. QED
    BY <1>1, <1>6, <2>1
<1>. QED
  BY <1>1, <1>3, <1>5, <1>10, <1>11

LEMMA FramingStep ==
  ASSUME TypeOK, Framing, [Next]_vars
  PROVE  Framing'
<1>0. Parts /\ InStep
  BY DEF Framing
<1>01. intact' => intact
  BY <1>0, IntactOnce
<1>02. /\ Have \in Nat /\ Len(net) \in Nat /\ next_data_len_ \in 0..2 /\ cur \in Nat
       /\ sent \in Seq(Kinds) /\ net \in Seq(Nat \X Nat) /\ read_buffer_ \in Seq(Nat \X Nat)
  BY Facts
<1>03. Parts'
  BY <1>0, PartsStep
<1>04. SUFFICES InStep'
  BY <1>03 DEF Framing
<1>1. CASE \E k \in Kinds : Send(k)
  BY <1>0, <1>1, Sent
<1>2. CASE Break
  <2>1. net' = <<>> /\ broken' /\ UNCHANGED <<sent, next_data_len_, read_buffer_, cur, state_>>
    BY <1>2 DEF Break, requestVars
  <2>2. Left' = Left /\ Sizes' = Sizes /\ Left \in Nat
    BY <1>02, <2>1 DEF Left, Sizes
  <2>3. Sizes \in Seq(1..6)
    BY <1>02, SizesType
  <2>4. intact' => Aligned(read_buffer_ \o <<>>, Sizes, cur, Left, FALSE)
    <3>1. intact' => Aligned(read_buffer_ \o net, Sizes, cur, Left, ~broken)
      BY <1>0, <1>01 DEF InStep
    <3>2. (~broken) \in BOOLEAN
      OBVIOUS
    <3>. QED
      BY <1>02, <2>2, <2>3, <3>1, <3>2, LoseNet
  <2>5. intact' => Aligned(read_buffer_' \o net', Sizes', cur', Left', ~broken')
    BY <2>1, <2>2, <2>4
  <2>. QED
    BY <2>5 DEF InStep, Aligned, Cuts, Expected
<1>3. CASE read_header
  BY <1>0, <1>3, HeaderTaken
<1>4. CASE header_too_large
  BY <1>4 DEF header_too_large, InStep
<1>5. CASE handle_read
  <2>1. UNCHANGED <<sent, cur, broken, state_, next_data_len_>>
    BY <1>5 DEF handle_read, requestVars
  <2>2. \/ UNCHANGED <<read_buffer_, net>>
        \/ \E n \in 1..Len(net) : /\ read_buffer_' = read_buffer_ \o SubSeq(net, 1, n)
                                  /\ net' = SubSeq(net, n + 1, Len(net))
    BY <1>5 DEF handle_read
  <2>3. read_buffer_' \o net' = read_buffer_ \o net
    BY <2>2, BytesMove
  <2>4. Left' = Left
    BY <2>1 DEF Left
  <2>. QED
    BY <1>0, <1>01, <2>1, <2>3, <2>4, FrameKept
<1>6. CASE read_more
  <2>1. UNCHANGED <<sent, cur, broken, state_, next_data_len_>>
    BY <1>6 DEF read_more, requestVars, LoopUnchanged
  <2>2. read_buffer_' \o net' = read_buffer_ \o net
    BY <1>6, BytesMove DEF read_more
  <2>3. Left' = Left
    BY <2>1 DEF Left
  <2>. QED
    BY <1>0, <1>01, <2>1, <2>2, <2>3, FrameKept
<1>7. CASE copy_extras
  <2> DEFINE tmp == IF Have > next_data_len_ THEN next_data_len_ ELSE Have
  <2>1. /\ UNCHANGED <<sent, cur, broken, state_, net>> /\ state_ = "extras"
        /\ next_data_len_' = next_data_len_ - tmp /\ Consume(tmp)
        /\ next_data_len_ > 0 /\ Have > 0
    BY <1>7 DEF copy_extras, requestVars, LoopUnchanged, InLoop
  <2>2. tmp \in Nat \ {0} /\ tmp <= next_data_len_ /\ tmp <= Have
    BY <1>02, <2>1
  <2> HIDE DEF tmp
  <2>3. read_buffer_' \o net' = SubSeq(read_buffer_ \o net, tmp + 1, Len(read_buffer_ \o net))
    BY <2>1, <2>2, Consumed
  <2>4. tmp <= Len(read_buffer_ \o net)
    BY <1>02, <2>2, Pending
  <2>. QED
    BY <1>0, <1>01, <2>1, <2>2, <2>3, <2>4, BodyTaken
<1>8. CASE read_extras
  <2>1. PICK n \in 1..next_data_len_ :
           n <= Len(net) /\ next_data_len_' = next_data_len_ - n /\ net' = SubSeq(net, n + 1, Len(net))
    BY <1>8 DEF read_extras
  <2>2. UNCHANGED <<sent, cur, broken, state_, read_buffer_>> /\ state_ = "extras" /\ Have = 0
    BY <1>8 DEF read_extras, requestVars, LoopUnchanged, InLoop
  <2>3. read_buffer_ = <<>>
    BY <1>02, <2>2 DEF Have
  <2>4. n \in Nat \ {0} /\ n <= next_data_len_ /\ n \in 0..Len(net)
    BY <1>02, <2>1
  <2>5. read_buffer_ \o net = net
    BY <1>02, <2>3
  <2>6. net' \in Seq(Nat \X Nat)
    BY <1>02, <2>1, <2>4, Suffix
  <2>7. read_buffer_' \o net' = net'
    BY <2>2, <2>3, <2>6
  <2>8. read_buffer_' \o net' = SubSeq(read_buffer_ \o net, n + 1, Len(read_buffer_ \o net))
    BY <2>1, <2>5, <2>7
  <2>9. n <= Len(read_buffer_ \o net)
    BY <2>1, <2>5
  <2>. QED
    BY <1>0, <1>01, <2>1, <2>2, <2>4, <2>8, <2>9, BodyTaken
<1>9. CASE process_post
  <2>1. /\ UNCHANGED <<sent, cur, broken, read_buffer_, net>>
        /\ state_ = "extras" /\ next_data_len_ = 0 /\ state_' = "write"
    BY <1>9, Replying DEF process_post, LoopUnchanged, InLoop
  <2>2. Left' = Left /\ read_buffer_' \o net' = read_buffer_ \o net
    BY <2>1 DEF Left
  <2>. QED
    BY <1>0, <1>01, <2>1, <2>2, FrameKept
<1>10. CASE Deliver \/ handle_write \/ after_process \/ Done \/ UNCHANGED vars
            \/ reset_for_new_cmd \/ leave \/ write \/ close
  <2>1. UNCHANGED <<sent, cur, broken, read_buffer_, net>> /\ Left' = Left
    <3>1. CASE Deliver \/ Done \/ UNCHANGED vars
      BY <3>1 DEF Deliver, Done, vars, streamVars, requestVars, Left
    <3>2. CASE handle_write \/ after_process
      BY <3>2 DEF handle_write, after_process, streamVars, requestVars, Left
    <3>3. CASE reset_for_new_cmd \/ leave \/ close
      BY <3>3 DEF reset_for_new_cmd, leave, close, requestVars, Left, LoopUnchanged, InLoop
    <3>4. CASE write
      <4>1. next_state_ \in {"new_cmd", "closing"}
        BY DEF TypeOK
      <4>. QED
        BY <3>4, <4>1 DEF write, requestVars, Left, LoopUnchanged, InLoop
    <3>. QED
      BY <1>10, <3>1, <3>2, <3>3, <3>4
  <2>2. read_buffer_' \o net' = read_buffer_ \o net
    BY <2>1
  <2>. QED
    BY <1>0, <1>01, <2>1, <2>2, FrameKept
<1>. QED
  BY <1>1, <1>2, <1>3, <1>4, <1>5, <1>6, <1>7, <1>8, <1>9, <1>10 DEF Next, process
-----------------------------------------------------------------------------
(* Replies.                                                                *)

LEMMA Faults ==
  ASSUME Replies, intact
  PROVE  /\ Len(received) <= Len(sent)
         /\ \A i \in 1..Len(received) :
               received[i].req = i /\ (received[i].refused => sent[i] \notin Faultless)
         /\ alive => Len(received) + Len(Outgoing) = Replied
         /\ alive => \A i \in 1..Len(Outgoing) :
               /\ Outgoing[i].req = Len(received) + i
               /\ Outgoing[i].refused => sent[Len(received) + i] \notin Faultless
  BY DEF Replies, RepliesInOrder, Faultless

LEMMA RepliedBound ==
  ASSUME TypeOK, Parts
  PROVE  Replied \in Nat /\ Replied <= Len(sent)
  BY Facts DEF Replied, Parts

\* The replies stay as they are while more requests may be sent.
LEMMA RepliesKept ==
  ASSUME TypeOK, Parts, Replies, intact' => intact, alive' => alive,
         Len(sent) <= Len(sent'), Len(sent') \in Nat, \A n \in 1..Len(sent) : sent'[n] = sent[n],
         UNCHANGED <<received, request_buf_>>, Outgoing' = Outgoing, intact' => Replied' = Replied
  PROVE  Replies'
<1>0. Len(sent) \in Nat /\ Len(received) \in Nat /\ Replied \in Nat /\ Replied <= Len(sent)
  BY Facts, RepliedBound
<1>1. \A i \in 1..Len(Outgoing') : Outgoing'[i].req \in request_buf_'
  BY DEF Replies
<1>2. ASSUME intact'
      PROVE  /\ Len(received') <= Len(sent')
             /\ \A i \in 1..Len(received') :
                   received'[i].req = i /\ (received'[i].refused => sent'[i] \notin Faultless)
             /\ alive' => Len(received') + Len(Outgoing') = Replied'
             /\ alive' => \A i \in 1..Len(Outgoing') :
                   /\ Outgoing'[i].req = Len(received') + i
                   /\ Outgoing'[i].refused => sent'[Len(received') + i] \notin Faultless
  <2>0. intact
    BY <1>2
  <2>1. Len(received') <= Len(sent')
    BY <1>0, <2>0, Faults
  <2>2. ASSUME NEW i \in 1..Len(received')
        PROVE  received'[i].req = i /\ (received'[i].refused => sent'[i] \notin Faultless)
    <3>1. i \in 1..Len(received) /\ i \in 1..Len(sent)
      BY <1>0, <2>0, Faults
    <3>. QED
      BY <2>0, <3>1, Faults
  <2>3. alive' => Len(received') + Len(Outgoing') = Replied'
    BY <1>2, <2>0, Faults
  <2>4. ASSUME alive', NEW i \in 1..Len(Outgoing')
        PROVE  /\ Outgoing'[i].req = Len(received') + i
               /\ Outgoing'[i].refused => sent'[Len(received') + i] \notin Faultless
    <3>1. i \in 1..Len(Outgoing) /\ Len(received) + Len(Outgoing) = Replied
      BY <2>0, <2>4, Faults
    <3>2. Len(Outgoing) \in Nat
      BY Facts DEF Outgoing
    <3>3. Len(received) + i \in 1..Len(sent)
      BY <1>0, <3>1, <3>2
    <3>4. sent'[Len(received) + i] = sent[Len(received) + i]
      BY <3>3
    <3>. QED
      BY <2>0, <2>4, <3>1, <3>4, Faults
  <2>. QED
    BY <2>1, <2>2, <2>3, <2>4
<1>. QED
  BY <1>1, <1>2 DEF Replies, RepliesInOrder, Faultless

\* A reply is added to those collected.
LEMMA Collected ==
  ASSUME TypeOK, Control, Parts, Replies, alive, alive' = alive, op = "none", op' = op,
         UNCHANGED <<sent, received>>,
         NEW item \in BOOLEAN, NEW refused \in BOOLEAN, AddReply(item, refused),
         intact' => intact, cur' \in 1..Len(sent),
         intact' => (cur' = Replied + 1 /\ (refused => sent[cur'] \notin Faultless))
  PROVE  Replies'
<1> DEFINE e == [req |-> cur', item |-> item, refused |-> refused]
<1>0. /\ Len(sent) \in Nat /\ Len(received) \in Nat /\ Replied \in Nat /\ Replied <= Len(sent)
      /\ Len(sent) <= MaxReq /\ MaxReq \in Nat
  BY Facts, RepliedBound DEF Parts
<1>1. /\ write_buf_' = Append(write_buf_, e) /\ request_buf_' = request_buf_ \cup {cur'}
      /\ state_' = "write"
  BY DEF AddReply
<1>2. e \in Reply /\ e.req = cur' /\ e.refused = refused
  BY <1>0 DEF Reply, Reqs
<1> HIDE DEF e
<1>3. write_buf_ \in Seq(Reply) /\ Len(write_buf_) \in Nat
  BY Facts
<1>4. /\ Len(write_buf_') = Len(write_buf_) + 1
      /\ \A i \in 1..Len(write_buf_) : write_buf_'[i] = write_buf_[i]
      /\ write_buf_'[Len(write_buf_) + 1] = e
  BY <1>1, <1>2, <1>3, Appended
<1>5. Outgoing = write_buf_ /\ Outgoing' = write_buf_' /\ Replied' = cur'
  BY <1>1 DEF Outgoing, Replied
<1>6. \A i \in 1..(Len(write_buf_) + 1) : i \in 1..Len(write_buf_) \/ i = Len(write_buf_) + 1
  BY <1>3
<1>7. \A i \in 1..Len(Outgoing') : Outgoing'[i].req \in request_buf_'
  <2>1. \A i \in 1..Len(write_buf_) : write_buf_[i].req \in request_buf_
    BY <1>5 DEF Replies
  <2>. QED
    BY <1>1, <1>2, <1>4, <1>5, <1>6, <2>1
<1>8. ASSUME intact'
      PROVE  /\ Len(received') <= Len(sent')
             /\ \A i \in 1..Len(received') :
                   received'[i].req = i /\ (received'[i].refused => sent'[i] \notin Faultless)
             /\ Len(received') + Len(Outgoing') = Replied'
             /\ \A i \in 1..Len(Outgoing') :
                   /\ Outgoing'[i].req = Len(received') + i
                   /\ Outgoing'[i].refused => sent'[Len(received') + i] \notin Faultless
  <2>1. /\ Len(received) <= Len(sent)
        /\ \A i \in 1..Len(received) :
              received[i].req = i /\ (received[i].refused => sent[i] \notin Faultless)
        /\ Len(received) + Len(write_buf_) = Replied
        /\ \A i \in 1..Len(write_buf_) :
              /\ write_buf_[i].req = Len(received) + i
              /\ write_buf_[i].refused => sent[Len(received) + i] \notin Faultless
    BY <1>5, <1>8, Faults
  <2>2. cur' = Replied + 1 /\ (refused => sent[cur'] \notin Faultless)
    BY <1>8
  <2>5. Len(received) + Len(write_buf_) = Replied
    BY <2>1
  <2>3. Len(received) + (Len(write_buf_) + 1) = cur'
    BY <1>0, <1>3, <2>2, <2>5
  <2>4. \A i \in 1..Len(write_buf_') :
              /\ write_buf_'[i].req = Len(received) + i
              /\ write_buf_'[i].refused => sent[Len(received) + i] \notin Faultless
    BY <1>2, <1>4, <1>6, <2>1, <2>2, <2>3
  <2>. QED
    BY <1>4, <1>5, <2>1, <2>3, <2>4
<1>. QED
  BY <1>7, <1>8 DEF Replies, RepliesInOrder, Faultless

\* A write arrives: what was under way is received.
LEMMA Delivered ==
  ASSUME TypeOK, Control, Parts, Replies, Deliver
  PROVE  Replies'
<1>0. /\ received \in Seq([req: 0..MaxReq, refused: BOOLEAN]) /\ writing \in Seq(Reply)
      /\ Len(sent) \in Nat /\ Len(received) \in Nat /\ Len(writing) \in Nat
      /\ Replied \in Nat /\ Replied <= Len(sent)
  BY Facts, RepliedBound
<1> DEFINE w == [i \in 1..Len(writing) |->
                   [req |-> IF writing[i].req \in request_buf_ THEN writing[i].req ELSE 0,
                    refused |-> writing[i].refused]]
<1>1. /\ op = "write" /\ op' = "written" /\ received' = received \o w
      /\ UNCHANGED <<sent, request_buf_, write_buf_, alive, intact, state_, cur>>
  BY DEF Deliver, replyVars, requestVars
<1>2. alive /\ write_buf_ = <<>> /\ Outgoing = writing /\ Outgoing' = <<>> /\ Replied' = Replied
  BY <1>1 DEF Control, Outgoing, Replied
<1>3. \A i \in 1..Len(writing) : writing[i].req \in request_buf_
  BY <1>2 DEF Replies
<1>4. \A i \in 1..Len(writing) : w[i].req = writing[i].req /\ w[i].refused = writing[i].refused
  BY <1>3
<1> DEFINE R == [req: 0..MaxReq, refused: BOOLEAN]
<1>5. w \in Seq(R) /\ Len(w) = Len(writing)
  <2>1. \A i \in 1..Len(writing) : writing[i] \in Reply
    BY <1>0
  <2>2. \A i \in 1..Len(writing) :
           /\ (IF writing[i].req \in request_buf_ THEN writing[i].req ELSE 0) \in 0..MaxReq
           /\ writing[i].refused \in BOOLEAN
    <3>1. \A r \in Reply : r.req \in Reqs /\ r.refused \in BOOLEAN
      BY DEF Reply
    <3>2. 0 \in 0..MaxReq /\ Reqs \subseteq 0..MaxReq
      BY Facts DEF Reqs
    <3>. QED
      BY <2>1, <3>1, <3>2
  <2>3. w \in [1..Len(writing) -> R]
    BY <2>2
  <2> HIDE DEF w, R
  <2>. QED
    BY <1>0, <2>3
<1> HIDE DEF w, R
<1>6. received \in Seq(R)
  BY <1>0 DEF R
<1>7. /\ Len(received') = Len(received) + Len(writing)
      /\ \A i \in 1..(Len(received) + Len(writing)) :
            received'[i] = IF i <= Len(received) THEN received[i] ELSE w[i - Len(received)]
  <2>1. /\ Len(received \o w) = Len(received) + Len(w)
        /\ \A i \in 1..(Len(received) + Len(w)) :
              (received \o w)[i] = IF i <= Len(received) THEN received[i] ELSE w[i - Len(received)]
    BY <1>5, <1>6, Cat
  <2>. QED
    BY <1>1, <1>5, <2>1
<1>8. ASSUME intact
      PROVE  /\ Len(received') = Replied
             /\ \A i \in 1..Len(received') :
                   received'[i].req = i /\ (received'[i].refused => sent[i] \notin Faultless)
  <2>1. /\ \A i \in 1..Len(received) :
              received[i].req = i /\ (received[i].refused => sent[i] \notin Faultless)
        /\ Len(received) + Len(writing) = Replied
        /\ \A i \in 1..Len(writing) :
              /\ writing[i].req = Len(received) + i
              /\ writing[i].refused => sent[Len(received) + i] \notin Faultless
    BY <1>2, <1>8, Faults
  <2>2. ASSUME NEW i \in 1..(Len(received) + Len(writing))
        PROVE  received'[i].req = i /\ (received'[i].refused => sent[i] \notin Faultless)
    <3>1. CASE i <= Len(received)
      <4>1. i \in 1..Len(received)
        BY <1>0, <3>1
      <4>2. received'[i] = received[i]
        BY <1>7, <3>1
      <4>. QED
        BY <2>1, <4>1, <4>2
    <3>2. CASE ~(i <= Len(received))
      <4>1. i - Len(received) \in 1..Len(writing) /\ Len(received) + (i - Len(received)) = i
        BY <1>0, <3>2
      <4>2. received'[i] = w[i - Len(received)]
        BY <1>7, <3>2
      <4>3. /\ received'[i].req = writing[i - Len(received)].req
            /\ received'[i].refused = writing[i - Len(received)].refused
        BY <1>4, <4>1, <4>2
      <4>. QED
        BY <2>1, <4>1, <4>3
    <3>. QED
      BY <3>1, <3>2
  <2>. QED
    BY <1>7, <2>1, <2>2
<1>9. Len(Outgoing') = 0
  BY <1>2
<1>10. \A i \in 1..Len(Outgoing') : FALSE
  BY <1>9
<1>11. Len(received') + Len(Outgoing') = Len(received')
  BY <1>0, <1>7, <1>9
<1>12. \A i \in 1..Len(Outgoing') : Outgoing'[i].req \in request_buf_'
  BY <1>10
<1>13. ASSUME intact'
       PROVE  /\ Len(received') <= Len(sent')
              /\ \A i \in 1..Len(received') :
                    received'[i].req = i /\ (received'[i].refused => sent'[i] \notin Faultless)
              /\ Len(received') + Len(Outgoing') = Replied'
              /\ \A i \in 1..Len(Outgoing') :
                    /\ Outgoing'[i].req = Len(received') + i
                    /\ Outgoing'[i].refused => sent'[Len(received') + i] \notin Faultless
  <2>1. intact
    BY <1>1, <1>13
  <2>2. Len(received') = Replied /\ sent' = sent /\ Replied' = Replied
    BY <1>1, <1>2, <1>8, <2>1
  <2>. QED
    BY <1>0, <1>8, <1>10, <1>11, <2>1, <2>2
<1>. QED
  BY <1>12, <1>13 DEF Replies, RepliesInOrder, Faultless

LEMMA RepliesStep ==
  ASSUME TypeOK, Control, Framing, Replies, [Next]_vars
  PROVE  Replies'
<1>0. Parts /\ InStep
  BY DEF Framing
<1>01. intact' => intact
  BY <1>0, IntactOnce
<1>02. /\ Len(sent) <= Len(sent') /\ Len(sent') \in Nat /\ \A n \in 1..Len(sent) : sent'[n] = sent[n]
  BY <1>0, StreamKept
<1>03. cur \in Nat /\ Len(sent) \in Nat
  BY Facts
<1>1. CASE Deliver
  BY <1>0, <1>1, Delivered
<1>2. CASE (\E k \in Kinds : Send(k)) \/ Break \/ Done \/ UNCHANGED vars
  <2>1. /\ UNCHANGED <<received, request_buf_, alive>>
        /\ Outgoing' = Outgoing /\ Replied' = Replied
    BY <1>2 DEF Send, Break, Done, vars, streamVars, replyVars, requestVars, Outgoing, Replied
  <2>. QED
    BY <1>0, <1>01, <1>02, <2>1, RepliesKept
<1>3. CASE handle_read
  <2>1. /\ UNCHANGED <<received, request_buf_>> /\ (alive' => alive)
        /\ Outgoing' = Outgoing /\ Replied' = Replied
    BY <1>3 DEF handle_read, Open, Closed, requestVars, Outgoing, Replied
  <2>. QED
    BY <1>0, <1>01, <1>02, <2>1, RepliesKept
<1>4. CASE handle_write
  <2>1. /\ UNCHANGED <<sent, received, request_buf_, intact>> /\ (alive' => alive) /\ op' = "none"
        /\ UNCHANGED <<write_buf_, state_, cur>>
        /\ op = "written" \/ (op = "write" /\ ~alive')
    BY <1>4 DEF handle_write, Open, Closed, requestVars, streamVars
  <2>2. CASE op = "written"
    <3>1. Outgoing' = Outgoing /\ Replied' = Replied
      BY <2>1, <2>2 DEF Outgoing, Replied
    <3>. QED
      BY <1>0, <1>01, <1>02, <2>1, <3>1, RepliesKept
  <2>3. CASE op = "write" /\ ~alive'
    <3>1. Outgoing' = <<>>
      BY <2>1, <2>3 DEF Outgoing, Control
    <3>2. \A i \in 1..Len(Outgoing') : Outgoing'[i].req \in request_buf_'
      BY <3>1
    <3>. QED
      BY <2>1, <2>3, <3>2 DEF Replies, RepliesInOrder
  <2>. QED
    BY <2>1, <2>2, <2>3
<1>5. CASE after_process
  <2>1. op = "none"
    BY <1>5 DEF after_process, Control
  <2>2. /\ UNCHANGED <<received, request_buf_>> /\ (alive' => alive)
        /\ Outgoing' = Outgoing /\ Replied' = Replied
    BY <1>5, <2>1 DEF after_process, Open, Closed, streamVars, requestVars, Outgoing, Replied
  <2>. QED
    BY <1>0, <1>01, <1>02, <2>2, RepliesKept
<1>6. CASE reset_for_new_cmd
  <2>1. op = "none" /\ op' = op /\ write_buf_ = <<>> /\ UNCHANGED <<write_buf_, received, sent, alive, cur>>
        /\ state_ = "new_cmd" /\ state_' = "header"
    BY <1>6 DEF reset_for_new_cmd, InLoop, LoopUnchanged, Control
  <2>2. Outgoing' = <<>> /\ Outgoing = <<>> /\ Replied' = Replied
    BY <2>1 DEF Outgoing, Replied
  <2>3. \A i \in 1..Len(Outgoing') : FALSE
    BY <2>2
  <2>. QED
    BY <1>01, <2>1, <2>2, <2>3 DEF Replies, RepliesInOrder
<1>7. CASE copy_extras \/ read_more \/ read_extras \/ leave \/ close
  <2>1. /\ UNCHANGED <<received, request_buf_, alive>>
        /\ Outgoing' = Outgoing /\ Replied' = Replied
    BY <1>7 DEF copy_extras, read_more, read_extras, leave, close, NoReply, replyVars, requestVars,
                InLoop, LoopUnchanged, Outgoing, Replied
  <2>. QED
    BY <1>0, <1>01, <1>02, <2>1, RepliesKept
<1>8. CASE write
  <2>1. next_state_ = "new_cmd"
    BY DEF Control
  <2>2. /\ UNCHANGED <<received, request_buf_, alive>>
        /\ Outgoing' = Outgoing /\ Replied' = Replied
    BY <1>8, <2>1 DEF write, replyVars, requestVars, InLoop, LoopUnchanged, Outgoing, Replied
  <2>. QED
    BY <1>0, <1>01, <1>02, <2>2, RepliesKept
<1>9. CASE read_header
  <2>1. PICK p \in Ends, n \in 1..Len(sent) :
           /\ \A y \in Ends : p <= y
           /\ n = read_buffer_[p][1]
           /\ process_request_header(n, read_buffer_[1] = <<n, 1>>)
    BY <1>0, <1>9, HeaderRead
  <2>2. PICK alone \in BOOLEAN : alone = (read_buffer_[1] = <<n, 1>>)
    OBVIOUS
  <2>3. process_request_header(n, alone)
    BY <2>1, <2>2
  <2>4. /\ cur' = n
        /\ \/ state_' = "extras" /\ NoReply
           \/ process_command
           \/ write_error /\ (intact' => (~alone \/ sent[n] = "bad"))
    BY <2>3, HeaderOutcome
  <2>5. /\ UNCHANGED <<sent, received, alive, op, writing>> /\ state_ = "header" /\ alive /\ op = "none"
    BY <1>9 DEF read_header, InLoop, LoopUnchanged, Control
  <2>6. intact' => n = cur + 1 /\ alone
    BY <1>0, <1>01, <2>1, <2>2, <2>5, FirstEnd
  <2>7. Replied = cur
    BY <2>5 DEF Replied
  <2>8. CASE state_' = "extras" /\ NoReply
    <3>1. Outgoing' = Outgoing /\ request_buf_' = request_buf_
      BY <2>5, <2>8 DEF Outgoing, NoReply, replyVars
    <3>2. intact' => Replied' = Replied
      BY <1>03, <2>4, <2>6, <2>7, <2>8 DEF Replied
    <3>. QED
      BY <1>0, <1>01, <1>02, <2>5, <3>1, <3>2, RepliesKept
  <2>9. CASE process_command
    <3>1. PICK item \in BOOLEAN : AddReply(item, FALSE)
      BY <2>9 DEF process_command, process_get, process_update, process_delete
    <3>2. intact' => (cur' = Replied + 1 /\ (FALSE => sent[cur'] \notin Faultless))
      BY <2>4, <2>6, <2>7
    <3>. QED
      BY <1>0, <1>01, <2>4, <2>5, <3>1, <3>2, Collected
  <2>10. CASE write_error /\ (intact' => (~alone \/ sent[n] = "bad"))
    <3>1. AddReply(FALSE, TRUE)
      BY <2>10 DEF write_error
    <3>2. intact' => (cur' = Replied + 1 /\ (TRUE => sent[cur'] \notin Faultless))
      BY <2>4, <2>6, <2>7, <2>10 DEF Faultless
    <3>. QED
      BY <1>0, <1>01, <2>4, <2>5, <3>1, <3>2, Collected
  <2>. QED
    BY <2>4, <2>8, <2>9, <2>10
<1>10. CASE header_too_large
  <2>1. /\ AddReply(FALSE, TRUE) /\ ~intact' /\ cur' = read_buffer_[1][1] /\ Have >= HeaderMax
        /\ UNCHANGED <<sent, received, alive, op>> /\ alive /\ op = "none"
    BY <1>10 DEF header_too_large, write_error, InLoop, LoopUnchanged, Control
  <2>2. 1 \in 1..Have
    BY <2>1, Facts, PeerHttpAssumption
  <2>3. cur' \in 1..Len(sent)
    BY <1>0, <2>1, <2>2 DEF Parts, Within, Have
  <2>. QED
    BY <1>0, <2>1, <2>3, Collected
<1>11. CASE process_post
  <2>1. /\ process_command \/ write_error
        /\ cur' = cur /\ intact' = intact /\ UNCHANGED <<sent, received, alive, op>> /\ alive
        /\ op = "none" /\ state_ = "extras"
    BY <1>11 DEF process_post, InLoop, LoopUnchanged, Control
  <2>2. cur' \in 1..Len(sent) /\ (intact' => sent[cur'] = "post")
    BY <1>0, <1>03, <2>1 DEF Parts
  <2>3. intact' => (cur' = Replied + 1 /\ sent[cur'] \notin Faultless)
    BY <1>03, <2>1, <2>2 DEF Replied, Faultless
  <2>4. CASE process_command
    <3>1. PICK item \in BOOLEAN : AddReply(item, FALSE)
      BY <2>4 DEF process_command, process_get, process_update, process_delete
    <3>. QED
      BY <1>0, <1>01, <2>1, <2>2, <2>3, <3>1, Collected
  <2>5. CASE write_error
    <3>1. AddReply(FALSE, TRUE)
      BY <2>5 DEF write_error
    <3>. QED
      BY <1>0, <1>01, <2>1, <2>2, <2>3, <3>1, Collected
  <2>. QED
    BY <2>1, <2>4, <2>5
<1>. QED
  BY <1>1, <1>2, <1>3, <1>4, <1>5, <1>6, <1>7, <1>8, <1>9, <1>10, <1>11 DEF Next, process
-----------------------------------------------------------------------------
(* Types.                                                                  *)

LEMMA CurStays ==
  ASSUME TypeOK, Parts, [Next]_vars
  PROVE  cur' \in 0..MaxReq /\ (state_' \in {"extras", "write"} => cur' \in Reqs)
<1>1. Len(sent') \in Nat /\ Len(sent') <= MaxReq /\ MaxReq \in Nat /\ Len(sent) \in Nat
      /\ Len(sent) <= MaxReq
  BY Facts, StreamKept DEF Parts
<1>2. Parts'
  BY PartsStep
<1>3. cur' = cur \/ cur' \in 1..Len(sent)
  <2>1. CASE read_header
    BY <2>1, HeaderEffect
  <2>2. CASE header_too_large
    <3>1. 1 \in 1..Have /\ cur' = read_buffer_[1][1]
      BY <2>2, Facts, PeerHttpAssumption DEF header_too_large
    <3>. QED
      BY <3>1 DEF Parts, Within, Have
  <2>3. ASSUME ~read_header, ~header_too_large PROVE cur' = cur
    BY <2>3 DEF Next, process, vars, Send, Break, Deliver, handle_read, handle_write, after_process,
                Done, reset_for_new_cmd, process_post, copy_extras, read_more, read_extras, leave,
                write, close, requestVars
  <2>. QED
    BY <2>1, <2>2, <2>3
<1>4. cur' \in Nat
  BY <1>1, <1>3, Facts
<1>5. cur' <= Len(sent') /\ (state_' \in {"extras", "write"} => cur' >= 1)
  BY <1>2 DEF Parts
<1>. QED
  BY <1>1, <1>4, <1>5 DEF Reqs

\* The loop and what it reads.
LEMMA LoopTypes ==
  ASSUME TypeOK, Control, Parts, [Next]_vars
  PROVE  /\ broken' \in BOOLEAN /\ alive' \in BOOLEAN
         /\ pc' \in {"idle", "process", "behind"} /\ op' \in {"none", "read", "write", "written"}
         /\ state_' \in States /\ next_state_' \in {"new_cmd", "closing"}
         /\ next_data_len_' \in 0..2 /\ content_length_' \in {0, 2}
         /\ process_reqest_count' \in 0..1
         /\ keepalive' \in BOOLEAN /\ late' \subseteq Reqs
<1>0. /\ broken \in BOOLEAN /\ alive \in BOOLEAN
      /\ pc \in {"idle", "process", "behind"} /\ op \in {"none", "read", "write", "written"}
      /\ state_ \in States /\ next_state_ \in {"new_cmd", "closing"}
      /\ next_data_len_ \in 0..2 /\ content_length_ \in {0, 2}
      /\ process_reqest_count \in 0..1
      /\ keepalive \in BOOLEAN /\ late \subseteq Reqs /\ Have \in Nat
  BY Facts DEF TypeOK
<1>00. 0 \in 0..1 /\ 0 \in 0..2
  OBVIOUS
<1>1. CASE (\E k \in Kinds : Send(k)) \/ Break \/ Deliver \/ Done \/ UNCHANGED vars
  BY <1>0, <1>1 DEF Send, Break, Deliver, Done, vars, streamVars, requestVars, replyVars
<1>2. CASE handle_read
  <2>1. /\ UNCHANGED <<broken, keepalive, content_length_, state_, next_state_, next_data_len_, late>>
        /\ op' = "none" /\ pc' \in {"process", pc}
        /\ process_reqest_count' \in {0, process_reqest_count} /\ alive' \in {FALSE, alive}
    BY <1>2, Zenon DEF handle_read, Enter, Open, Closed, requestVars
  <2>. QED
    BY <1>0, <1>00, <2>1, Zenon
<1>3. CASE handle_write
  <2>1. /\ UNCHANGED <<broken, keepalive, content_length_, state_, next_state_, next_data_len_, late>>
        /\ op' = "none" /\ pc' \in {"process", pc}
        /\ process_reqest_count' \in {0, process_reqest_count} /\ alive' \in {FALSE, alive}
    BY <1>3, Zenon DEF handle_write, Enter, Open, Closed, requestVars, streamVars
  <2>. QED
    BY <1>0, <1>00, <2>1, Zenon
<1>4. CASE after_process
  BY <1>0, <1>4 DEF after_process, Open, Closed, requestVars, streamVars
<1>5. CASE reset_for_new_cmd \/ read_more \/ close
  <2>1. /\ UNCHANGED <<broken, alive, op, next_state_, process_reqest_count, late>>
        /\ pc' \in {"behind", pc} /\ state_' \in {"header", "closed", state_}
        /\ keepalive' \in {FALSE, keepalive} /\ content_length_' \in {0, content_length_}
        /\ next_data_len_' \in {0, next_data_len_}
    BY <1>5, Zenon DEF reset_for_new_cmd, read_more, close, LoopUnchanged, NoReply, requestVars
  <2>2. "header" \in States /\ "closed" \in States
    BY DEF States
  <2>. QED
    BY <1>0, <1>00, <2>1, <2>2, ZenonT(40)
<1>6. CASE copy_extras
  <2> DEFINE tmp == IF Have > next_data_len_ THEN next_data_len_ ELSE Have
  <2>1. tmp \in 0..next_data_len_
    BY <1>0
  <2>2. /\ next_data_len_' = next_data_len_ - tmp
        /\ NoReply /\ LoopUnchanged
        /\ UNCHANGED <<net, requestVars, pc, state_, process_reqest_count, intact, late>>
    BY <1>6 DEF copy_extras
  <2> HIDE DEF tmp
  <2>3. next_data_len_' \in 0..2
    BY <1>0, <2>1, <2>2
  <2>. QED
    BY <1>0, <2>2, <2>3 DEF NoReply, LoopUnchanged, requestVars
<1>7. CASE read_extras
  <2>1. /\ NoReply /\ LoopUnchanged
        /\ UNCHANGED <<requestVars, pc, state_, read_buffer_, process_reqest_count, intact, late>>
        /\ \E n \in 1..next_data_len_ : next_data_len_' = next_data_len_ - n
    BY <1>7 DEF read_extras
  <2>2. next_data_len_' \in 0..2
    BY <1>0, <2>1
  <2>. QED
    BY <1>0, <2>1, <2>2 DEF NoReply, LoopUnchanged, requestVars
<1>8. CASE leave
  <2>1. /\ NoReply /\ LoopUnchanged /\ pc' = "behind"
        /\ UNCHANGED <<net, requestVars, next_data_len_, state_, read_buffer_, process_reqest_count,
                       intact>>
        /\ late' = late \/ (state_ = "extras" /\ late' = late \cup {cur})
    BY <1>8 DEF leave, InLoop
  <2>2. state_ = "extras" => cur \in Reqs
    BY Facts DEF Parts, Reqs
  <2>3. late' \subseteq Reqs
    BY <1>0, <2>1, <2>2
  <2>. QED
    BY <1>0, <2>1, <2>3 DEF NoReply, LoopUnchanged, requestVars
<1>9. CASE write
  BY <1>0, <1>9 DEF write, LoopUnchanged, requestVars, States
<1>10. CASE read_header
  <2>1. PICK p \in Ends, n \in 1..Len(sent) :
           process_request_header(n, read_buffer_[1] = <<n, 1>>)
    BY <1>10, HeaderRead
  <2>2. PICK alone \in BOOLEAN : alone = (read_buffer_[1] = <<n, 1>>)
    OBVIOUS
  <2>3. process_request_header(n, alone)
    BY <2>1, <2>2
  <2>4. /\ keepalive' \in BOOLEAN /\ content_length_' \in {0, 2}
        /\ \/ state_' = "extras" /\ NoReply /\ next_data_len_' = 2
           \/ (process_command \/ write_error) /\ next_data_len_' = next_data_len_
    BY <2>3, HeaderOutcome
  <2>5. /\ state_' \in States /\ next_state_' \in {"new_cmd", "closing"} /\ next_data_len_' \in 0..2
    <3>1. CASE state_' = "extras" /\ NoReply /\ next_data_len_' = 2
      BY <1>0, <3>1 DEF NoReply, States
    <3>2. CASE (process_command \/ write_error) /\ next_data_len_' = next_data_len_
      BY <1>0, <3>2, Replying DEF States
    <3>. QED
      BY <2>4, <3>1, <3>2
  <2>6. /\ pc' = pc /\ late' = late /\ LoopUnchanged /\ InLoop("header")
        /\ process_reqest_count' = process_reqest_count + 1
    BY <1>10 DEF read_header
  <2>7. process_reqest_count' \in 0..1
    BY <2>6 DEF Control, InLoop
  <2>. QED
    BY <1>0, <2>4, <2>5, <2>6, <2>7 DEF LoopUnchanged
<1>11. CASE header_too_large
  <2>1. /\ pc' = pc /\ late' = late /\ LoopUnchanged /\ InLoop("header")
        /\ process_reqest_count' = process_reqest_count + 1
        /\ UNCHANGED <<keepalive, content_length_, next_data_len_>>
        /\ state_' = "write" /\ next_state_' = "new_cmd"
    BY <1>11, Replying DEF header_too_large
  <2>2. process_reqest_count' \in 0..1
    BY <2>1 DEF Control, InLoop
  <2>. QED
    BY <1>0, <2>1, <2>2 DEF LoopUnchanged, States
<1>12. CASE process_post
  <2>1. /\ pc' = pc /\ late' = late /\ LoopUnchanged
        /\ UNCHANGED <<keepalive, content_length_, next_data_len_, process_reqest_count>>
        /\ state_' = "write" /\ next_state_' = "new_cmd"
    BY <1>12, Replying DEF process_post
  <2>. QED
    BY <1>0, <2>1 DEF LoopUnchanged, States
<1>. QED
  BY <1>1, <1>2, <1>3, <1>4, <1>5, <1>6, <1>7, <1>8, <1>9, <1>10, <1>11, <1>12 DEF Next, process

LEMMA ReplyTypes ==
  ASSUME TypeOK, process_command \/ write_error, cur' \in Reqs
  PROVE  /\ request_buf_' \subseteq Reqs /\ held' \subseteq Reqs /\ cache_item_' \in 0..MaxReq
         /\ write_buf_' \in Seq(Reply)
<1>0. /\ request_buf_ \subseteq Reqs /\ held \subseteq Reqs /\ cache_item_ \in 0..MaxReq
      /\ write_buf_ \in Seq(Reply) /\ MaxReq \in Nat
  BY Facts DEF TypeOK
<1>1. PICK item \in BOOLEAN, refused \in BOOLEAN : AddReply(item, refused)
  BY Replying
<1>2. request_buf_' \subseteq Reqs
  BY <1>0, <1>1 DEF AddReply
<1>3. held' \subseteq Reqs
  BY <1>0, Replying
<1>4. cache_item_' \in 0..MaxReq
  <2>1. cur' \in 0..MaxReq /\ 0 \in 0..MaxReq
    BY <1>0 DEF Reqs
  <2>. QED
    BY <1>0, <2>1, Replying
<1>5. [req |-> cur', item |-> item, refused |-> refused] \in Reply
  BY DEF Reply
<1>6. write_buf_' = Append(write_buf_, [req |-> cur', item |-> item, refused |-> refused])
  BY <1>1 DEF AddReply
<1>7. write_buf_' \in Seq(Reply)
  BY <1>0, <1>5, <1>6
<1>. QED
  BY <1>2, <1>3, <1>4, <1>7

\* The replies and the items.
LEMMA OutTypes ==
  ASSUME TypeOK, Parts, [Next]_vars
  PROVE  /\ request_buf_' \subseteq Reqs /\ held' \subseteq Reqs /\ cache_item_' \in 0..MaxReq
         /\ write_buf_' \in Seq(Reply) /\ writing' \in Seq(Reply)
<1>0. /\ request_buf_ \subseteq Reqs /\ held \subseteq Reqs /\ cache_item_ \in 0..MaxReq
      /\ write_buf_ \in Seq(Reply) /\ writing \in Seq(Reply) /\ MaxReq \in Nat /\ <<>> \in Seq(Reply)
      /\ 0 \in 0..MaxReq
  BY Facts DEF TypeOK
<1>1. CASE (\E k \in Kinds : Send(k)) \/ Break \/ Deliver \/ Done \/ UNCHANGED vars
  BY <1>0, <1>1 DEF Send, Break, Deliver, Done, vars, replyVars
<1>2. CASE handle_read \/ handle_write \/ after_process
  BY <1>0, <1>2 DEF handle_read, handle_write, after_process, Open, Closed
<1>3. CASE reset_for_new_cmd
  BY <1>0, <1>3 DEF reset_for_new_cmd, LoopUnchanged
<1>4. CASE copy_extras \/ read_more \/ read_extras \/ leave \/ write \/ close
  BY <1>0, <1>4 DEF copy_extras, read_more, read_extras, leave, write, close, NoReply, LoopUnchanged,
                    replyVars
<1>5. state_' \in {"extras", "write"} => cur' \in Reqs
  BY CurStays
<1>6. CASE read_header
  <2>1. /\ (state_' = "extras" /\ NoReply) \/ process_command \/ write_error
        /\ LoopUnchanged
    BY <1>6, HeaderEffect
  <2>2. CASE state_' = "extras" /\ NoReply
    BY <1>0, <2>1, <2>2 DEF NoReply, LoopUnchanged, replyVars
  <2>3. CASE process_command \/ write_error
    <3>1. cur' \in Reqs
      BY <1>5, <2>3, Replying
    <3>. QED
      BY <1>0, <2>1, <2>3, <3>1, ReplyTypes DEF LoopUnchanged
  <2>. QED
    BY <2>1, <2>2, <2>3
<1>7. CASE header_too_large \/ process_post
  <2>1. (process_command \/ write_error) /\ LoopUnchanged
    BY <1>7 DEF header_too_large, process_post
  <2>2. cur' \in Reqs
    BY <1>5, <2>1, Replying
  <2>. QED
    BY <1>0, <2>1, <2>2, ReplyTypes DEF LoopUnchanged
<1>. QED
  BY <1>1, <1>2, <1>3, <1>4, <1>6, <1>7 DEF Next, process

LEMMA ReceivedType ==
  ASSUME TypeOK, [Next]_vars
  PROVE  received' \in Seq([req: 0..MaxReq, refused: BOOLEAN])
<1> DEFINE R == [req: 0..MaxReq, refused: BOOLEAN]
<1>0. received \in Seq(R) /\ writing \in Seq(Reply) /\ Len(writing) \in Nat
  BY Facts
<1>1. CASE Deliver
  <2> DEFINE w == [i \in 1..Len(writing) |->
                     [req |-> IF writing[i].req \in request_buf_ THEN writing[i].req ELSE 0,
                      refused |-> writing[i].refused]]
  <2>1. received' = received \o w
    BY <1>1 DEF Deliver
  <2>2. \A i \in 1..Len(writing) : writing[i] \in Reply
    BY <1>0
  <2>3. \A r \in Reply : r.req \in Reqs /\ r.refused \in BOOLEAN
    BY DEF Reply
  <2>4. 0 \in 0..MaxReq /\ Reqs \subseteq 0..MaxReq
    BY Facts DEF Reqs
  <2>5. \A i \in 1..Len(writing) :
           /\ (IF writing[i].req \in request_buf_ THEN writing[i].req ELSE 0) \in 0..MaxReq
           /\ writing[i].refused \in BOOLEAN
    BY <2>2, <2>3, <2>4
  <2>6. w \in [1..Len(writing) -> R]
    BY <2>5
  <2> HIDE DEF w, R
  <2>7. w \in Seq(R)
    BY <1>0, <2>6
  <2>8. received \o w \in Seq(R)
    BY <1>0, <2>7, Cat
  <2>. QED
    BY <2>1, <2>8 DEF R
<1>2. ASSUME ~Deliver PROVE received' = received
  BY <1>2 DEF Next, process, vars, streamVars, Send, Break, handle_read, handle_write, after_process,
              Done, reset_for_new_cmd, read_header, header_too_large, process_post, copy_extras,
              read_more, read_extras, leave, write, close, LoopUnchanged
<1>. QED
  BY <1>0, <1>1, <1>2

LEMMA TypeStep ==
  ASSUME TypeOK, Control, Parts, [Next]_vars
  PROVE  TypeOK'
<1>1. sent' \in Seq(Kinds) /\ net' \in Seq(Reqs \X (1..5)) /\ read_buffer_' \in Seq(Reqs \X (1..5))
  BY StreamKept
<1>2. received' \in Seq([req: 0..MaxReq, refused: BOOLEAN])
  BY ReceivedType
<1>3. cur' \in 0..MaxReq
  BY CurStays
<1>4. intact' \in BOOLEAN
  BY IntactOnce
<1>5. /\ broken' \in BOOLEAN /\ alive' \in BOOLEAN
      /\ pc' \in {"idle", "process", "behind"} /\ op' \in {"none", "read", "write", "written"}
      /\ state_' \in States /\ next_state_' \in {"new_cmd", "closing"}
      /\ next_data_len_' \in 0..2 /\ content_length_' \in {0, 2}
      /\ process_reqest_count' \in 0..1
      /\ keepalive' \in BOOLEAN /\ late' \subseteq Reqs
  BY LoopTypes
<1>6. /\ request_buf_' \subseteq Reqs /\ held' \subseteq Reqs /\ cache_item_' \in 0..MaxReq
      /\ write_buf_' \in Seq(Reply) /\ writing' \in Seq(Reply)
  BY OutTypes
<1>. QED
  BY <1>1, <1>2, <1>3, <1>4, <1>5, <1>6, Zenon DEF TypeOK, Reqs, States, Reply
-----------------------------------------------------------------------------
(* The theorems.                                                           *)

LEMMA HttpInit ==
  ASSUME Init
  PROVE  HttpInv
<1>0. MaxReq \in Nat
  BY PeerHttpAssumption
<1>1. TypeOK
  <2>1. 0 \in 0..MaxReq /\ 0 \in 0..2 /\ 0 \in 0..1 /\ \A S : <<>> \in Seq(S)
    BY <1>0
  <2>. QED
    BY <2>1, Zenon DEF Init, TypeOK, States
<1>2. Control
  BY DEF Init, Control, NeverOrphaned
<1>3. Items
  BY DEF Init, Items, LostOnlyBehindLatePost, Kept
<1>4. Parts
  BY <1>0 DEF Init, Parts, Within
<1>5. Sizes = <<>> /\ Len(Sizes) = 0
  BY DEF Init, Sizes
<1>6. read_buffer_ \o net = <<>> /\ Left = 0 /\ cur = 0
  BY DEF Init, Left
<1>7. Aligned(<<>>, Sizes, 0, 0, ~broken)
  BY <1>5 DEF Aligned, Cuts
<1>8. InStep
  BY <1>6, <1>7 DEF InStep
<1>9. Replies
  BY DEF Init, Replies, RepliesInOrder, Outgoing, Replied
<1>. QED
  BY <1>1, <1>2, <1>3, <1>4, <1>8, <1>9 DEF HttpInv, Framing

\* The conjunction of the invariants is kept by every step.
LEMMA HttpNext ==
  ASSUME HttpInv, [Next]_vars
  PROVE  HttpInv'
<1>0. TypeOK /\ Control /\ Items /\ Framing /\ Replies /\ Parts
  BY DEF HttpInv, Framing
<1>1. TypeOK'
  BY <1>0, TypeStep
<1>2. Control'
  BY <1>0, ControlStep
<1>3. Items'
  BY <1>0, ItemsStep
<1>4. Framing'
  BY <1>0, FramingStep
<1>5. Replies'
  BY <1>0, RepliesStep
<1>. QED
  BY <1>1, <1>2, <1>3, <1>4, <1>5 DEF HttpInv

\* The inductive invariant holds for ever, for any kinds of requests and limits.
THEOREM HttpInvariant == Spec => []HttpInv
<1>1. Init => HttpInv
  BY HttpInit
<1>2. HttpInv /\ [Next]_vars => HttpInv'
  BY HttpNext
<1>. QED
  BY <1>1, <1>2, PTL DEF Spec

\* The connection keeps to its types: one header a pass is counted, and what is
\* left of a body is never negative.
THEOREM HttpTypes == Spec => []TypeOK
<1>1. HttpInv => TypeOK
  BY DEF HttpInv
<1>. QED
  BY <1>1, HttpInvariant, PTL

\* handle_read, handle_write and process never leave a connection that lives
\* with no operation under way.
THEOREM NoHttpConnectionIsOrphaned == Spec => []NeverOrphaned
<1>1. HttpInv => NeverOrphaned
  BY DEF HttpInv, Control
<1>. QED
  BY <1>1, HttpInvariant, PTL

\* process_get and process_update lose a reference to an item only behind a POST
\* whose body came in a later pass; reset_for_new_cmd and cleanup give every
\* other one back.
THEOREM ItemsLostOnlyBehindLatePost == Spec => []LostOnlyBehindLatePost
<1>1. HttpInv => LostOnlyBehindLatePost
  BY DEF HttpInv, Items
<1>. QED
  BY <1>1, HttpInvariant, PTL

\* While no body is left unread, try_read_command and the reading of a body take
\* the bytes of one request, however they are cut.
THEOREM HttpStreamIsFramed == Spec => []Framed
<1>1. HttpInv => Framed
  <2>1. SUFFICES ASSUME HttpInv, intact, Have > 0
                 PROVE  /\ state_ \in {"header", "new_cmd"} => Head(read_buffer_) = <<cur + 1, 1>>
                        /\ (state_ = "extras" /\ next_data_len_ > 0) =>
                              Head(read_buffer_) = <<cur, 5 - next_data_len_>>
    BY DEF Framed
  <2>2. TypeOK /\ Parts /\ InStep
    BY <2>1 DEF HttpInv, Framing
  <2>3. /\ sent \in Seq(Kinds) /\ Have \in Nat /\ read_buffer_ \in Seq(Nat \X Nat) /\ cur \in Nat
        /\ next_data_len_ \in 0..2 /\ Len(net) \in Nat
    BY <2>2, Facts
  <2>4. Head(read_buffer_) = read_buffer_[1]
    BY <2>1, <2>3 DEF Have
  <2>5. /\ Len(read_buffer_ \o net) = Have + Len(net)
        /\ \A i \in 1..Have : (read_buffer_ \o net)[i] = read_buffer_[i]
    BY <2>2, Pending
  <2>6. (read_buffer_ \o net)[1] = read_buffer_[1] /\ Len(read_buffer_ \o net) > 0
    BY <2>1, <2>3, <2>5
  <2>7. read_buffer_[1] = Expected(Sizes, cur, Left)
    BY <2>1, <2>2, <2>6 DEF InStep, Aligned
  <2>8. ASSUME state_ \in {"header", "new_cmd"} PROVE read_buffer_[1] = <<cur + 1, 1>>
    BY <2>7, <2>8 DEF Left, Expected
  <2>9. ASSUME state_ = "extras", next_data_len_ > 0 PROVE read_buffer_[1] = <<cur, 5 - next_data_len_>>
    <3>1. cur \in 1..Len(sent) /\ sent[cur] = "post"
      BY <2>1, <2>2, <2>3, <2>9 DEF Parts
    <3>2. Sizes[cur] = 4
      BY <2>3, <3>1, SizesType DEF RequestSize, HeaderLength, BodyLength
    <3>3. read_buffer_[1] = <<cur, 4 - next_data_len_ + 1>>
      BY <2>7, <2>9, <3>2 DEF Left, Expected
    <3>4. 4 - next_data_len_ + 1 = 5 - next_data_len_
      BY <2>3
    <3>. QED
      BY <3>3, <3>4
  <2>. QED
    BY <2>4, <2>8, <2>9
<1>. QED
  BY <1>1, HttpInvariant, PTL

\* While no body is left unread, the replies arrive in the order of the requests,
\* one each, and none is refused for the leftovers of another.
THEOREM HttpRepliesAreInOrder == Spec => []RepliesInOrder
<1>1. HttpInv => RepliesInOrder
  BY DEF HttpInv, Replies, RepliesInOrder
<1>. QED
  BY <1>1, HttpInvariant, PTL
=============================================================================
