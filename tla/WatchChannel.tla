---------------------------- MODULE WatchChannel ----------------------------
(***************************************************************************)
(* What a watch promises to the client: within a session the ids of the    *)
(* changed items arrive in the order of the changes, each exactly once.    *)
(* A session ends with everything that was sent in it; the client starts   *)
(* the next one with an empty local cache.                                 *)
(***************************************************************************)
EXTENDS Integers, Sequences

CONSTANT Ids
VARIABLES session, sent, received

channelVars == <<session, sent, received>>

Init == session = 0 /\ sent = <<>> /\ received = <<>>

\* An item under the watch changes.
Push ==
    /\ session # 0
    /\ \E id \in Ids : sent' = Append(sent, id)
    /\ UNCHANGED <<session, received>>

\* The client drops the next n ids from its cache.
Deliver ==
    /\ \E n \in (Len(received) + 1)..Len(sent) : received' = SubSeq(sent, 1, n)
    /\ UNCHANGED <<session, sent>>

Restart ==
    /\ session' # session /\ session' \in Nat
    /\ sent' = <<>> /\ received' = <<>>

Next == Push \/ Deliver \/ Restart
Spec == Init /\ [][Next]_channelVars
=============================================================================
