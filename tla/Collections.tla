---------------------------- MODULE Collections ----------------------------
(***************************************************************************)
(* What the containers of the server promise their users: sequences that   *)
(* share their elements, a set, and a queue of bytes.                      *)
(***************************************************************************)
EXTENDS Naturals, Sequences, SequencesExt

CONSTANTS Nodes, Lists

VARIABLES
  seqs,     \* seqs[l]: the elements of list l, in order
  members,  \* the elements of the map
  queue     \* the bytes received and not yet processed, in order

vars == <<seqs, members, queue>>

Free(p) == \A l \in Lists : p \notin Range(seqs[l])
Without(s, p) == SelectSeq(s, LAMBDA q : q # p)

Init == seqs = [l \in Lists |-> <<>>] /\ members = {} /\ queue = <<>>

\* An element enters a list at an end, leaves it, or moves to an end.
ListStep(l) ==
  /\ \/ \E p \in Nodes : Free(p) /\ seqs' = [seqs EXCEPT ![l] = <<p>> \o @]
     \/ \E p \in Nodes : Free(p) /\ seqs' = [seqs EXCEPT ![l] = Append(@, p)]
     \/ \E p \in Range(seqs[l]) :
          \/ seqs' = [seqs EXCEPT ![l] = Without(@, p)]
          \/ seqs' = [seqs EXCEPT ![l] = <<p>> \o Without(@, p)]
          \/ seqs' = [seqs EXCEPT ![l] = Append(Without(@, p), p)]
  /\ UNCHANGED <<members, queue>>

SetStep ==
  /\ \E p \in Nodes : members' = members \cup {p} \/ members' = members \ {p}
  /\ UNCHANGED <<seqs, queue>>

\* Bytes come in at the end and are processed from the front.
QueueStep ==
  /\ \/ \E n \in 1..Len(queue) : queue' = SubSeq(queue, n + 1, Len(queue))
     \/ Len(queue') > Len(queue) /\ IsPrefix(queue, queue')
  /\ UNCHANGED <<seqs, members>>

Next == (\E l \in Lists : ListStep(l)) \/ SetStep \/ QueueStep

Spec == Init /\ [][Next]_vars
=============================================================================
