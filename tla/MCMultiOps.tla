----------------------------- MODULE MCMultiOps -----------------------------
(* A call with three keys on one server and one on another. *)
EXTENDS MultiOps

MCHosts == {"h1", "h2"}
MCItems == [h \in MCHosts |-> IF h = "h1" THEN <<1, 3, 4>> ELSE <<2>>]
MCKeyLen == <<1, 1, 2, 1>>
MCDataLens == {<<2, 1, 0, 1>>, <<0, 0, 2, 1>>}
=============================================================================
