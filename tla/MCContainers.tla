---------------------------- MODULE MCContainers ----------------------------
(* Six elements whose keys collide in tables of 1, 3 and 7 buckets. *)
EXTENDS Containers

MCNodes == 1..6
MCHash == <<0, 3, 7, 10, 21, 5>>
=============================================================================
