---------------------------- MODULE MCReadAlong ----------------------------
(* A small instance of ReadAlong for TLC. *)
EXTENDS ReadAlong

Few == [k \in Kinds |-> IF k = "match" THEN 2 ELSE 1]
============================================================================
