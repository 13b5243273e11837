---------------------------- MODULE MCGenerator ----------------------------
(* Instances of the generator for TLC. *)
EXTENDS GraphLists

(* The sizes at which every search still ends within seconds.              *)
MCMaxVertices(f, t) ==
  IF f = 2 THEN IF t = "NOREAPPLY" THEN 6 ELSE 5
  ELSE IF t \in {"TUPLES", "CONNECTED"} THEN 4 ELSE 5
=============================================================================
