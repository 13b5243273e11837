------------------------------ MODULE Odometer ------------------------------
(***************************************************************************)
(* The assignment counter that both enumeration engines turn.              *)
(*                                                                         *)
(* For every vertex of a graph the code keeps the vector of symbol indexes *)
(* the vertex may carry (possible_assignments) and an iterator into it     *)
(* (current_assignments).  get_nodes_indexes fills the vector in ascending *)
(* order without repetition, so the vector is here the set "possible[v]"   *)
(* and the iterator the symbol index it points at.  Vertices are numbered  *)
(* from 1 (the code's index plus one); vertex 1 turns fastest.             *)
(***************************************************************************)
EXTENDS Integers, FiniteSetsExt

(* begin(); of an empty vector it is an iterator nobody may follow. *)
Begin(S) == IF S = {} THEN 0 ELSE Min(S)

AllBegin(possible) == [v \in DOMAIN possible |-> Begin(possible[v])]

(* The symbols an iterator at a[v] has still in front of it. *)
Ahead(possible, a, v) == {s \in possible[v] : s > a[v]}

(* The vertices from p on whose iterator is not at its last symbol. *)
CanTurn(possible, a, p) ==
  {v \in DOMAIN possible : v >= p /\ Ahead(possible, a, v) # {}}

(* False when the carry runs off the last vertex: the graph is exhausted. *)
Turns(possible, a, p) == CanTurn(possible, a, p) # {}

(* The vertex at which a carry that starts at p comes to rest. *)
CarryStop(possible, a, p) == Min(CanTurn(possible, a, p))

(* Mutant: a vertex that returned to begin() does not carry. *)
MutIncreaseAt(possible, a, p) ==
  [v \in DOMAIN possible |->
     IF v < p \/ (v = p /\ Ahead(possible, a, v) = {}) THEN Begin(possible[v])
     ELSE IF v = p THEN Min(Ahead(possible, a, v)) ELSE a[v]]

(* increase_stack_at_position(p): everything below p returns to begin(),   *)
(* then p is incremented with carry.  increase_stack() is the case p = 1.  *)
(* When the carry runs off the end every iterator has returned to begin(). *)
IncreaseAt(possible, a, p) ==
  IF Turns(possible, a, p)
  THEN LET q == CarryStop(possible, a, p)
       IN  [v \in DOMAIN possible |->
              IF v < q THEN Begin(possible[v])
              ELSE IF v = q THEN Min(Ahead(possible, a, v))
              ELSE a[v]]
  ELSE AllBegin(possible)

(* Mutant: only the vertex that took the carry is recorded. *)
MutChangedAt(possible, a, p) ==
  {v \in DOMAIN possible :
     Turns(possible, a, p) => v = CarryStop(possible, a, p)}

(* The vertices recorded in "changed": all those the carry passed. *)
ChangedAt(possible, a, p) ==
  {v \in DOMAIN possible :
     Turns(possible, a, p) => v <= CarryStop(possible, a, p)}

(* All assignments the counter can show. *)
Readings(possible) ==
  { a \in [DOMAIN possible -> UNION {possible[v] : v \in DOMAIN possible}] :
      \A v \in DOMAIN possible : a[v] \in possible[v] }

(* The order of enumeration: the highest vertex that differs decides. *)
Before(a, b) ==
  \E v \in DOMAIN a :
    /\ a[v] < b[v]
    /\ \A w \in DOMAIN a : w > v => a[w] = b[w]
=============================================================================
