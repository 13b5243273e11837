---------------------------- MODULE Enumeration ----------------------------
(***************************************************************************)
(* What both engines promise a client: every formula is handed out at most *)
(* once, to one worker, and none comes back after it was given or passed   *)
(* over.  Which formulas are passed over, and in which order they come, is *)
(* left open here; both engines choose it with their assignment counter.   *)
(***************************************************************************)

CONSTANTS
  Workers,
  AllFormulas   \* what may be handed out at all

VARIABLES
  remaining,    \* the formulas that may still be handed out
  working       \* for each worker the formula it has, as a set, or {}

vars == <<remaining, working>>

Init ==
  /\ remaining = AllFormulas
  /\ working = [w \in Workers |-> {}]

(* A worker is handed a formula; others may be passed over with it. *)
Take(w) ==
  \E f \in remaining :
    /\ working' = [working EXCEPT ![w] = {f}]
    /\ remaining' \subseteq remaining \ {f}

(* A worker is done with its formula. *)
Release(w) ==
  /\ working' = [working EXCEPT ![w] = {}]
  /\ remaining' \subseteq remaining

(* Formulas are passed over. *)
PassOver == UNCHANGED working /\ remaining' \subseteq remaining

(* The enumeration is over; what the workers still have is not wanted.     *)
Stop == working' = [w \in Workers |-> {}] /\ remaining' = {}

Next == PassOver \/ Stop \/ \E w \in Workers : Release(w) \/ Take(w)

Spec == Init /\ [][Next]_vars

(* A client may ask for the formula it was just given once more. *)
Return(w) ==
  /\ working' = [working EXCEPT ![w] = {}]
  /\ remaining' = remaining \cup working[w]

RepeatSpec == Init /\ [][Next \/ \E w \in Workers : Return(w)]_vars
=============================================================================
