---------------------------- MODULE BoundedQueue ----------------------------
(***************************************************************************)
(* What every queue bound of this repository promises, whatever mechanism  *)
(* enforces it: a caller never has more than Window items of its own       *)
(* unfinished on the GPU queue, unless it has been told of an error.  An   *)
(* error is the only way an unfinished item leaves the account.            *)
(***************************************************************************)
EXTENDS Naturals, FiniteSets

CONSTANTS
  Callers,  (* the parties the bound is promised to                        *)
  Window    (* the most unfinished items one caller may have               *)

VARIABLES
  pending,  (* pending[c]: unfinished items of c still under the promise   *)
  errors    (* errors[c]: how many errors c has been told of               *)

vars == <<pending, errors>>

Init ==
  /\ pending = [c \in Callers |-> {}]
  /\ errors = [c \in Callers |-> 0]

(* Some new item of c, whatever identifies it, joins the unfinished ones.  *)
Submit(c) ==
  /\ Cardinality(pending[c]) < Window
  /\ \E i \in pending'[c] :
       /\ i \notin pending[c]
       /\ pending' = [pending EXCEPT ![c] = @ \cup {i}]
  /\ UNCHANGED errors

Complete(c) ==
  /\ \E i \in pending[c] : pending' = [pending EXCEPT ![c] = @ \ {i}]
  /\ UNCHANGED errors

(* c is told of an error, and what it has on the queue is its own affair.  *)
Fail(c) ==
  /\ pending' = [pending EXCEPT ![c] = {}]
  /\ errors' = [errors EXCEPT ![c] = @ + 1]

Next == \E c \in Callers : Submit(c) \/ Complete(c) \/ Fail(c)

Spec == Init /\ [][Next]_vars
=============================================================================
