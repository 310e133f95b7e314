------------------------ MODULE ReproducibleRelease ------------------------
(***************************************************************************)
(* What a release of this repository promises, whatever is built: several  *)
(* replicas each deliver a candidate, now or again later, or take it back; *)
(* what is released is one candidate on which all of them agree, and what  *)
(* was released once does not change.                                      *)
(***************************************************************************)
CONSTANTS Replicas, None

VARIABLES candidate, released

vars == <<candidate, released>>

Init ==
  /\ candidate = [r \in Replicas |-> None]
  /\ released = None

(* The candidates of some replicas become anything.                        *)
Deliver ==
  /\ candidate' = [r \in Replicas |-> candidate'[r]]
  /\ UNCHANGED released

Release ==
  /\ released = None
  /\ released' # None
  /\ \A r \in Replicas : candidate[r] = released'
  /\ UNCHANGED candidate

Next == Release \/ Deliver

Spec == Init /\ [][Next]_vars
=============================================================================
