------------------------------ MODULE Entries ------------------------------
(***************************************************************************)
(* Directories and archives are functions from names to contents.  The two *)
(* operators that put them together are those of the module TLC, defined   *)
(* here in TLA+ alone so that they can be reasoned about.                  *)
(***************************************************************************)

(* The entries of f, and those of g under the names f does not have.       *)
f @@ g == [n \in DOMAIN f \cup DOMAIN g |-> IF n \in DOMAIN f THEN f[n] ELSE g[n]]

(* The one entry of a name. *)
name :> content == [n \in {name} |-> content]
=============================================================================
