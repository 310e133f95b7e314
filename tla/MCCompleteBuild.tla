-------------------------- MODULE MCCompleteBuild --------------------------
(* CompleteBuild with two commits and four series of patches.               *)
EXTENDS CompleteBuild

Checkout(env, commit, series, patches) ==
  [env |-> env, lock |-> [commit |-> commit, series |-> series, gpu |-> TRUE],
   patches |-> patches, clean |-> TRUE, binaries |-> FALSE]

Base == Checkout("c1", "c1", "s1", "s1")

(* The checkout as it should be, another series on the same commit, the    *)
(* same with an edit not committed, another commit, a series that no       *)
(* longer fits exactly, one with a binary patch, patches that are not the  *)
(* lock's, and a lock without the GPU source beside a tracked binary.      *)
MCRepositories ==
  {Base, Checkout("c1", "c1", "s2", "s2"), [Base EXCEPT !.clean = FALSE],
   Checkout("c2", "c2", "s1", "s1"), Checkout("c1", "c1", "offset", "offset"),
   Checkout("c1", "c1", "binary", "binary"), Checkout("c1", "c1", "s1", "s2"),
   [Base EXCEPT !.lock.gpu = FALSE, !.binaries = TRUE]}

MCFits ==
  [f \in {"c1", "c2"} \X {"none", "s1", "s2", "offset", "binary"} |->
     CASE f[2] = "offset" -> "offset"
       [] f = <<"c2", "s2">> -> "no"
       [] OTHER -> "exact"]
=============================================================================
