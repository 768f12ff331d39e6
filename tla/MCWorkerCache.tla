---------------------------- MODULE MCWorkerCache ----------------------------
(***************************************************************************)
(* WorkerCache with both requests in one worker.                           *)
(***************************************************************************)
EXTENDS WorkerCache, TLC

CONSTANTS w1, w2, q1, q2

OneHome == [r \in Requests |-> w1]

\* Two requests of one worker behave alike.
Symmetry == Permutations(Requests)
=============================================================================
