---------------------------- MODULE MCThreadPool ----------------------------
(* Instances of ThreadPool for TLC.  Workers, tasks and queues are each    *)
(* interchangeable, and so are the pushers of the same kind.               *)
EXTENDS ThreadPool, TLC

Symmetry ==
  Permutations(Workers) \cup Permutations(Tasks) \cup Permutations(Queues)
    \cup Permutations(Timed) \cup Permutations(Pushers \ Timed)
=============================================================================
