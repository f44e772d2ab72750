----------------------------- MODULE TaskService -----------------------------
(***************************************************************************)
(* What Threads::Pool::ThreadPool promises about a task handed to          *)
(* pushTask: it is accepted or refused, never both, and an accepted task   *)
(* is run at most once.  Queues, limits, locks and wake-ups are left out.  *)
(***************************************************************************)
CONSTANT Tasks

VARIABLE fate

Fates == {"new", "accepted", "running", "finished", "refused"}

Init == fate = [x \in Tasks |-> "new"]

Move(x, from, to) == fate[x] = from /\ fate' = [fate EXCEPT ![x] = to]

Accept(x) == Move(x, "new", "accepted")
Refuse(x) == Move(x, "new", "refused")
Start(x) == Move(x, "accepted", "running")
Finish(x) == Move(x, "running", "finished")

Next == \E x \in Tasks : Accept(x) \/ Refuse(x) \/ Start(x) \/ Finish(x)

Spec == Init /\ [][Next]_fate
=============================================================================
