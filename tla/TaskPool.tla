------------------------------ MODULE TaskPool ------------------------------
(***************************************************************************)
(* What a thread pool promises its user: a task that is added is run once, *)
(* by one worker, and the release of the pool waits until every task that  *)
(* was added has been run.  Tasks are run in any order.                    *)
(***************************************************************************)
CONSTANT Tasks

VARIABLES life,     \* life[t]: "new", "added", "running" or "done"
          released, \* release_thread_poll has returned
          crashed   \* the process has died

vars == <<life, released, crashed>>

Init == /\ life = [t \in Tasks |-> "new"]
        /\ released = FALSE
        /\ crashed = FALSE

Becomes(t, from, to) == /\ ~crashed
                        /\ life[t] = from
                        /\ life' = [life EXCEPT ![t] = to]
                        /\ UNCHANGED <<released, crashed>>

Add(t) == ~released /\ Becomes(t, "new", "added")

Start(t) == ~released /\ Becomes(t, "added", "running")

Finish(t) == ~released /\ Becomes(t, "running", "done")

Release == /\ ~crashed
           /\ \A t \in Tasks : life[t] \in {"new", "done"}
           /\ released' = TRUE
           /\ UNCHANGED <<life, crashed>>

Crash == /\ ~crashed
         /\ crashed' = TRUE
         /\ UNCHANGED <<life, released>>

Next == (\E t \in Tasks : Add(t) \/ Start(t) \/ Finish(t)) \/ Release \/ Crash

Spec == Init /\ [][Next]_vars
=============================================================================
