------------------------------ MODULE TaskPool ------------------------------
(***************************************************************************)
(* What a task pool promises, with no deques, workers or stealing: a task  *)
(* is submitted once, started once, finishes once and is joined only after *)
(* it has finished, and a task that joins children outlives them.          *)
(***************************************************************************)
CONSTANT Tasks

VARIABLES
  status,     \* the life of each task
  children    \* the tasks each task's own body joins

vars == <<status, children>>

Init ==
  /\ status = [t \in Tasks |-> "new"]
  /\ children \in [Tasks -> SUBSET Tasks]

Becomes(t, from, to) ==
  /\ status[t] = from
  /\ status' = [status EXCEPT ![t] = to]
  /\ UNCHANGED children

Submit(t) == Becomes(t, "new", "queued")

\* Backpressure: the submitter runs the task itself.
SubmitAndRun(t) == Becomes(t, "new", "running")

Start(t) == Becomes(t, "queued", "running")

Finish(t) ==
  /\ \A c \in children[t] : status[c] = "joined"
  /\ Becomes(t, "running", "done")

Join(t) == Becomes(t, "done", "joined")

Next ==
  \E t \in Tasks :
    Submit(t) \/ SubmitAndRun(t) \/ Start(t) \/ Finish(t) \/ Join(t)

Spec == Init /\ [][Next]_vars
=============================================================================
