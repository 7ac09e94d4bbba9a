------------------------------ MODULE TaskPool ------------------------------
(* What a scheduler promises its users, without threads, fibers or queues. *)
EXTENDS Naturals, FiniteSets

CONSTANTS
  Tasks,      \* the functions that may be handed to schedule()
  Capacity    \* how many of them can run at a time

VARIABLES
  status,     \* status[c]: "new", "ready", "running" or "done"
  closed      \* stop() has returned

vars == <<status, closed>>

Running == {c \in Tasks : status[c] = "running"}

Init == status = [c \in Tasks |-> "new"] /\ closed = FALSE

Move(c, from, to) ==
  /\ ~closed
  /\ status[c] = from
  /\ status' = [status EXCEPT ![c] = to]
  /\ UNCHANGED closed

Submit(c)  == Move(c, "new", "ready")
Begin(c)   == Cardinality(Running) < Capacity /\ Move(c, "ready", "running")
Suspend(c) == Move(c, "running", "ready")
Finish(c)  == Move(c, "running", "done")

(* stop() returns only when nothing that was submitted is left.            *)
Close ==
  /\ \A c \in Tasks : status[c] \in {"new", "done"}
  /\ closed' = TRUE
  /\ UNCHANGED status

Next ==
  \/ \E c \in Tasks : Submit(c) \/ Begin(c) \/ Suspend(c) \/ Finish(c)
  \/ Close

Spec == Init /\ [][Next]_vars
=============================================================================
