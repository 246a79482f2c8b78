------------------------------ MODULE RunSlot ------------------------------
(***************************************************************************)
(* What the run queue promises, without its processes, rows and files:     *)
(* CARLA is one slot.  A submitted run waits, may be withdrawn while it    *)
(* waits, holds the slot at most once and alone, and ends.  "DatabaseSimu- *)
(* lationWorker: claim durable jobs and execute one CARLA run at a time."  *)
(***************************************************************************)
CONSTANT Runs

VARIABLE phase     \* [run -> how far it has come]

Phases == {"absent", "waiting", "holding", "over"}

Init == phase = [r \in Runs |-> "absent"]

Free == \A r \in Runs : phase[r] # "holding"

Move(r, from, to) ==
  /\ phase[r] = from
  /\ phase' = [phase EXCEPT ![r] = to]

Submit(r) == Move(r, "absent", "waiting")
Withdraw(r) == Move(r, "waiting", "over")
Grant(r) == Free /\ Move(r, "waiting", "holding")
Release(r) == Move(r, "holding", "over")

Next ==
  \E r \in Runs : Submit(r) \/ Withdraw(r) \/ Grant(r) \/ Release(r)

Spec == Init /\ [][Next]_phase

=============================================================================
