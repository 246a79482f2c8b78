---------------------------- MODULE RunContracts ----------------------------
(***************************************************************************)
(* The persistent states of a simulation run and the state machine every   *)
(* writer of a run record must follow (app/services/simulation/            *)
(* contracts.py).  "none" stands for "no row": it is not one of the        *)
(* program's states.                                                       *)
(***************************************************************************)

RunStatus == {"queued", "running", "stopping",
              "complete", "partial", "failed", "cancelled"}

TerminalStatuses == {"complete", "partial", "failed", "cancelled"}

\* The statuses the API and the worker treat as "owns CARLA".
ActiveStatuses == {"running", "stopping"}

AllowedTransitions ==
  [queued    |-> {"running", "failed", "cancelled"},
   running   |-> {"stopping", "complete", "partial", "failed"},
   stopping  |-> {"complete", "partial", "failed"},
   complete  |-> {},
   partial   |-> {},
   failed    |-> {},
   cancelled |-> {}]

CanTransition(current, target) ==
  /\ current \in RunStatus
  /\ target \in RunStatus
  /\ current = target \/ target \in AllowedTransitions[current]

=============================================================================
