---------------------------- MODULE RunLifecycle ----------------------------
(***************************************************************************)
(* What the Bash supervisor promises about the status of its runs: the     *)
(* state machine drawn at the head of src/bash/lifecycle.rs, together with *)
(* the promise of docs/architecture.md that runs execute one at a time.    *)
(* How permits, tasks, process groups and cancel requests bring it about   *)
(* is the business of module BashSupervisor, which implements this one.    *)
(***************************************************************************)

CONSTANT Runs   \* the identities of all runs ever started

VARIABLE status \* status[r]: "absent" before the record exists

(* RunStatus::is_terminal *)
Terminal == {"succeeded", "failed", "timed_out", "cancelled"}

Active == {"queued", "running", "cancelling"}

RunStatus == Active \union Terminal

(* RunStatus::can_become *)
CanBecome(s, t) ==
  \/ s = "queued"     /\ t \in {"running", "cancelling", "failed", "cancelled"}
  \/ s = "running"    /\ t \in {"cancelling"} \union Terminal
  \/ s = "cancelling" /\ t \in {"cancelled", "failed"}

-----------------------------------------------------------------------------

Init == status = [r \in Runs |-> "absent"]

(* A new record starts queued. *)
Create(r) ==
  /\ status[r] = "absent"
  /\ status' = [status EXCEPT ![r] = "queued"]

(* A process starts for r only when no other run is running. *)
Begin(r) ==
  /\ CanBecome(status[r], "running")
  /\ \A s \in Runs : status[s] # "running"
  /\ status' = [status EXCEPT ![r] = "running"]

RequestCancel(r) ==
  /\ CanBecome(status[r], "cancelling")
  /\ status' = [status EXCEPT ![r] = "cancelling"]

End(r) ==
  \E t \in Terminal :
    /\ CanBecome(status[r], t)
    /\ status' = [status EXCEPT ![r] = t]

Next == \E r \in Runs : Create(r) \/ Begin(r) \/ RequestCancel(r) \/ End(r)

Spec == Init /\ [][Next]_status

=============================================================================
