---------------------------- MODULE LaunchContract ----------------------------
(***************************************************************************)
(* What the control plane may rely on of the task that runs a VM, whatever *)
(* becomes of the jailer, the VM and the guest: it ends with the first     *)
(* result that comes in, or with the cancellation that came before it was  *)
(* taken, and it cleans up before it is done.  NodeControl drives its boots *)
(* with these steps; Launcher shows that launch_turn implements them.      *)
(***************************************************************************)

VARIABLES
  launch,   \* "up", "reaping" or "done"
  outcome   \* how the guest, then the task, ended

Results == {"ok", "boot", "other"}

Init == launch = "up" /\ outcome = "pending"

(* A first result comes in while the task awaits it.                       *)
Resolve ==
  /\ launch = "up" /\ outcome = "pending"
  /\ outcome' \in Results
  /\ UNCHANGED launch

(* The task takes the result, or raises before there is one.               *)
Reap ==
  /\ launch = "up" /\ launch' = "reaping"
  /\ IF outcome = "pending" THEN outcome' \in Results ELSE UNCHANGED outcome

Reaped == launch = "reaping" /\ launch' = "done" /\ UNCHANGED outcome

(* Nothing was begun that would have to be cleaned up.                     *)
Refused == launch = "up" /\ outcome = "pending" /\ launch' = "done" /\ outcome' \in Results

(* Cancelled, the task cleans up; cancelled again or not, an exception in  *)
(* the clean-up ends it and takes the place of its outcome.                *)
Cancelled == launch = "up" /\ launch' = "reaping" /\ outcome' = "cancelled"
CutShort == launch = "reaping" /\ launch' = "done" /\ outcome' \in {"cancelled", "other"}

Next == Resolve \/ Reap \/ Reaped \/ Refused \/ Cancelled \/ CutShort

Spec == Init /\ [][Next]_<<launch, outcome>>
=============================================================================
