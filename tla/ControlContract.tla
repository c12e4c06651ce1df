---------------------------- MODULE ControlContract ----------------------------
(***************************************************************************)
(* What the control plane promises the clients of its socket, whatever     *)
(* they do at once (node/daemon.py): a start boots a VM only if none is    *)
(* up; a stop is over only when the VM that was up when it was asked for   *)
(* is not up any more.  NodeControl implements it; LaunchRules builds on   *)
(* it.                                                                     *)
(***************************************************************************)
EXTENDS Naturals

CONSTANT Askers  \* whoever may ask for a stop

VARIABLES
  boots,  \* boots so far
  vm,     \* the VM that status reports as running, by its boot, or 0
  waits   \* per asker: the VM whose end its stop waits for, or 0

vars == <<boots, vm, waits>>

Init == boots = 0 /\ vm = 0 /\ waits = [p \in Askers |-> 0]

(* The VM ends by itself or is ended; no other takes its place in the same *)
(* step.                                                                   *)
MayEnd == vm' \in {vm, 0}

Start ==
  /\ vm = 0
  /\ boots' = boots + 1
  /\ vm' = boots'
  /\ UNCHANGED waits

AskStop(p) ==
  /\ waits[p] = 0
  /\ waits' = [waits EXCEPT ![p] = vm]
  /\ MayEnd
  /\ UNCHANGED boots

Stopped(p) ==
  /\ waits[p] \notin {0, vm}
  /\ waits' = [waits EXCEPT ![p] = 0]
  /\ MayEnd
  /\ UNCHANGED boots

End == MayEnd /\ UNCHANGED <<boots, waits>>

Next == Start \/ End \/ \E p \in Askers : AskStop(p) \/ Stopped(p)

Spec == Init /\ [][Next]_vars
=============================================================================
