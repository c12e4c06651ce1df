----------------------------- MODULE TurnContract -----------------------------
(***************************************************************************)
(* What the Node promises about one guest session, whatever travels on the *)
(* hop: after a handshake the session takes one prompt at a time, answers  *)
(* it once or ends, and ends for good after at most MaxTurns prompts.  It  *)
(* may end with a prompt that it has taken and not passed on.              *)
(* NodeControl drives its prompt and response queues with these steps;     *)
(* HopSession shows that the hop protocol implements them.                 *)
(***************************************************************************)
EXTENDS Naturals

CONSTANT MaxTurns

VARIABLES
  sess,   \* "none" before the handshake, "idle", "turn", "ended"
  turns   \* prompts taken

vars == <<sess, turns>>

Init == sess = "none" /\ turns = 0

Handshake == sess = "none" /\ sess' = "idle" /\ UNCHANGED turns

TakePrompt ==
  /\ sess = "idle"
  /\ turns < MaxTurns
  /\ sess' \in {"turn", "ended"}
  /\ turns' = turns + 1

Respond ==
  /\ sess = "turn"
  /\ sess' = IF turns = MaxTurns THEN "ended" ELSE "idle"
  /\ UNCHANGED turns

End == sess # "ended" /\ sess' = "ended" /\ UNCHANGED turns

Next == Handshake \/ TakePrompt \/ Respond \/ End

Spec == Init /\ [][Next]_vars
=============================================================================
