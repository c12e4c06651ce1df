-------------------------- MODULE NodeControlProofs --------------------------
(***************************************************************************)
(* Proofs about NodeControl, for any set of connections, any bounds and    *)
(* any client habits: its types, what every waiting coroutine waits for,   *)
(* that it implements ControlContract, and that each of its boots follows  *)
(* LaunchContract.                                                         *)
(***************************************************************************)
EXTENDS NodeControl, TLAPS

-----------------------------------------------------------------------------
(* Type correctness.  TypeOK is cut into parts that an action touches one  *)
(* or two of at a time; the Boolean part is left to Zenon.                 *)
TypeFlags ==
  /\ attached \in BOOLEAN
  /\ shutdown \in BOOLEAN
  /\ ready \in [Gens -> 0..MaxBoots]
  /\ stop \in [Gens -> BOOLEAN]

TypeQueues ==
  /\ prompts \in [Gens -> Seq(Conns \cup {None})]
  /\ responses \in [Gens -> Seq(Conns \cup {None})]
  /\ waiters \in [Gens -> Seq(Conns)]

TypeGuest ==
  /\ launch \in [Gens -> {"none", "up", "reaping", "done"}]
  /\ outcome \in [Gens -> {"pending", "ok", "boot", "other", "cancelled"}]
  /\ sess \in [Gens -> {"none", "idle", "turn", "ended"}]
  /\ query \in [Gens -> Conns \cup {None}]
  /\ turns \in [Gens -> 0..MaxTurns]

Places == Working \cup {"new", "read", "chat", "await", "closed", "serve", "closing", "exit"}

TypeProcs ==
  /\ boots \in 0..MaxBoots
  /\ cur \in 0..boots
  /\ pc \in [Procs -> Places]
  /\ job \in [Procs -> 0..MaxBoots]

(* What makes the bound on turns inductive: a session that can still take  *)
(* a prompt is below the cap.                                              *)
TurnsLeft == \A g \in Gens : sess[g] \in {"none", "idle"} => turns[g] < MaxTurns

TypeInv == TypeFlags /\ TypeQueues /\ TypeGuest /\ TypeProcs /\ TurnsLeft

LEMMA TypeParts == TypeOK <=> TypeFlags /\ TypeQueues /\ TypeGuest /\ TypeProcs
  BY Zenon DEF TypeOK, TypeFlags, TypeQueues, TypeGuest, TypeProcs, Places

LEMMA TypeInit == Init => TypeInv
<1> SUFFICES ASSUME Init PROVE TypeInv
  OBVIOUS
<1>1. TypeFlags
  <2>1. 0 \in 0..MaxBoots
    BY BoundsAssumption, SMT
  <2> QED
    BY <2>1, Zenon DEF Init, TypeFlags
<1>2. TypeQueues /\ TypeGuest /\ TypeProcs /\ TurnsLeft
  BY BoundsAssumption, SMT
     DEF Init, TypeQueues, TypeGuest, TypeProcs, TurnsLeft, Places, Gens, Procs
<1> QED
  BY <1>1, <1>2 DEF TypeInv

(* Where the state points to a boot, it is one of Gens.                    *)
LEMMA GensFacts ==
  ASSUME TypeProcs
  PROVE  /\ cur # 0 => cur \in Gens
         /\ boots < MaxBoots => boots + 1 \in Gens
         /\ boots \in Nat /\ cur \in 0..MaxBoots
         /\ 0 \in 0..MaxBoots /\ Gens \subseteq 0..MaxBoots
  BY BoundsAssumption, SMT DEF TypeProcs, Gens

LEMMA PlacesFacts ==
  /\ Working \cup {"read", "chat", "await", "closed", "closing", "exit"} \subseteq Places
  /\ Stopping \cup {"boot", "stop", "stop_shutdown", "stop_boot", "stop_chat", "stop_main"}
       \subseteq Working
  /\ \A at \in Stopping : AfterStop(at) \in Places
  BY SMT DEF Places, Working, Stopping, AfterStop

LEMMA FlagsNext == TypeInv /\ [Next]_vars => TypeFlags'
<1> SUFFICES ASSUME TypeFlags, TypeProcs, [Next]_vars PROVE TypeFlags'
  BY DEF TypeInv
<1> USE Zenon DEF TypeFlags, stateVars, queueVars, guestVars
<1>1. ASSUME NEW c \in Conns, Connect(c) \/ Disconnect(c) PROVE TypeFlags'
  BY <1>1 DEF Connect, Disconnect
<1>2. ASSUME NEW c \in Conns, Start(c) PROVE TypeFlags'
  BY <1>2 DEF Start
<1>3. ASSUME NEW p, NEW w, NEW n, StopVm(p, w, n), shutdown' \in BOOLEAN, UNCHANGED ready
      PROVE TypeFlags'
  BY <1>3 DEF StopVm, RequestStop
<1>4. ASSUME NEW c \in Conns, Stop(c) \/ ChatStop(c) \/ Shutdown(c) PROVE TypeFlags'
  BY <1>3, <1>4 DEF Stop, ChatStop, Shutdown
<1>5. ASSUME NEW c \in Conns, Boot(c) PROVE TypeFlags'
  <2>1. CASE StartOk(c)
    BY <2>1 DEF StartOk
  <2>2. CASE BootFailed(c)
    BY <2>2, <1>3 DEF BootFailed, HandlerDies
  <2>3. CASE BootTimeout(c)
    BY <2>3, <1>3 DEF BootTimeout, HandlerDies
  <2> QED
    BY <1>5, <2>1, <2>2, <2>3 DEF Boot
<1>6. ASSUME NEW c \in Conns, Chat(c) PROVE TypeFlags'
  BY <1>6 DEF Chat, ChatAttach, ChatRefused, User, UserLost, Receive
<1>7. ASSUME NEW p \in Procs, StopResume(p) PROVE TypeFlags'
  BY <1>7 DEF StopResume
<1>8. ASSUME NEW g \in Gens, Deliver(g) PROVE TypeFlags'
  BY <1>8 DEF Deliver, Receive
<1>9. ASSUME NEW g \in Gens, Session(g) PROVE TypeFlags'
  BY <1>9, GensFacts DEF Session, Handshake, TakePrompt, Respond, Abandon, AwaitPrompt
<1>10. ASSUME NEW g \in Gens, Launch(g) PROVE TypeFlags'
  BY <1>10 DEF Launch, VmDies, Reap, Reaped
<1>11. CASE Signal
  BY <1>11 DEF Signal
<1>12. CASE MainStop
  BY <1>3, <1>12 DEF MainStop
<1>13. CASE MainExit
  BY <1>13 DEF MainExit
<1>14. CASE UNCHANGED vars
  BY <1>14 DEF vars
<1> HIDE DEF TypeFlags
<1> QED
  BY <1>1, <1>2, <1>4, <1>5, <1>6, <1>7, <1>8, <1>9, <1>10, <1>11, <1>12, <1>13, <1>14
     DEF Next, Command

(* Appending to one queue, and taking its head, stay within the type.      *)
LEMMA QueuePut ==
  ASSUME NEW S, NEW D, NEW q \in [D -> Seq(S)], NEW g \in D, NEW v \in S
  PROVE  [q EXCEPT ![g] = Append(@, v)] \in [D -> Seq(S)]
  BY SMT

LEMMA QueueGet ==
  ASSUME NEW S, NEW D, NEW q \in [D -> Seq(S)], NEW g \in D, q[g] # <<>>
  PROVE  [q EXCEPT ![g] = Tail(@)] \in [D -> Seq(S)] /\ Head(q[g]) \in S
  BY SMT

LEMMA QueuesNext == TypeInv /\ [Next]_vars => TypeQueues'
<1> SUFFICES ASSUME TypeQueues, TypeGuest, TypeProcs, [Next]_vars PROVE TypeQueues'
  BY DEF TypeInv
<1>g. cur # 0 => cur \in Gens
  BY GensFacts
<1> USE DEF TypeQueues, queueVars
<1>1. ASSUME NEW p, NEW w, NEW n, StopVm(p, w, n), UNCHANGED waiters PROVE TypeQueues'
  <2>1. ASSUME RequestStop(cur), cur # 0 PROVE TypeQueues'
    <3>1. prompts' \in [Gens -> Seq(Conns \cup {None})]
      BY <2>1, <1>g, QueuePut DEF RequestStop
    <3>2. responses' \in [Gens -> Seq(Conns \cup {None})]
      BY <2>1, <1>g, QueuePut DEF RequestStop
    <3> QED
      BY <1>1, <3>1, <3>2
  <2> QED
    BY <1>1, <2>1, Zenon DEF StopVm
<1>2. ASSUME NEW c \in Conns, Connect(c) \/ Disconnect(c) \/ Start(c) PROVE TypeQueues'
  BY <1>2 DEF Connect, Disconnect, Start
<1>3. ASSUME NEW c \in Conns, Stop(c) \/ ChatStop(c) \/ Shutdown(c) PROVE TypeQueues'
  BY <1>1, <1>3 DEF Stop, ChatStop, Shutdown
<1>4. ASSUME NEW c \in Conns, Boot(c) PROVE TypeQueues'
  BY <1>1, <1>4 DEF Boot, StartOk, BootFailed, BootTimeout, HandlerDies
<1>5. ASSUME NEW c \in Conns, Chat(c) PROVE TypeQueues'
  <2>1. CASE User(c)
    <3>1. prompts' \in [Gens -> Seq(Conns \cup {None})]
      BY <2>1, <1>g, QueuePut DEF User
    <3>2. CASE UNCHANGED responses /\ waiters' = [waiters EXCEPT ![cur] = Append(@, c)]
      BY <2>1, <3>1, <3>2, <1>g, QueuePut, Zenon DEF User
    <3>3. CASE /\ UNCHANGED waiters /\ responses[cur] # <<>>
               /\ responses' = [responses EXCEPT ![cur] = Tail(@)]
      BY <2>1, <3>1, <3>3, <1>g, QueueGet, Zenon DEF User
    <3> QED
      BY <2>1, <3>2, <3>3 DEF User
  <2> QED
    BY <1>5, <2>1 DEF Chat, ChatAttach, ChatRefused, UserLost
<1>6. ASSUME NEW p \in Procs, StopResume(p) PROVE TypeQueues'
  BY <1>6 DEF StopResume
<1>7. ASSUME NEW g \in Gens, Deliver(g) PROVE TypeQueues'
  BY <1>7, QueuePut, QueueGet, Zenon DEF Deliver, Deliverable
<1>8. ASSUME NEW g \in Gens, Session(g) PROVE TypeQueues'
  <2>1. CASE TakePrompt(g)
    BY <2>1, QueueGet, Zenon DEF TakePrompt
  <2>2. CASE Respond(g)
    BY <2>2, QueuePut, Zenon DEF Respond, PutResponse, TypeGuest
  <2> QED
    BY <1>8, <2>1, <2>2 DEF Session, Handshake, Abandon
<1>9. ASSUME NEW g \in Gens, Launch(g) PROVE TypeQueues'
  <2>1. CASE Reap(g)
    BY <2>1, QueuePut, Zenon DEF Reap
  <2> QED
    BY <1>9, <2>1 DEF Launch, VmDies, Reaped
<1>10. CASE Signal \/ MainStop \/ MainExit
  BY <1>1, <1>10 DEF Signal, MainStop, MainExit
<1>11. CASE UNCHANGED vars
  BY <1>11 DEF vars
<1> HIDE DEF TypeQueues
<1> QED
  BY <1>1, <1>2, <1>3, <1>4, <1>5, <1>6, <1>7, <1>8, <1>9, <1>10, <1>11
     DEF Next, Command

LEMMA GuestNext == TypeInv /\ [Next]_vars => TypeGuest' /\ TurnsLeft'
<1> DEFINE Goal == TypeGuest' /\ TurnsLeft'
<1> SUFFICES ASSUME TypeQueues, TypeGuest, TypeProcs, TurnsLeft, [Next]_vars PROVE Goal
  BY DEF TypeInv
<1> USE GensFacts DEF TypeGuest, TurnsLeft, guestVars
<1>1. ASSUME UNCHANGED <<launch, outcome, guestVars>> PROVE Goal
  BY <1>1
<1>2. ASSUME NEW c \in Conns, Start(c) PROVE Goal
  BY <1>2, SMT DEF Start
<1>3. ASSUME NEW c \in Conns,
             Connect(c) \/ Disconnect(c) \/ Stop(c) \/ ChatStop(c) \/ Shutdown(c) \/ Chat(c)
      PROVE Goal
  BY <1>1, <1>3 DEF Connect, Disconnect, Stop, ChatStop, Shutdown, Chat, ChatAttach,
                    ChatRefused, User, UserLost
<1>4. ASSUME NEW c \in Conns, Boot(c) PROVE Goal
  BY <1>4, SMT DEF Boot, StartOk, BootFailed, BootTimeout, Cancel
<1>5. ASSUME NEW p \in Procs, StopResume(p) PROVE Goal
  BY <1>1, <1>5 DEF StopResume
<1>6. ASSUME NEW g \in Gens, Deliver(g) PROVE Goal
  BY <1>1, <1>6 DEF Deliver
<1>7. ASSUME NEW g \in Gens, Session(g) PROVE Goal
  <2>1. CASE Handshake(g)
    BY <2>1, SMT DEF Handshake, AwaitPrompt
  <2>2. CASE TakePrompt(g)
    <3>1. turns[g] + 1 \in 0..MaxTurns
      BY <2>2, BoundsAssumption, SMT DEF TakePrompt
    <3>2. Head(prompts[g]) \in Conns \cup {None}
      BY <2>2, SMT DEF TakePrompt, TypeQueues
    <3>3. launch' = launch /\ outcome' \in [Gens -> {"pending", "ok", "boot", "other", "cancelled"}]
      BY <2>2, Zenon DEF TakePrompt, Resolve
    <3>4. /\ sess' \in [Gens -> {"none", "idle", "turn", "ended"}]
          /\ query' \in [Gens -> Conns \cup {None}]
      <4>1. \E v \in {"turn", "ended"} : sess' = [sess EXCEPT ![g] = v]
        BY <2>2, Zenon DEF TakePrompt
      <4>2. query' = query \/ query' = [query EXCEPT ![g] = Head(prompts[g])]
        BY <2>2, Zenon DEF TakePrompt
      <4> QED
        BY <3>2, <4>1, <4>2, SMT
    <3>5. turns' \in [Gens -> 0..MaxTurns]
      BY <2>2, <3>1, Zenon DEF TakePrompt
    <3>6. TurnsLeft'
      <4>1. sess'[g] \in {"turn", "ended"}
        BY <2>2, Zenon DEF TakePrompt
      <4>2. \A h \in Gens \ {g} : sess'[h] = sess[h] /\ turns'[h] = turns[h]
        BY <2>2, Zenon DEF TakePrompt
      <4> QED
        BY <4>1, <4>2, SMT
    <3> QED
      BY <3>3, <3>4, <3>5, <3>6
  <2>3. CASE Respond(g)
    <3>1. launch' = launch /\ outcome' \in [Gens -> {"pending", "ok", "boot", "other", "cancelled"}]
      BY <2>3, Zenon DEF Respond, Resolve
    <3>2. turns' = turns /\ query' \in [Gens -> Conns \cup {None}]
      BY <2>3, SMT DEF Respond
    <3>3. sess' \in [Gens -> {"none", "idle", "turn", "ended"}]
      BY <2>3, Zenon DEF Respond, AwaitPrompt
    <3>4. LastTurn(g) \/ turns[g] < MaxTurns
      BY BoundsAssumption, SMT DEF LastTurn
    <3>5. TurnsLeft'
      BY <2>3, <3>2, <3>4, SMT DEF Respond, AwaitPrompt
    <3> QED
      BY <3>1, <3>2, <3>3, <3>5
  <2>4. CASE Abandon(g)
    BY <2>4, SMT DEF Abandon, Resolve
  <2> QED
    BY <1>7, <2>1, <2>2, <2>3, <2>4 DEF Session
<1>8. ASSUME NEW g \in Gens, Launch(g) PROVE Goal
  <2>1. CASE VmDies(g)
    BY <2>1, SMT DEF VmDies, Resolve
  <2>2. CASE Reap(g)
    BY <2>2, SMT DEF Reap
  <2>3. CASE Reaped(g)
    BY <2>3, SMT DEF Reaped
  <2> QED
    BY <1>8, <2>1, <2>2, <2>3 DEF Launch
<1>9. CASE Signal \/ MainStop
  BY <1>1, <1>9 DEF Signal, MainStop
<1>10. CASE MainExit
  BY <1>10, SMT DEF MainExit
<1>11. CASE UNCHANGED vars
  BY <1>1, <1>11 DEF vars
<1> HIDE DEF Goal
<1> QED
  BY <1>1, <1>2, <1>3, <1>4, <1>5, <1>6, <1>7, <1>8, <1>9, <1>10, <1>11
     DEF Next, Command

LEMMA ProcsNext == TypeInv /\ [Next]_vars => TypeProcs'
<1> SUFFICES ASSUME TypeProcs, TypeQueues, [Next]_vars PROVE TypeProcs'
  BY DEF TypeInv
<1> USE GensFacts, PlacesFacts DEF TypeProcs, Procs, stateVars
<1>1. ASSUME NEW p \in Procs, NEW w \in Places, NEW n \in Places, StopVm(p, w, n),
             UNCHANGED boots
      PROVE TypeProcs'
  BY <1>1, SMT DEF StopVm
<1>2. ASSUME NEW c \in Conns, Connect(c) \/ Disconnect(c) \/ Start(c) PROVE TypeProcs'
  BY <1>2, SMT DEF Connect, Disconnect, Start
<1>3. ASSUME NEW c \in Conns, Stop(c) \/ ChatStop(c) \/ Shutdown(c) PROVE TypeProcs'
  BY <1>1, <1>3, SMT DEF Stop, ChatStop, Shutdown
<1>4. ASSUME NEW c \in Conns, Boot(c) PROVE TypeProcs'
  <2>1. ASSUME HandlerDies(c), UNCHANGED boots PROVE TypeProcs'
    BY <2>1, SMT DEF HandlerDies
  <2>2. CASE StartOk(c)
    BY <2>2, SMT DEF StartOk
  <2>3. CASE BootFailed(c)
    BY <1>1, <2>1, <2>3 DEF BootFailed
  <2>4. CASE BootTimeout(c)
    BY <1>1, <2>1, <2>4 DEF BootTimeout
  <2> QED
    BY <1>4, <2>2, <2>3, <2>4 DEF Boot
<1>5. ASSUME NEW c \in Conns, Chat(c) PROVE TypeProcs'
  BY <1>5, SMT DEF Chat, ChatAttach, ChatRefused, User, UserLost, Receive
<1>6. ASSUME NEW p \in Procs, StopResume(p) PROVE TypeProcs'
  BY <1>6, SMT DEF StopResume
<1>7. ASSUME NEW g \in Gens, Deliver(g) PROVE TypeProcs'
  BY <1>7, SMT DEF Deliver, Deliverable, Receive, TypeQueues
<1>8. ASSUME NEW g \in Gens, Session(g) PROVE TypeProcs'
  BY <1>8 DEF Session, Handshake, TakePrompt, Respond, Abandon
<1>9. ASSUME NEW g \in Gens, Launch(g) PROVE TypeProcs'
  BY <1>9 DEF Launch, VmDies, Reap, Reaped
<1>10. CASE Signal \/ MainStop \/ MainExit
  <2>1. ASSUME MainStop PROVE TypeProcs'
    BY <1>1, <2>1 DEF MainStop
  <2>2. ASSUME Signal \/ MainExit PROVE TypeProcs'
    BY <2>2, SMT DEF Signal, MainExit
  <2> QED
    BY <1>10, <2>1, <2>2
<1>11. CASE UNCHANGED vars
  BY <1>11 DEF vars
<1> HIDE DEF TypeProcs
<1> QED
  BY <1>1, <1>2, <1>3, <1>4, <1>5, <1>6, <1>7, <1>8, <1>9, <1>10, <1>11
     DEF Next, Command

LEMMA TypeNext == TypeInv /\ [Next]_vars => TypeInv'
  BY FlagsNext, QueuesNext, GuestNext, ProcsNext DEF TypeInv

(* Every variable keeps its type, whatever the clients do; in particular a *)
(* session takes at most MaxTurns prompts.                                 *)
THEOREM TypeCorrect == Spec => []TypeOK
<1>1. Init => TypeInv
  BY TypeInit
<1>2. TypeInv /\ [Next]_vars => TypeInv'
  BY TypeNext
<1>3. TypeInv => TypeOK
  BY TypeParts DEF TypeInv
<1> QED
  BY <1>1, <1>2, <1>3, PTL DEF Spec

-----------------------------------------------------------------------------
(* Who waits for what, which holds whatever the clients do.                *)

(* Who stands in the queue of a boot waits, for a response of that boot,   *)
(* and stands there once: so a delivery never moves a coroutine that is    *)
(* suspended in _stop_vm.                                                  *)
WaitersWait ==
  \A g \in Gens : \A i \in 1..Len(waiters[g]) :
    /\ pc[waiters[g][i]] = "await" /\ job[waiters[g][i]] = g
    /\ \A j \in 1..Len(waiters[g]) : waiters[g][i] = waiters[g][j] => i = j

(* A stop in progress awaits the task of a boot.                           *)
StopsSomething == \A p \in Procs : pc[p] \in Stopping => job[p] # 0

WaitInv == WaitersWait /\ StopsSomething

LEMMA StoppingFacts ==
  /\ \A at \in Stopping : AfterStop(at) \notin Stopping \cup {"await"}
  /\ Stopping \cap {"new", "read", "chat", "await", "closed", "serve", "closing", "exit",
                    "boot"} = {}
  /\ Conns \subseteq Procs /\ Main \in Procs
  BY SMT DEF Stopping, AfterStop, Procs

LEMMA WaitInit == Init => WaitInv
<1> SUFFICES ASSUME Init PROVE WaitInv
  OBVIOUS
<1>1. WaitersWait
  BY SMT DEF Init, WaitersWait
<1>2. StopsSomething
  BY SMT DEF Init, StopsSomething, Stopping
<1> QED
  BY <1>1, <1>2 DEF WaitInv

(* What a step that leaves the queues of waiters alone must do to keep     *)
(* both: the coroutine p that moves was not waiting, and awaits a boot if  *)
(* it stops one now.                                                       *)
Moves(p, v) == pc' = [pc EXCEPT ![p] = v]

LEMMA WaitKept ==
  ASSUME TypeProcs, TypeQueues, WaitInv, UNCHANGED waiters,
         \/ UNCHANGED <<pc, job>>
         \/ \E p \in Procs, v \in Places, b \in 0..MaxBoots :
              /\ pc[p] # "await" /\ Moves(p, v)
              /\ job' \in {job, [job EXCEPT ![p] = b]}
              /\ v \in Stopping => job' = [job EXCEPT ![p] = b] /\ b # 0
  PROVE  WaitInv'
<1>1. CASE UNCHANGED <<pc, job>>
  BY <1>1 DEF WaitInv, WaitersWait, StopsSomething
<1>2. ASSUME NEW p \in Procs, NEW v \in Places, NEW b \in 0..MaxBoots,
             pc[p] # "await", Moves(p, v), job' \in {job, [job EXCEPT ![p] = b]},
             v \in Stopping => job' = [job EXCEPT ![p] = b] /\ b # 0
      PROVE  WaitInv'
  <2>1. \A q \in Procs \ {p} : pc'[q] = pc[q] /\ job'[q] = job[q]
    BY <1>2, Zenon DEF Moves, TypeProcs
  <2>2. pc'[p] = v
    BY <1>2, Zenon DEF Moves, TypeProcs
  <2>3. StopsSomething'
    BY <1>2, <2>1, <2>2, Zenon DEF TypeProcs, WaitInv, StopsSomething
  <2>4. \A q \in Procs : pc[q] = "await" => pc'[q] = "await" /\ (job'[q] = job[q])
    BY <1>2, <2>1, Zenon
  <2>5. \A g \in Gens : \A i \in 1..Len(waiters[g]) : waiters[g][i] \in Procs
    BY SMT DEF TypeQueues, Procs
  <2>6. WaitersWait'
    BY <2>4, <2>5 DEF WaitInv, WaitersWait
  <2> QED
    BY <2>3, <2>6 DEF WaitInv
<1> QED
  BY <1>1, <1>2

LEMMA WaitNext == TypeInv /\ WaitInv /\ [Next]_vars => WaitInv'
<1> SUFFICES ASSUME TypeQueues, TypeProcs, WaitInv, [Next]_vars PROVE WaitInv'
  BY DEF TypeInv
<1> USE DEF stateVars, queueVars
<1>g. cur \in 0..MaxBoots /\ 0 \in 0..MaxBoots /\ (cur # 0 => cur \in Gens)
  BY GensFacts
<1>q. ASSUME UNCHANGED <<pc, job, waiters>> PROVE WaitInv'
  BY <1>q, WaitKept
<1>m. ASSUME NEW p \in Procs, NEW v \in Places \ Stopping, NEW b \in 0..MaxBoots,
             pc[p] # "await", Moves(p, v), UNCHANGED waiters,
             job' = job \/ job' = [job EXCEPT ![p] = b]
      PROVE  WaitInv'
  BY <1>m, WaitKept
<1>1. ASSUME NEW p \in Procs, NEW w \in Stopping, NEW n \in Places \ Stopping,
             StopVm(p, w, n), UNCHANGED waiters, pc[p] # "await"
      PROVE  WaitInv'
  <2>1. CASE ~VmUp
    BY <1>1, <1>m, <1>g, <2>1, Zenon DEF StopVm, VmUp, Moves
  <2>2. CASE VmUp
    <3>1. w \in Places
      BY PlacesFacts, SMT DEF Stopping
    <3>2. Moves(p, w) /\ job' = [job EXCEPT ![p] = cur] /\ cur # 0
      BY <1>1, <2>2, Zenon DEF StopVm, VmUp, Moves
    <3> QED
      BY <1>1, <1>g, <3>1, <3>2, WaitKept
  <2> QED
    BY <2>1, <2>2
<1>p. /\ {"new", "read", "chat", "await", "closed", "serve", "closing", "exit", "boot"}
           \subseteq Places \ Stopping
      /\ {"stop", "stop_shutdown", "stop_boot", "stop_chat", "stop_main"} \subseteq Stopping
      /\ \A at \in Stopping : AfterStop(at) \in Places \ Stopping
      /\ \A at \in Stopping : at # "await"
  BY SMT DEF Places, Working, Stopping, AfterStop
<1>2. ASSUME NEW c \in Conns, Connect(c) \/ Disconnect(c) \/ Start(c) PROVE WaitInv'
  <2>1. boots + 1 \in 0..MaxBoots \/ ~Start(c)
    BY GensFacts, SMT DEF Start
  <2> QED
    BY <1>2, <1>m, <1>p, <1>g, <2>1, StoppingFacts, Zenon DEF Connect, Disconnect, Start, Moves
<1>3. ASSUME NEW c \in Conns, Stop(c) \/ ChatStop(c) \/ Shutdown(c) PROVE WaitInv'
  BY <1>3, <1>1, <1>p, StoppingFacts, Zenon DEF Stop, ChatStop, Shutdown
<1>4. ASSUME NEW c \in Conns, Boot(c) PROVE WaitInv'
  <2>1. ASSUME HandlerDies(c) \/ StartOk(c), pc[c] = "boot", UNCHANGED waiters PROVE WaitInv'
    BY <2>1, <1>m, <1>p, <1>g, StoppingFacts, Zenon DEF HandlerDies, StartOk, Moves
  <2> QED
    BY <1>4, <1>1, <1>p, <2>1, StoppingFacts, Zenon DEF Boot, StartOk, BootFailed, BootTimeout
<1>5. ASSUME NEW p \in Procs, StopResume(p) PROVE WaitInv'
  BY <1>5, <1>m, <1>p, <1>g, Zenon DEF StopResume, Moves
<1>6. ASSUME NEW c \in Conns, Chat(c) PROVE WaitInv'
  <2>1. CASE ChatAttach(c) \/ ChatRefused(c) \/ UserLost(c)
    BY <2>1, <1>m, <1>p, <1>g, StoppingFacts, Zenon DEF ChatAttach, ChatRefused, UserLost, Moves
  <2>2. CASE User(c) /\ UNCHANGED waiters
    BY <2>2, <1>m, <1>p, <1>g, StoppingFacts, Zenon DEF User, Receive, Moves
  <2>3. CASE User(c) /\ waiters' = [waiters EXCEPT ![cur] = Append(@, c)]
    <3>1. /\ pc[c] = "chat" /\ cur \in Gens /\ c \in Procs
          /\ pc' = [pc EXCEPT ![c] = "await"] /\ job' = [job EXCEPT ![c] = cur]
      BY <2>3, <1>g, StoppingFacts, SMT DEF User, TypeQueues
    <3>2. \A g \in Gens : \A i \in 1..Len(waiters[g]) : waiters[g][i] \in Procs \ {c}
      BY <3>1, SMT DEF WaitInv, WaitersWait, TypeQueues, Procs
    <3>3. /\ pc'[c] = "await" /\ job'[c] = cur
          /\ \A q \in Procs \ {c} : pc'[q] = pc[q] /\ job'[q] = job[q]
      BY <3>1, Zenon DEF TypeProcs
    <3>4. WaitersWait'
      BY <2>3, <3>1, <3>2, <3>3, SMT DEF WaitInv, WaitersWait, TypeQueues
    <3>5. StopsSomething'
      BY <3>3, <1>p, StoppingFacts, Zenon DEF WaitInv, StopsSomething
    <3> QED
      BY <3>4, <3>5 DEF WaitInv
  <2> QED
    BY <1>6, <2>1, <2>2, <2>3, Zenon DEF Chat, User
<1>7. ASSUME NEW g \in Gens, Deliver(g) PROVE WaitInv'
  <2> DEFINE d == Head(waiters[g])
  <2>1. /\ waiters[g] # <<>> /\ waiters' = [waiters EXCEPT ![g] = Tail(@)]
        /\ d \in Conns /\ d \in Procs /\ d = waiters[g][1] /\ 1 \in 1..Len(waiters[g])
    BY <1>7, SMT DEF Deliver, Deliverable, TypeQueues, Procs
  <2>2. pc[d] = "await" /\ job[d] = g
    BY <2>1, SMT DEF WaitInv, WaitersWait
  <2>3. /\ pc'[d] \in {"closed", "chat"}
        /\ \A q \in Procs \ {d} : pc'[q] = pc[q] /\ job'[q] = job[q]
    BY <1>7, <2>1, Zenon DEF Deliver, Receive, TypeProcs
  <2> HIDE DEF d
  <2>4. \A h \in Gens : \A i \in 1..Len(waiters'[h]) :
           \E j \in 1..Len(waiters[h]) :
             waiters'[h][i] = waiters[h][j] /\ j = (IF h = g THEN i + 1 ELSE i)
    BY <2>1, SMT DEF TypeQueues
  <2>5. \A h \in Gens : \A i \in 1..Len(waiters'[h]) : waiters'[h][i] \in Procs \ {d}
    <3> SUFFICES ASSUME NEW h \in Gens, NEW i \in 1..Len(waiters'[h])
                 PROVE  waiters'[h][i] \in Procs \ {d}
      OBVIOUS
    <3>1. PICK j \in 1..Len(waiters[h]) :
            waiters'[h][i] = waiters[h][j] /\ j = (IF h = g THEN i + 1 ELSE i)
      BY <2>4
    <3>2. waiters[h][j] \in Procs
      BY SMT DEF TypeQueues, Procs
    <3>3. CASE h = g
      BY <2>1, <3>1, <3>2, <3>3, SMT DEF WaitInv, WaitersWait
    <3>4. CASE h # g
      BY <2>2, <3>1, <3>2, <3>4, SMT DEF WaitInv, WaitersWait
    <3> QED
      BY <3>3, <3>4
  <2>6. WaitersWait'
    <3> SUFFICES ASSUME NEW h \in Gens, NEW i \in 1..Len(waiters'[h])
                 PROVE  /\ pc'[waiters'[h][i]] = "await" /\ job'[waiters'[h][i]] = h
                        /\ \A k \in 1..Len(waiters'[h]) : waiters'[h][i] = waiters'[h][k] => i = k
      BY DEF WaitersWait
    <3>1. pc'[waiters'[h][i]] = "await" /\ job'[waiters'[h][i]] = h
      <4>1. PICK j \in 1..Len(waiters[h]) : waiters'[h][i] = waiters[h][j]
        BY <2>4
      <4>2. pc[waiters[h][j]] = "await" /\ job[waiters[h][j]] = h
        BY DEF WaitInv, WaitersWait
      <4> QED
        BY <2>3, <2>5, <4>1, <4>2, Zenon
    <3>2. ASSUME NEW k \in 1..Len(waiters'[h]), waiters'[h][i] = waiters'[h][k] PROVE i = k
      BY <2>4, <3>2, SMT DEF WaitInv, WaitersWait
    <3> QED
      BY <3>1, <3>2
  <2>7. StopsSomething'
    BY <2>3, <1>p, StoppingFacts, Zenon DEF WaitInv, StopsSomething
  <2> QED
    BY <2>6, <2>7 DEF WaitInv
<1>8. ASSUME NEW g \in Gens, Session(g) \/ Launch(g) PROVE WaitInv'
  BY <1>8, <1>q DEF Session, Handshake, TakePrompt, Respond, Abandon, Launch, VmDies, Reap, Reaped
<1>9. CASE Signal \/ UNCHANGED vars
  BY <1>9, <1>q DEF Signal, vars
<1>10. CASE MainStop
  BY <1>10, <1>1, <1>p, StoppingFacts, Zenon DEF MainStop
<1>11. CASE MainExit
  BY <1>11, <1>m, <1>p, <1>g, StoppingFacts, Zenon DEF MainExit, Moves
<1> QED
  BY <1>2, <1>3, <1>4, <1>5, <1>6, <1>7, <1>8, <1>9, <1>10, <1>11 DEF Next, Command

-----------------------------------------------------------------------------
(* The refinement mapping of Contract, by name.                            *)
UpVm == IF VmUp THEN cur ELSE 0
WaitsFor == [p \in Procs |-> IF pc[p] \in Stopping THEN job[p] ELSE 0]

LEMMA WaitsUpdate ==
  ASSUME NEW p \in Procs, NEW b,
         \A q \in Procs : (IF pc'[q] \in Stopping THEN job'[q] ELSE 0)
                           = (IF q = p THEN b ELSE WaitsFor[q])
  PROVE  WaitsFor' = [WaitsFor EXCEPT ![p] = b]
<1>1. WaitsFor' = [q \in Procs |-> IF q = p THEN b ELSE WaitsFor[q]]
  BY Zenon DEF WaitsFor
<1>2. WaitsFor = [q \in Procs |-> WaitsFor[q]]
  BY Zenon DEF WaitsFor
<1>3. [WaitsFor EXCEPT ![p] = b] = [q \in Procs |-> IF q = p THEN b ELSE WaitsFor[q]]
  BY <1>2, Zenon
<1> QED
  BY <1>1, <1>3

(* The four kinds of abstract step.  In each the VM that is up stays up or *)
(* is over.                                                                *)
LEMMA EndStep ==
  ASSUME UNCHANGED <<boots, WaitsFor>>, UpVm' \in {UpVm, 0}
  PROVE  Contract!Next
  BY DEF Contract!Next, Contract!End, Contract!MayEnd, UpVm, WaitsFor

LEMMA AskStep ==
  ASSUME NEW p \in Procs, UNCHANGED boots, WaitsFor[p] = 0,
         WaitsFor' = [WaitsFor EXCEPT ![p] = UpVm], UpVm' \in {UpVm, 0}
  PROVE  Contract!Next
  BY DEF Contract!Next, Contract!AskStop, Contract!MayEnd, UpVm, WaitsFor

LEMMA StoppedStep ==
  ASSUME NEW p \in Procs, UNCHANGED boots, WaitsFor[p] \notin {0, UpVm},
         WaitsFor' = [WaitsFor EXCEPT ![p] = 0], UpVm' \in {UpVm, 0}
  PROVE  Contract!Next
  BY DEF Contract!Next, Contract!Stopped, Contract!MayEnd, UpVm, WaitsFor

LEMMA StartStep ==
  ASSUME UpVm = 0, boots' = boots + 1, UpVm' = boots', UNCHANGED WaitsFor
  PROVE  Contract!Next
  BY DEF Contract!Next, Contract!Start, UpVm, WaitsFor

(* A coroutine that is not stopping and goes on to something else leaves   *)
(* the waits as they are.                                                  *)
LEMMA WaitsKept ==
  ASSUME TypeProcs,
         \/ UNCHANGED <<pc, job>>
         \/ \E p \in Procs, v \in Places \ Stopping :
              pc[p] \notin Stopping /\ Moves(p, v) /\ \A q \in Procs \ {p} : job'[q] = job[q]
  PROVE  UNCHANGED WaitsFor
<1>1. CASE UNCHANGED <<pc, job>>
  BY <1>1 DEF WaitsFor
<1>2. ASSUME NEW p \in Procs, NEW v \in Places \ Stopping,
             pc[p] \notin Stopping, Moves(p, v), \A q \in Procs \ {p} : job'[q] = job[q]
      PROVE  UNCHANGED WaitsFor
  <2>1. /\ pc'[p] = v
        /\ \A q \in Procs \ {p} : pc'[q] = pc[q]
    BY <1>2, Zenon DEF Moves, TypeProcs
  <2>2. \A q \in Procs : (IF pc'[q] \in Stopping THEN job'[q] ELSE 0)
                           = (IF pc[q] \in Stopping THEN job[q] ELSE 0)
    BY <1>2, <2>1, SMT
  <2> QED
    BY <2>2, SMT DEF WaitsFor
<1> QED
  BY <1>1, <1>2

LEMMA ContractInit == Init => Contract!Init
<1> SUFFICES ASSUME Init PROVE UpVm = 0 /\ WaitsFor = [p \in Procs |-> 0]
  BY DEF Contract!Init, UpVm, WaitsFor, Init
<1>1. UpVm = 0
  BY SMT DEF Init, UpVm, VmUp
<1>2. \A p \in Procs : pc[p] \notin Stopping
  BY SMT DEF Init, Stopping
<1> QED
  BY <1>1, <1>2, SMT DEF WaitsFor

LEMMA ContractNext ==
  TypeInv /\ WaitInv /\ [Next]_vars => [Contract!Next]_(Contract!vars)
<1> SUFFICES ASSUME TypeQueues, TypeGuest, TypeProcs, WaitInv, [Next]_vars
             PROVE  Contract!Next
  BY DEF TypeInv
<1> USE DEF stateVars, queueVars
<1>p. /\ {"new", "read", "chat", "await", "closed", "serve", "closing", "exit", "boot"}
           \subseteq Places \ Stopping
      /\ {"stop", "stop_shutdown", "stop_boot", "stop_chat", "stop_main"} \subseteq Stopping
      /\ \A at \in Stopping : AfterStop(at) \in Places \ Stopping
  BY SMT DEF Places, Working, Stopping, AfterStop
<1>j. \A p \in Procs : \A b :
        job' = [job EXCEPT ![p] = b] => \A q \in Procs \ {p} : job'[q] = job[q]
  BY Zenon DEF TypeProcs
<1>k. ASSUME NEW p \in Procs, NEW v \in Places \ Stopping, NEW b, pc[p] \notin Stopping,
             Moves(p, v), job' = job \/ job' = [job EXCEPT ![p] = b]
      PROVE  UNCHANGED WaitsFor
  BY <1>j, <1>k, WaitsKept, Zenon
(* Nothing that the contract sees happens.                                 *)
<1>a. ASSUME UNCHANGED <<boots, cur, launch>>, UNCHANGED WaitsFor PROVE Contract!Next
  <2>1. UpVm' = UpVm
    BY <1>a DEF UpVm, VmUp
  <2> QED
    BY <1>a, <2>1, EndStep
(* Whatever calls _stop_vm asks for a stop when a VM is up; if none is,    *)
(* the call is over at once.                                               *)
<1>1. ASSUME NEW p \in Procs, NEW w \in Stopping, NEW n \in Places \ Stopping,
             StopVm(p, w, n), UNCHANGED boots, pc[p] \notin Stopping,
             \A g \in Gens : launch[g] = "done" => launch'[g] = "done"
      PROVE  Contract!Next
  <2>1. CASE ~VmUp
    <3>1. UpVm = 0 /\ UpVm' = 0
      BY <1>1, <2>1, GensFacts, Zenon DEF StopVm, VmUp, UpVm
    <3>2. UNCHANGED WaitsFor
      BY <1>1, <1>k, <2>1, Zenon DEF StopVm, VmUp, Moves
    <3> QED
      BY <1>1, <3>1, <3>2, EndStep
  <2>2. CASE VmUp
    <3>1. /\ pc' = [pc EXCEPT ![p] = w] /\ job' = [job EXCEPT ![p] = cur]
          /\ cur # 0 /\ cur' = cur
      BY <1>1, <2>2, Zenon DEF StopVm, VmUp
    <3>2. UpVm = cur /\ UpVm' \in {cur, 0}
      BY <2>2, <3>1, Zenon DEF UpVm, VmUp
    <3>3. WaitsFor[p] = 0
      BY <1>1, Zenon DEF WaitsFor
    <3>4. \A q \in Procs : (IF pc'[q] \in Stopping THEN job'[q] ELSE 0)
                             = (IF q = p THEN cur ELSE WaitsFor[q])
      BY <1>1, <3>1, SMT DEF WaitsFor, TypeProcs
    <3>5. WaitsFor' = [WaitsFor EXCEPT ![p] = cur]
      BY <3>4, WaitsUpdate
    <3> QED
      BY <1>1, <3>2, <3>3, <3>5, AskStep
  <2> QED
    BY <2>1, <2>2
<1>2. ASSUME NEW c \in Conns, Connect(c) \/ Disconnect(c) PROVE Contract!Next
  <2>1. UNCHANGED WaitsFor
    BY <1>2, <1>k, <1>p, StoppingFacts, Zenon DEF Connect, Disconnect, Moves
  <2> QED
    BY <1>2, <1>a, <2>1 DEF Connect, Disconnect
<1>3. ASSUME NEW c \in Conns, Start(c) PROVE Contract!Next
  <2>1. UpVm = 0
    BY <1>3 DEF Start, UpVm
  <2>2. UpVm' = boots'
    BY <1>3, GensFacts, SMT DEF Start, UpVm, VmUp, TypeGuest
  <2>3. UNCHANGED WaitsFor
    BY <1>3, <1>k, <1>p, StoppingFacts, Zenon DEF Start, Moves
  <2> QED
    BY <1>3, <2>1, <2>2, <2>3, StartStep DEF Start
<1>4. ASSUME NEW c \in Conns, Stop(c) \/ ChatStop(c) \/ Shutdown(c) PROVE Contract!Next
  BY <1>4, <1>1, <1>p, StoppingFacts, Zenon DEF Stop, ChatStop, Shutdown
<1>5. ASSUME NEW c \in Conns, Boot(c) PROVE Contract!Next
  <2>1. pc[c] = "boot" /\ UNCHANGED boots
    BY <1>5, Zenon DEF Boot, StartOk, BootFailed, BootTimeout
  <2>2. \A g \in Gens : launch[g] = "done" => launch'[g] = "done"
    BY <1>5, GensFacts, Zenon DEF Boot, StartOk, BootFailed, BootTimeout, Cancel, TypeGuest
  <2>3. ASSUME HandlerDies(c) \/ StartOk(c) PROVE Contract!Next
    <3>1. UNCHANGED <<WaitsFor, cur>>
      BY <1>k, <1>p, <2>1, <2>3, StoppingFacts, Zenon DEF HandlerDies, StartOk, Moves
    <3>2. UpVm' \in {UpVm, 0}
      BY <2>2, <3>1, GensFacts, SMT DEF UpVm, VmUp
    <3> QED
      BY <2>1, <3>1, <3>2, EndStep
  <2> QED
    BY <1>5, <1>1, <1>p, <2>1, <2>2, <2>3, StoppingFacts, Zenon
       DEF Boot, BootFailed, BootTimeout
<1>6. ASSUME NEW p \in Procs, StopResume(p) PROVE Contract!Next
  <2>1. UpVm' = 0 /\ WaitsFor[p] = job[p] /\ job[p] # 0
    BY <1>6, Zenon DEF StopResume, UpVm, VmUp, WaitsFor, WaitInv, StopsSomething
  <2>2. UpVm # job[p]
    BY <1>6, <2>1, Zenon DEF StopResume, UpVm, VmUp
  <2>3. \A q \in Procs : (IF pc'[q] \in Stopping THEN job'[q] ELSE 0)
                           = (IF q = p THEN 0 ELSE WaitsFor[q])
    BY <1>6, <1>p, SMT DEF StopResume, WaitsFor, TypeProcs
  <2>4. WaitsFor' = [WaitsFor EXCEPT ![p] = 0]
    BY <2>3, WaitsUpdate
  <2> QED
    BY <1>6, <2>1, <2>2, <2>4, StoppedStep DEF StopResume
<1>7. ASSUME NEW c \in Conns, Chat(c) PROVE Contract!Next
  <2>1. /\ \E v \in {"chat", "await", "closed"} : Moves(c, v)
        /\ \E b : job' = job \/ job' = [job EXCEPT ![c] = b]
        /\ pc[c] \in {"read", "chat"}
    BY <1>7, Zenon DEF Chat, ChatAttach, ChatRefused, User, UserLost, Receive, Moves
  <2>2. UNCHANGED WaitsFor
    BY <1>k, <1>p, <2>1, StoppingFacts, Zenon
  <2> QED
    BY <1>7, <1>a, <2>2 DEF Chat, ChatAttach, ChatRefused, User, UserLost
<1>8. ASSUME NEW g \in Gens, Deliver(g) PROVE Contract!Next
  <2>1. Head(waiters[g]) \in Procs /\ pc[Head(waiters[g])] = "await"
    BY <1>8, SMT DEF Deliver, Deliverable, WaitInv, WaitersWait, TypeQueues, Procs
  <2>2. UNCHANGED WaitsFor
    BY <1>8, <1>k, <1>p, <2>1, StoppingFacts, Zenon DEF Deliver, Receive, Moves
  <2> QED
    BY <1>8, <1>a, <2>2 DEF Deliver
<1>9. ASSUME NEW g \in Gens, Session(g) PROVE Contract!Next
  BY <1>9, <1>a, WaitsKept DEF Session, Handshake, TakePrompt, Respond, Abandon
<1>10. ASSUME NEW g \in Gens, Launch(g) PROVE Contract!Next
  <2>1. UNCHANGED <<boots, cur, WaitsFor>>
    BY <1>10, WaitsKept DEF Launch, VmDies, Reap, Reaped
  <2>2. \A h \in Gens : launch[h] = "done" => launch'[h] = "done"
    BY <1>10, Zenon DEF Launch, VmDies, Reap, Reaped, TypeGuest
  <2>3. UpVm' \in {UpVm, 0}
    BY <2>1, <2>2, GensFacts, SMT DEF UpVm, VmUp
  <2> QED
    BY <2>1, <2>3, EndStep
<1>11. CASE Signal \/ UNCHANGED vars
  BY <1>11, <1>a, WaitsKept DEF Signal, vars
<1>12. CASE MainStop
  BY <1>12, <1>1, <1>p, StoppingFacts, Zenon DEF MainStop
<1>13. CASE MainExit
  <2>1. UNCHANGED WaitsFor
    BY <1>13, <1>k, <1>p, StoppingFacts, Zenon DEF MainExit, Moves
  <2> QED
    BY <1>13, <1>a, <2>1 DEF MainExit
<1> QED
  BY <1>2, <1>3, <1>4, <1>5, <1>6, <1>7, <1>8, <1>9, <1>10, <1>11, <1>12, <1>13
     DEF Next, Command

(* Whatever the clients do, and however their commands overlap: no start   *)
(* boots over a VM that is up, and no stop, shutdown or SIGTERM is over    *)
(* while the VM that was up when it was asked for still is.                *)
THEOREM ControlPlaneKeepsContract == Spec => ImplementsContract
<1>1. Init => TypeInv /\ WaitInv /\ Contract!Init
  BY TypeInit, WaitInit, ContractInit
<1>2. TypeInv /\ WaitInv /\ [Next]_vars => TypeInv' /\ WaitInv'
  BY TypeNext, WaitNext
<1>3. TypeInv /\ WaitInv /\ [Next]_vars => [Contract!Next]_(Contract!vars)
  BY ContractNext
<1> QED
  BY <1>1, <1>2, <1>3, PTL DEF Spec, ImplementsContract, Contract!Spec

-----------------------------------------------------------------------------
(* The other half of the control plane's contract: it drives each of its   *)
(* boots as LaunchContract describes, which is what launch_turn implements *)
(* (Launcher).  A boot that has not begun is one that nothing has happened *)
(* to; a task that was cancelled is on its way out.                        *)

Stage(g) ==
  IF launch[g] = "none" \/ (launch[g] = "up" /\ outcome[g] # "cancelled") THEN "up"
  ELSE IF launch[g] = "done" THEN "done" ELSE "reaping"

Task(g) == INSTANCE LaunchContract WITH launch <- Stage(g), outcome <- outcome[g]

(* What makes it inductive: the boots begun are those counted, a guest has *)
(* no result before its boot, and one before it ends or is cleaned up.     *)
BootInv ==
  \A g \in Gens :
    /\ launch[g] = "none" <=> g > boots
    /\ launch[g] = "none" => sess[g] = "none" /\ outcome[g] = "pending"
    /\ launch[g] \in {"reaping", "done"} \/ sess[g] = "ended" => outcome[g] # "pending"

(* What a step may do to boot g: nothing, begin it, give it its first      *)
(* result, cancel it, clean it up, or end that, cut short or once its      *)
(* session has ended.                                                      *)
Moved(g) ==
  \/ launch'[g] = launch[g] /\ outcome'[g] = outcome[g]
  \/ launch[g] = "none" /\ launch'[g] = "up" /\ outcome'[g] = outcome[g]
  \/ /\ launch[g] = "up" /\ launch'[g] = "up"
     /\ \/ outcome[g] = "pending" /\ outcome'[g] \in {"ok", "boot", "other"}
        \/ outcome'[g] = "cancelled"
  \/ /\ launch[g] = "up" /\ launch'[g] = "reaping"
     /\ outcome[g] # "pending" /\ outcome'[g] = outcome[g]
  \/ /\ launch[g] = "reaping" /\ launch'[g] = "done"
     /\ \/ outcome'[g] = "cancelled"
        \/ outcome'[g] = outcome[g] /\ sess'[g] = "ended"

(* Its session begins only once it has begun, and ends once and with a     *)
(* result.                                                                 *)
SessMoved(g) ==
  \/ sess'[g] = sess[g]
  \/ /\ launch[g] # "none" /\ sess[g] # "ended" /\ sess'[g] # "none"
     /\ sess'[g] = "ended" => outcome'[g] # "pending"

Counted(g) == launch'[g] = "none" <=> g > boots'

LEMMA BootMoves ==
  ASSUME TypeInv, BootInv, [Next]_vars, NEW h \in Gens
  PROVE  Moved(h) /\ SessMoved(h) /\ Counted(h)
<1> DEFINE Goal == Moved(h) /\ SessMoved(h) /\ Counted(h)
<1> SUFFICES Goal
  OBVIOUS
<1> USE DEF stateVars, guestVars
<1>t. TypeGuest /\ TypeProcs
  BY DEF TypeInv
<1>b. /\ launch[h] = "none" <=> h > boots
      /\ launch[h] = "none" => sess[h] = "none" /\ outcome[h] = "pending"
      /\ launch[h] \in {"reaping", "done"} \/ sess[h] = "ended" => outcome[h] # "pending"
      /\ launch[h] \in {"none", "up", "reaping", "done"}
  BY <1>t, Zenon DEF BootInv, TypeGuest
<1>1. ASSUME UNCHANGED <<boots, launch, outcome, sess>> PROVE Goal
  BY <1>1, <1>b DEF Moved, SessMoved, Counted
<1>2. ASSUME NEW c \in Conns, Start(c) PROVE Goal
  BY <1>2, <1>b, <1>t, GensFacts, SMT
     DEF Start, Moved, SessMoved, Counted, TypeGuest, TypeProcs, Gens
<1>3. ASSUME NEW c \in Conns,
             \/ Connect(c) \/ Disconnect(c) \/ Stop(c) \/ ChatStop(c) \/ Shutdown(c) \/ Chat(c)
             \/ StartOk(c) \/ BootFailed(c)
      PROVE  Goal
  BY <1>1, <1>3 DEF Connect, Disconnect, Stop, ChatStop, Shutdown, Chat, ChatAttach,
                    ChatRefused, User, UserLost, StartOk, BootFailed
<1>4. ASSUME NEW c \in Conns, BootTimeout(c) PROVE Goal
  <2>1. UNCHANGED <<boots, sess>>
    BY <1>4 DEF BootTimeout
  <2>2. CASE UNCHANGED <<launch, outcome>>
    BY <1>1, <2>1, <2>2
  <2>3. CASE cur \in Gens /\ Cancel(cur)
    BY <1>b, <1>t, <2>1, <2>3, SMT DEF Cancel, Moved, SessMoved, Counted, TypeGuest
  <2> QED
    BY <1>4, <1>t, <2>2, <2>3, GensFacts DEF BootTimeout
<1>5. ASSUME NEW p \in Procs, StopResume(p) PROVE Goal
  BY <1>1, <1>5 DEF StopResume
<1>6. ASSUME NEW g \in Gens, Deliver(g) PROVE Goal
  BY <1>1, <1>6 DEF Deliver
(* A result, which only a session that has begun, or a task, gives.        *)
<1>7. ASSUME NEW g \in Gens, NEW how \in {"ok", "boot", "other"}, Resolve(g, how),
             UNCHANGED <<boots, launch>>, launch[g] # "none",
             \/ sess' = sess
             \/ sess[g] # "ended" /\ \E v : v # "none" /\ sess' = [sess EXCEPT ![g] = v]
      PROVE  Goal
  <2>1. CASE h # g
    <3>1. launch'[h] = launch[h] /\ outcome'[h] = outcome[h] /\ sess'[h] = sess[h]
      BY <1>7, <1>t, <2>1, Zenon DEF Resolve, TypeGuest
    <3> QED
      BY <1>7, <1>b, <3>1 DEF Moved, SessMoved, Counted
  <2>2. CASE h = g
    <3>1. outcome'[h] = IF outcome[h] = "pending" THEN how ELSE outcome[h]
      BY <1>7, <1>t, <2>2, Zenon DEF Resolve, TypeGuest
    <3>2. sess'[h] = sess[h] \/ (sess[h] # "ended" /\ sess'[h] # "none")
      BY <1>7, <1>t, <2>2, Zenon DEF TypeGuest
    <3> QED
      BY <1>7, <1>b, <2>2, <3>1, <3>2 DEF Moved, SessMoved, Counted
  <2> QED
    BY <2>1, <2>2
(* A session that has begun goes on.                                       *)
<1>8. ASSUME NEW g \in Gens, NEW v \in {"idle", "turn"}, sess' = [sess EXCEPT ![g] = v],
             launch[g] # "none", sess[g] # "ended", UNCHANGED <<boots, launch, outcome>>
      PROVE  Goal
  BY <1>8, <1>b, <1>t, SMT DEF Moved, SessMoved, Counted, TypeGuest
<1>9. ASSUME NEW g \in Gens, Session(g) PROVE Goal
  <2>1. launch[g] # "none"
    BY <1>9, <1>t, Zenon
       DEF BootInv, Session, Handshake, TakePrompt, Respond, Abandon, TypeGuest
  <2>2. UNCHANGED <<boots, launch>> /\ sess[g] # "ended"
    BY <1>9, Zenon DEF Session, Handshake, TakePrompt, Respond, Abandon
  <2>3. CASE Handshake(g)
    BY <1>8, <2>1, <2>2, <2>3 DEF Handshake, AwaitPrompt
  <2>4. CASE TakePrompt(g)
    <3>1. CASE launch[g] = "done" /\ sess' = [sess EXCEPT ![g] = "ended"] /\ outcome' = outcome
      BY <1>b, <1>t, <2>2, <3>1, SMT DEF BootInv, Moved, SessMoved, Counted, TypeGuest
    <3> QED
      BY <1>7, <1>8, <2>1, <2>2, <2>4, <3>1, Zenon DEF TakePrompt
  <2>5. CASE Respond(g)
    BY <1>7, <1>8, <2>1, <2>2, <2>5, Zenon DEF Respond, AwaitPrompt
  <2>6. CASE Abandon(g)
    BY <1>7, <2>1, <2>2, <2>6, Zenon DEF Abandon
  <2> QED
    BY <1>9, <2>3, <2>4, <2>5, <2>6 DEF Session
<1>10. ASSUME NEW g \in Gens, Launch(g) PROVE Goal
  <2>1. CASE VmDies(g)
    BY <1>7, <2>1, Zenon DEF VmDies
  <2>2. CASE Reap(g)
    BY <1>b, <1>t, <2>2, SMT DEF Reap, Moved, SessMoved, Counted, TypeGuest
  <2>3. CASE Reaped(g)
    BY <1>b, <1>t, <2>3, SMT DEF Reaped, Moved, SessMoved, Counted, TypeGuest
  <2> QED
    BY <1>10, <2>1, <2>2, <2>3 DEF Launch
<1>11. CASE Signal \/ MainStop
  BY <1>1, <1>11 DEF Signal, MainStop
<1>12. CASE MainExit
  BY <1>12, <1>b, <1>t, SMT DEF MainExit, Moved, SessMoved, Counted, TypeGuest
<1>13. CASE UNCHANGED vars
  BY <1>1, <1>13 DEF vars
<1> HIDE DEF Goal
<1> QED
  BY <1>2, <1>3, <1>4, <1>5, <1>6, <1>9, <1>10, <1>11, <1>12, <1>13 DEF Next, Command, Boot

LEMMA BootInit == Init => BootInv
BY BoundsAssumption, SMT DEF Init, BootInv, Gens

LEMMA BootNext == TypeInv /\ BootInv /\ [Next]_vars => BootInv'
<1> SUFFICES ASSUME TypeInv, BootInv, [Next]_vars, NEW g \in Gens
             PROVE  /\ launch'[g] = "none" <=> g > boots'
                    /\ launch'[g] = "none" => sess'[g] = "none" /\ outcome'[g] = "pending"
                    /\ launch'[g] \in {"reaping", "done"} \/ sess'[g] = "ended"
                         => outcome'[g] # "pending"
  BY DEF BootInv, Gens
<1>1. Moved(g) /\ SessMoved(g) /\ Counted(g)
  BY BootMoves
<1>2. /\ launch[g] = "none" => sess[g] = "none" /\ outcome[g] = "pending"
      /\ launch[g] \in {"reaping", "done"} \/ sess[g] = "ended" => outcome[g] # "pending"
  BY Zenon DEF BootInv
<1> QED
  BY <1>1, <1>2 DEF Moved, SessMoved, Counted

LEMMA TaskStep ==
  ASSUME NEW g \in Gens, Moved(g),
         launch[g] = "none" => outcome[g] = "pending",
         launch[g] \in {"none", "up", "reaping", "done"}
  PROVE  [Task(g)!Next]_<<Stage(g), outcome[g]>>
<1> USE DEF Task!Next, Task!Results
<1>1. CASE launch'[g] = launch[g] /\ outcome'[g] = outcome[g]
  BY <1>1 DEF Stage
<1>2. CASE launch[g] = "none" /\ launch'[g] = "up" /\ outcome'[g] = outcome[g]
  BY <1>2 DEF Stage
<1>3. CASE /\ launch[g] = "up" /\ launch'[g] = "up"
           /\ outcome[g] = "pending" /\ outcome'[g] \in {"ok", "boot", "other"}
  BY <1>3 DEF Stage, Task!Resolve
<1>4. CASE launch[g] = "up" /\ launch'[g] = "up" /\ outcome'[g] = "cancelled"
  BY <1>4 DEF Stage, Task!Cancelled
<1>5. CASE /\ launch[g] = "up" /\ launch'[g] = "reaping"
           /\ outcome[g] # "pending" /\ outcome'[g] = outcome[g]
  BY <1>5 DEF Stage, Task!Reap
<1>6. CASE /\ launch[g] = "reaping" /\ launch'[g] = "done"
           /\ outcome'[g] \in {outcome[g], "cancelled"}
  BY <1>6 DEF Stage, Task!Reaped, Task!CutShort
<1> QED
  BY <1>1, <1>2, <1>3, <1>4, <1>5, <1>6 DEF Moved

(* Each boot of the control plane goes through the steps that a launch     *)
(* task may take and no others, whatever the clients do.  It does not go   *)
(* through all of them: a clean-up that raises by itself (CutShort to      *)
(* "other") is not a step of NodeControl.                                  *)
THEOREM BootsKeepContract == ASSUME NEW g \in Gens PROVE Spec => Task(g)!Spec
<1>1. Init => TypeInv /\ BootInv /\ Task(g)!Init
  BY TypeInit, BootInit DEF Init, Task!Init, Stage
<1>2. TypeInv /\ BootInv /\ [Next]_vars => TypeInv' /\ BootInv'
  BY TypeNext, BootNext
<1>3. TypeInv /\ BootInv /\ [Next]_vars => [Task(g)!Next]_<<Stage(g), outcome[g]>>
  <2> SUFFICES ASSUME TypeInv, BootInv, [Next]_vars
               PROVE  [Task(g)!Next]_<<Stage(g), outcome[g]>>
    OBVIOUS
  <2>1. Moved(g)
    BY BootMoves
  <2> QED
    BY <2>1, TaskStep, Zenon DEF TypeInv, TypeGuest, BootInv
<1> QED
  BY <1>1, <1>2, <1>3, PTL DEF Spec, Task!Spec

=============================================================================
