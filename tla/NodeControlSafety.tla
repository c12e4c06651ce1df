-------------------------- MODULE NodeControlSafety --------------------------
(***************************************************************************)
(* Safety of NodeControl, proved for any set of connections, any bounds    *)
(* and, where a theorem does not say otherwise, any client habits.         *)
(***************************************************************************)
EXTENDS NodeControlProofs

-----------------------------------------------------------------------------
(* chat_attached never outlives its chat.  It is inductive as it stands.   *)

Chatting == {"chat", "await", "stop_chat"}

LEMMA AttachedNext == TypeInv /\ AttachedHasChat /\ [Next]_vars => AttachedHasChat'
<1> DEFINE Goal == \E c \in Conns : pc'[c] \in Chatting
<1> SUFFICES ASSUME TypeProcs, TypeQueues, attached => \E c \in Conns : pc[c] \in Chatting,
                    [Next]_vars, attached'
             PROVE  Goal
  BY DEF TypeInv, AttachedHasChat, Chatting
<1> USE DEF stateVars
<1>a. ASSUME NEW p \in Procs, NEW v, pc' = [pc EXCEPT ![p] = v], attached,
             pc[p] \notin Chatting \/ (p \in Conns /\ v \in Chatting)
      PROVE  Goal
  BY <1>a, Zenon DEF TypeProcs, Procs
<1>b. ASSUME UNCHANGED <<attached, pc>> PROVE Goal
  BY <1>b
<1>1. ASSUME NEW p \in Procs, NEW w, NEW n, StopVm(p, w, n), pc[p] \notin Chatting
      PROVE Goal
  BY <1>1, <1>a, Zenon DEF StopVm
<1>2. ASSUME NEW c \in Conns, Connect(c) \/ Disconnect(c) \/ Start(c) PROVE Goal
  <2>1. pc[c] \notin Chatting \/ attached' = FALSE
    BY <1>2, Zenon DEF Connect, Disconnect, Start, Chatting
  <2> QED
    BY <1>2, <1>a, <2>1, Zenon DEF Connect, Disconnect, Start, Procs
<1>3. ASSUME NEW c \in Conns, Stop(c) \/ Shutdown(c) PROVE Goal
  BY <1>1, <1>3, SMT DEF Stop, Shutdown, Chatting, Procs
<1>4. ASSUME NEW c \in Conns, ChatStop(c) PROVE Goal
  <2>1. "stop_chat" \in Chatting /\ c \in Procs
    BY DEF Chatting, Procs
  <2> QED
    BY <1>4, <1>a, <2>1, Zenon DEF ChatStop, StopVm
<1>5. ASSUME NEW c \in Conns, Boot(c) PROVE Goal
  <2>1. pc[c] \notin Chatting /\ c \in Procs
    <3>1. pc[c] = "boot"
      BY <1>5, Zenon DEF Boot, StartOk, BootFailed, BootTimeout
    <3> QED
      BY <3>1 DEF Chatting, Procs
  <2> QED
    BY <1>1, <1>5, <1>a, <2>1, Zenon DEF Boot, StartOk, BootFailed, BootTimeout, HandlerDies
<1>6. ASSUME NEW c \in Conns, Chat(c) PROVE Goal
  <2>1. CASE ChatAttach(c)
    BY <2>1, SMT DEF ChatAttach, Chatting, TypeProcs, Procs
  <2>2. CASE ChatRefused(c)
    BY <2>2, <1>a, SMT DEF ChatRefused, Chatting, Procs
  <2>3. CASE User(c)
    <3>1. \E v : attached /\ pc' = [pc EXCEPT ![c] = v] /\ v \in Chatting
      BY <2>3, Zenon DEF User, Receive, Chatting
    <3> QED
      BY <3>1, <1>a, Zenon DEF Procs
  <2> QED
    BY <1>6, <2>1, <2>2, <2>3 DEF Chat, UserLost
<1>7. ASSUME NEW g \in Gens, Deliver(g) PROVE Goal
  <2>1. Head(waiters[g]) \in Conns
    BY <1>7, QueueGet, Zenon DEF Deliver, Deliverable, TypeQueues
  <2>2. \E v : attached /\ pc' = [pc EXCEPT ![Head(waiters[g])] = v] /\ v \in Chatting
    BY <1>7, Zenon DEF Deliver, Receive, Chatting
  <2> QED
    BY <1>a, <2>1, <2>2, Zenon DEF Procs
<1>8. ASSUME NEW g \in Gens, Session(g) \/ Launch(g) PROVE Goal
  BY <1>b, <1>8 DEF Session, Handshake, TakePrompt, Respond, Abandon, Launch, VmDies, Reap, Reaped
<1>9. CASE Signal
  BY <1>b, <1>9 DEF Signal
<1>10. CASE MainStop
  BY <1>1, <1>10, SMT DEF MainStop, Chatting, Procs
<1>11. CASE MainExit
  BY <1>a, <1>11, SMT DEF MainExit, Chatting, Procs
<1>12. CASE UNCHANGED vars
  BY <1>b, <1>12 DEF vars
<1>13. ASSUME NEW p \in Procs, StopResume(p) PROVE Goal
  BY <1>13 DEF StopResume
<1> HIDE DEF Goal
<1> QED
  BY <1>2, <1>3, <1>4, <1>5, <1>6, <1>7, <1>8, <1>9, <1>10, <1>11, <1>12, <1>13
     DEF Next, Command

(* Whatever the clients do, chat_attached is set only while some           *)
(* connection is in the attach loop, so that chat is never refused for     *)
(* ever.                                                                   *)
THEOREM AttachedIsHeld == Spec => []AttachedHasChat
<1>1. Init => TypeInv /\ AttachedHasChat
  BY TypeInit DEF Init, AttachedHasChat
<1>2. TypeInv /\ AttachedHasChat /\ [Next]_vars => TypeInv' /\ AttachedHasChat'
  BY TypeNext, AttachedNext
<1> QED
  BY <1>1, <1>2, PTL DEF Spec

-----------------------------------------------------------------------------
(* The sentinel.  A session may still shake hands or finish its turn after *)
(* the stop, so the sentinel has to wait for it from the start.            *)

Has(queue, x) == \E i \in DOMAIN queue : queue[i] = x

Waits(g) == sess[g] # "ended" /\ (stop[g] \/ launch[g] = "reaping")

SentinelInv == \A g \in Gens : Waits(g) => Has(prompts[g], None)

LEMMA HasPut ==
  ASSUME NEW S, NEW q \in Seq(S), NEW v, NEW x, Has(q, x) \/ v = x
  PROVE  Has(Append(q, v), x)
<1>1. CASE v = x
  <2>1. Len(q) + 1 \in DOMAIN Append(q, v) /\ Append(q, v)[Len(q) + 1] = x
    BY <1>1, SMT
  <2> QED
    BY <2>1 DEF Has
<1>2. CASE Has(q, x)
  <2>1. PICK i \in DOMAIN q : q[i] = x
    BY <1>2 DEF Has
  <2>2. i \in DOMAIN Append(q, v) /\ Append(q, v)[i] = x
    BY <2>1, SMT
  <2> QED
    BY <2>2 DEF Has
<1> QED
  BY <1>1, <1>2

LEMMA HasGet ==
  ASSUME NEW S, NEW q \in Seq(S), NEW x, Has(q, x), Head(q) # x
  PROVE  Has(Tail(q), x)
<1>1. PICK i \in DOMAIN q : q[i] = x
  BY DEF Has
<1>2. i - 1 \in DOMAIN Tail(q) /\ Tail(q)[i - 1] = x
  BY <1>1, SMT
<1> QED
  BY <1>2 DEF Has

LEMMA SentinelNext == TypeInv /\ SentinelInv /\ [Next]_vars => SentinelInv'
<1> DEFINE Goal(g) == Waits(g)' => Has(prompts'[g], None)
<1> SUFFICES ASSUME TypeFlags, TypeQueues, TypeGuest, TypeProcs, SentinelInv, [Next]_vars,
                    NEW h \in Gens
             PROVE  Goal(h)
  BY DEF TypeInv, SentinelInv
<1> USE DEF stateVars, queueVars, guestVars
<1>h. Waits(h) => Has(prompts[h], None)
  BY DEF SentinelInv
<1>a. ASSUME UNCHANGED <<stop[h], launch[h], sess[h], prompts[h]>> PROVE Goal(h)
  BY <1>a, <1>h DEF Waits
(* The sentinel is put, or the queue keeps it while a prompt is put.       *)
<1>b. ASSUME NEW g \in Gens, NEW v, prompts' = [prompts EXCEPT ![g] = Append(@, v)],
             v = None \/ UNCHANGED <<stop, launch>>, UNCHANGED sess,
             \A i \in Gens \ {g} : stop'[i] = stop[i] /\ launch'[i] = launch[i]
      PROVE Goal(h)
  <2>1. prompts[g] \in Seq(Conns \cup {None}) /\ prompts'[g] = Append(prompts[g], v)
    BY <1>b DEF TypeQueues
  <2>2. CASE h = g
    <3>1. CASE v = None
      BY <2>1, <2>2, <3>1, HasPut
    <3>2. CASE UNCHANGED <<stop, launch>>
      <4>1. Waits(h)' => Waits(h)
        BY <1>b, <3>2 DEF Waits
      <4> QED
        BY <1>h, <2>1, <2>2, <4>1, HasPut
    <3> QED
      BY <1>b, <3>1, <3>2
  <2>3. CASE h # g
    BY <1>b, <1>a, <2>3 DEF TypeQueues
  <2> QED
    BY <2>2, <2>3
<1>1. ASSUME NEW p, NEW w, NEW n, StopVm(p, w, n), UNCHANGED <<launch, sess>> PROVE Goal(h)
  <2>1. CASE cur = 0
    BY <1>1, <1>a, <2>1, Zenon DEF StopVm
  <2>2. CASE cur # 0
    <3>1. RequestStop(cur) /\ cur \in Gens
      BY <1>1, <2>2, GensFacts, Zenon DEF StopVm
    <3> QED
      BY <1>1, <1>b, <3>1, Zenon DEF RequestStop, TypeFlags
  <2> QED
    BY <2>1, <2>2
<1>2. ASSUME NEW c \in Conns, Connect(c) \/ Disconnect(c) PROVE Goal(h)
  BY <1>2, <1>a DEF Connect, Disconnect
<1>3. ASSUME NEW c \in Conns, Start(c) PROVE Goal(h)
  <2>1. boots + 1 \in Gens /\ launch' = [launch EXCEPT ![boots + 1] = "up"]
    BY <1>3, GensFacts DEF Start
  <2>2. launch'[h] = launch[h] \/ launch'[h] # "reaping"
    BY <2>1, Zenon DEF TypeGuest
  <2> QED
    BY <1>3, <1>h, <2>2, Zenon DEF Start, Waits
<1>4. ASSUME NEW c \in Conns, Stop(c) \/ ChatStop(c) \/ Shutdown(c) PROVE Goal(h)
  BY <1>1, <1>4 DEF Stop, ChatStop, Shutdown
<1>5. ASSUME NEW c \in Conns, Boot(c) PROVE Goal(h)
  <2>1. CASE StartOk(c)
    BY <1>a, <2>1 DEF StartOk
  <2>2. CASE BootFailed(c)
    BY <1>1, <1>a, <2>2, Zenon DEF BootFailed, HandlerDies
  <2>3. CASE BootTimeout(c)
    <3>1. launch'[h] = launch[h] \/ launch'[h] # "reaping"
      BY <2>3, GensFacts, Zenon DEF BootTimeout, Cancel, TypeGuest
    <3>2. CASE stop' = stop /\ prompts' = prompts
      BY <1>h, <2>3, <3>1, <3>2, Zenon DEF BootTimeout, Waits
    <3>3. CASE cur # 0 /\ RequestStop(cur)
      <4>1. cur \in Gens /\ prompts[cur] \in Seq(Conns \cup {None})
        BY <3>3, GensFacts DEF TypeQueues
      <4>2. CASE h = cur
        BY <3>3, <4>1, <4>2, HasPut, Zenon DEF RequestStop, TypeQueues
      <4>3. CASE h # cur
        BY <1>h, <2>3, <3>1, <3>3, <4>1, <4>3, Zenon
           DEF BootTimeout, RequestStop, TypeQueues, TypeFlags, Waits
      <4> QED
        BY <4>2, <4>3
    <3> QED
      BY <2>3, <3>2, <3>3, Zenon DEF BootTimeout, HandlerDies, StopVm
  <2> QED
    BY <1>5, <2>1, <2>2, <2>3 DEF Boot
<1>6. ASSUME NEW c \in Conns, Chat(c) PROVE Goal(h)
  <2>1. CASE User(c)
    BY <1>b, <2>1, GensFacts, Zenon DEF User
  <2> QED
    BY <1>6, <1>a, <2>1 DEF Chat, ChatAttach, ChatRefused, UserLost
<1>7. ASSUME NEW p \in Procs, StopResume(p) PROVE Goal(h)
  BY <1>7, <1>a DEF StopResume
<1>8. ASSUME NEW g \in Gens, Deliver(g) PROVE Goal(h)
  BY <1>8, <1>a DEF Deliver
<1>9. ASSUME NEW g \in Gens, Session(g) PROVE Goal(h)
  <2>1. CASE TakePrompt(g)
    <3>1. CASE h # g
      BY <1>a, <2>1, <3>1, Zenon DEF TakePrompt, TypeQueues, TypeGuest
    <3>2. CASE h = g /\ Head(prompts[g]) = None
      BY <2>1, <3>2, Zenon DEF TakePrompt, TypeGuest, Waits
    <3>3. CASE h = g /\ Head(prompts[g]) # None
      <4>1. prompts[g] \in Seq(Conns \cup {None}) /\ prompts'[g] = Tail(prompts[g])
        BY <2>1 DEF TakePrompt, TypeQueues
      <4>2. Waits(h)' => Waits(h)
        BY <2>1, <3>3, Zenon DEF TakePrompt, Waits
      <4> QED
        BY <1>h, <3>3, <4>1, <4>2, HasGet, Zenon
    <3> QED
      BY <3>1, <3>2, <3>3
  <2>2. CASE Handshake(g)
    <3>1. Waits(h)' => Waits(h)
      BY <2>2, Zenon DEF Handshake, AwaitPrompt, Waits, TypeGuest
    <3> QED
      BY <1>h, <2>2, <3>1 DEF Handshake
  <2>3. CASE Respond(g)
    <3>1. Waits(h)' => Waits(h)
      BY <2>3, Zenon DEF Respond, AwaitPrompt, Waits, TypeGuest
    <3> QED
      BY <1>h, <2>3, <3>1 DEF Respond
  <2>4. CASE Abandon(g)
    <3>1. Waits(h)' => Waits(h)
      BY <2>4, Zenon DEF Abandon, Waits, TypeGuest
    <3> QED
      BY <1>h, <2>4, <3>1 DEF Abandon
  <2> QED
    BY <1>9, <2>1, <2>2, <2>3, <2>4 DEF Session
<1>10. ASSUME NEW g \in Gens, Launch(g) PROVE Goal(h)
  <2>1. CASE VmDies(g)
    BY <1>a, <2>1 DEF VmDies
  <2>2. CASE Reap(g)
    BY <1>b, <2>2, Zenon DEF Reap, TypeGuest
  <2>3. CASE Reaped(g)
    <3>1. Waits(h)' => Waits(h)
      BY <2>3, Zenon DEF Reaped, Waits, TypeGuest
    <3> QED
      BY <1>h, <2>3, <3>1 DEF Reaped
  <2> QED
    BY <1>10, <2>1, <2>2, <2>3 DEF Launch
<1>11. CASE Signal \/ MainExit
  BY <1>11, <1>a DEF Signal, MainExit
<1>12. CASE MainStop
  BY <1>1, <1>12 DEF MainStop
<1>13. CASE UNCHANGED vars
  BY <1>13, <1>a DEF vars
<1> HIDE DEF Goal
<1> QED
  BY <1>2, <1>3, <1>4, <1>5, <1>6, <1>7, <1>8, <1>9, <1>10, <1>11, <1>12, <1>13
     DEF Next, Command

(* A session that was asked to stop, or whose launch task cleans up, finds *)
(* the sentinel when it next waits for a prompt: stop and reaping never    *)
(* hang on an idle session, however commands and chats interleave.         *)
THEOREM SentinelHolds == Spec => []SentinelPending
<1>1. Init => TypeInv /\ SentinelInv
  <2>1. Init => SentinelInv
    BY Zenon DEF Init, SentinelInv, Waits
  <2> QED
    BY <2>1, TypeInit
<1>2. TypeInv /\ SentinelInv /\ [Next]_vars => TypeInv' /\ SentinelInv'
  BY TypeNext, SentinelNext
<1>3. SentinelInv => SentinelPending
  BY SMT DEF SentinelInv, SentinelPending, Waits, Has
<1> QED
  BY <1>1, <1>2, <1>3, PTL DEF Spec

-----------------------------------------------------------------------------
(* One guest.  With the overlap of commands left out, a command in         *)
(* progress keeps the boot it works on current, and the guest it finds is  *)
(* the one it booted.                                                      *)

OneCommand ==
  /\ \A p, q \in Procs : pc[p] \in Working /\ pc[q] \in Working => p = q
  /\ \A p \in Procs : pc[p] \in Working => cur # 0 /\ job[p] = cur
  /\ shutdown /\ pc[Main] = "serve" => \A p \in Procs : pc[p] \notin Working

CurIsLast == cur # 0 => cur = boots

(* A task that is done before its session was cut short in its clean-up.   *)
LeftOver(g) == launch[g] = "done" /\ outcome[g] = "cancelled"

(* A session in a turn has its VM, and one that has shaken hands has set   *)
(* the event that its start waits for.                                     *)
SessionKnown(g) ==
  /\ sess[g] = "turn" => Live(g)
  /\ sess[g] \in {"idle", "turn"} /\ Live(g) => ready[g] # 0

(* That event was set by its own guest, or by one left over.               *)
SetByGuest(g) ==
  ready[g] # 0 => sess[ready[g]] # "none" /\ (ready[g] = g \/ LeftOver(ready[g]))

ReadyGuest ==
  \A g \in Gens : /\ SessionKnown(g) /\ SetByGuest(g)
                  /\ launch[g] = "done" /\ sess[g] # "ended" => LeftOver(g)

GuestInv == OneCommand /\ OneGuest /\ CurIsLast /\ ReadyGuest /\ BootInv

LEMMA QuietCommand ==
  ASSUME "overlap" \notin Allowed, NEW c, MayCommand(c)
  PROVE  /\ \A p \in Procs : pc[p] \notin Working
         /\ ~(shutdown /\ pc[Main] = "serve")
  BY Zenon DEF MayCommand, Busy

LEMMA OneCommandNext ==
  ASSUME "overlap" \notin Allowed, TypeInv, GuestInv, [Next]_vars
  PROVE  OneCommand'
<1> USE DEF stateVars
<1>t. pc \in [Procs -> Places] /\ job \in [Procs -> 0..MaxBoots] /\ OneCommand
  BY DEF TypeInv, TypeProcs, GuestInv
<1>v. \A v \in {"new", "read", "chat", "await", "closed", "closing", "exit"} :
        v \notin Working /\ v # "serve"
  BY SMT DEF Working, Stopping
<1>w. /\ {"new", "read", "chat", "await", "closed", "serve", "closing", "exit"} \cap Working = {}
      /\ Stopping \subseteq Working /\ "boot" \in Working
      /\ Main \in Procs /\ Main \notin Conns /\ Conns \subseteq Procs
  BY ConnsAssumption, SMT DEF Working, Stopping, Procs
<1>s. {"stop", "stop_shutdown", "stop_boot", "stop_chat", "stop_main"} \subseteq Working
  BY DEF Working, Stopping
(* A coroutine stays or goes, and nothing moves under the one at work.     *)
<1>a. ASSUME NEW p \in Procs, NEW v, v \notin Working, v # "serve",
             pc' = [pc EXCEPT ![p] = v], \A q \in Procs \ {p} : job'[q] = job[q],
             \/ UNCHANGED <<cur, shutdown>>
             \/ \A q \in Procs \ {p} : pc[q] \notin Working
      PROVE  OneCommand'
  BY <1>t, <1>w, <1>a, SMT DEF OneCommand
(* A coroutine goes to work on the current boot, and nobody else does.     *)
<1>b. ASSUME NEW p \in Procs, NEW v, v \in Working, pc' = [pc EXCEPT ![p] = v],
             job' = [job EXCEPT ![p] = cur'], cur' # 0,
             \A q \in Procs \ {p} : pc[q] \notin Working,
             shutdown' => pc'[Main] # "serve"
      PROVE  OneCommand'
  BY <1>t, <1>w, <1>b, SMT DEF OneCommand
<1>c. ASSUME UNCHANGED <<pc, job, cur, shutdown>> PROVE OneCommand'
  BY <1>t, <1>c DEF OneCommand
<1>1. ASSUME NEW p \in Procs, NEW w \in Working, NEW n, n \notin Working, n # "serve",
             StopVm(p, w, n),
             \A q \in Procs \ {p} : pc[q] \notin Working,
             shutdown => pc[Main] # "serve" \/ p = Main,
             VmUp => shutdown' = shutdown
      PROVE  OneCommand'
  <2>1. CASE ~VmUp
    <3>1. pc' = [pc EXCEPT ![p] = n] /\ job' = [job EXCEPT ![p] = 0]
      BY <1>1, <2>1, Zenon DEF StopVm, VmUp
    <3>2. \A q \in Procs \ {p} : job'[q] = job[q]
      BY <1>t, <3>1, Zenon
    <3> QED
      BY <1>1, <1>a, <3>1, <3>2, Zenon
  <2>2. CASE VmUp
    <3>1. /\ pc' = [pc EXCEPT ![p] = w] /\ job' = [job EXCEPT ![p] = cur]
          /\ cur # 0 /\ cur' = cur /\ shutdown' = shutdown
      BY <1>1, <2>2, Zenon DEF StopVm, VmUp
    <3>2. shutdown' => pc'[Main] # "serve"
      BY <1>t, <1>w, <1>1, <3>1, Zenon
    <3> QED
      BY <1>b, <1>1, <3>1, <3>2, Zenon
  <2> QED
    BY <2>1, <2>2
<1>2. ASSUME NEW c \in Conns, Connect(c) \/ Disconnect(c) PROVE OneCommand'
  BY <1>2, <1>a, <1>w, SMT DEF Connect, Disconnect
<1>3. ASSUME NEW c \in Conns, Start(c) PROVE OneCommand'
  <2>1. \A p \in Procs : pc[p] \notin Working
    BY <1>3, QuietCommand DEF Start
  <2>2. shutdown' => pc'[Main] # "serve"
    BY <1>3, <1>t, <1>w, QuietCommand, Zenon DEF Start
  <2>3. cur' # 0
    BY <1>3, GensFacts, SMT DEF Start, TypeInv
  <2> QED
    BY <1>3, <1>b, <1>w, <2>1, <2>2, <2>3, Zenon DEF Start
<1>4. ASSUME NEW c \in Conns, Stop(c) \/ ChatStop(c) \/ Shutdown(c) PROVE OneCommand'
  <2>1. (\A p \in Procs : pc[p] \notin Working) /\ ~(shutdown /\ pc[Main] = "serve")
    BY <1>4, QuietCommand, Zenon DEF Stop, ChatStop, Shutdown
  <2>2. VmUp => shutdown' = shutdown
    BY <1>4, Zenon DEF Stop, ChatStop, Shutdown, TypeInv, TypeFlags
  <2> QED
    BY <1>4, <1>1, <1>w, <1>s, <2>1, <2>2, Zenon DEF Stop, ChatStop, Shutdown
<1>5. ASSUME NEW c \in Conns, Boot(c) PROVE OneCommand'
  <2>1. pc[c] = "boot" /\ shutdown' = shutdown
    BY <1>5, Zenon DEF Boot, StartOk, BootFailed, BootTimeout
  <2>2. /\ \A q \in Procs \ {c} : pc[q] \notin Working
        /\ shutdown => pc[Main] # "serve"
    BY <1>t, <1>w, <2>1, Zenon DEF OneCommand
  <2>3. ASSUME HandlerDies(c) \/ StartOk(c) PROVE OneCommand'
    BY <1>a, <1>t, <1>w, <2>1, <2>2, <2>3, SMT DEF HandlerDies, StartOk
  <2> QED
    BY <1>5, <1>1, <1>w, <1>s, <2>1, <2>2, <2>3, Zenon DEF Boot, BootFailed, BootTimeout
<1>6. ASSUME NEW c \in Conns, Chat(c) PROVE OneCommand'
  <2>1. /\ \E v \in {"chat", "await", "closed"} : pc' = [pc EXCEPT ![c] = v]
        /\ UNCHANGED <<cur, shutdown>>
    BY <1>6, Zenon DEF Chat, ChatAttach, ChatRefused, User, UserLost, Receive
  <2>2. \A q \in Procs \ {c} : job'[q] = job[q]
    BY <1>6, <1>t, SMT DEF Chat, ChatAttach, ChatRefused, User, UserLost, Receive
  <2> QED
    BY <1>a, <1>v, <1>w, <2>1, <2>2, Zenon
<1>7. ASSUME NEW g \in Gens, Deliver(g) PROVE OneCommand'
  <2>1. Head(waiters[g]) \in Procs
    BY <1>7, <1>w, QueueGet, Zenon DEF Deliver, Deliverable, TypeInv, TypeQueues
  <2>2. /\ \E v \in {"chat", "closed"} : pc' = [pc EXCEPT ![Head(waiters[g])] = v]
        /\ UNCHANGED <<cur, shutdown>>
    BY <1>7, Zenon DEF Deliver, Receive
  <2>3. \A q \in Procs \ {Head(waiters[g])} : job'[q] = job[q]
    BY <1>7, <1>t, Zenon DEF Deliver, Receive
  <2> QED
    BY <1>a, <1>v, <2>1, <2>2, <2>3, Zenon
<1>8. ASSUME NEW p \in Procs, StopResume(p) PROVE OneCommand'
  <2>1. /\ AfterStop(pc[p]) \notin Working /\ AfterStop(pc[p]) # "serve"
        /\ \A q \in Procs \ {p} : job'[q] = job[q]
    BY <1>8, <1>t, <1>w, SMT DEF StopResume, AfterStop
  <2>2. \A q \in Procs \ {p} : pc[q] \notin Working
    BY <1>8, <1>t, <1>w, Zenon DEF OneCommand, StopResume
  <2> QED
    BY <1>8, <1>a, <2>1, <2>2, Zenon DEF StopResume
<1>9. ASSUME NEW g \in Gens, Session(g) \/ Launch(g) PROVE OneCommand'
  BY <1>9, <1>c DEF Session, Handshake, TakePrompt, Respond, Abandon, Launch, VmDies, Reap, Reaped
<1>10. CASE Signal
  <2>1. (\A p \in Procs : pc[p] \notin Working) /\ UNCHANGED <<pc, job, cur>>
    BY <1>10, QuietCommand DEF Signal
  <2> QED
    BY <2>1 DEF OneCommand
<1>11. CASE MainStop
  <2>1. \A q \in Procs : pc[q] \notin Working
    BY <1>11, <1>t, Zenon DEF MainStop, OneCommand
  <2> QED
    BY <1>11, <1>1, <1>w, <1>s, <2>1, Zenon DEF MainStop
<1>12. CASE MainExit
  BY <1>12, <1>a, <1>v, <1>w, Zenon DEF MainExit
<1>13. CASE UNCHANGED vars
  BY <1>13, <1>c DEF vars
<1> QED
  BY <1>2, <1>3, <1>4, <1>5, <1>6, <1>7, <1>8, <1>9, <1>10, <1>11, <1>12, <1>13
     DEF Next, Command

LEMMA OneGuestNext ==
  ASSUME "overlap" \notin Allowed, TypeInv, GuestInv, [Next]_vars
  PROVE  OneGuest' /\ CurIsLast'
<1> DEFINE Goal == OneGuest' /\ CurIsLast'
<1> SUFFICES Goal
  OBVIOUS
<1> USE DEF stateVars
<1>t. TypeProcs /\ TypeGuest /\ OneGuest /\ CurIsLast /\ OneCommand
  BY DEF TypeInv, GuestInv
(* No guest starts, and the current one stays current or is over.          *)
<1>a. ASSUME UNCHANGED boots, \A g \in Gens : Live(g)' => Live(g),
             cur' = cur \/ (cur' = 0 /\ (cur # 0 => launch[cur] = "done"))
      PROVE  Goal
  <2>1. \A g \in Gens : Live(g) => g = cur /\ launch[cur] # "done"
    BY <1>t, SMT DEF OneGuest, Live
  <2>2. \A g \in Gens : Live(g)' => g = cur'
    BY <1>a, <2>1, SMT DEF Gens
  <2> QED
    BY <1>a, <1>t, <2>2, SMT DEF CurIsLast, OneGuest
<1>b. ASSUME UNCHANGED <<boots, cur, launch>> PROVE Goal
  BY <1>b, <1>a DEF Live
<1>1. ASSUME NEW p, NEW w, NEW n, StopVm(p, w, n), UNCHANGED boots,
             \A g \in Gens : Live(g)' => Live(g)
      PROVE  Goal
  BY <1>1, <1>a, Zenon DEF StopVm
<1>2. ASSUME NEW c \in Conns, Connect(c) \/ Disconnect(c) PROVE Goal
  BY <1>2, <1>b DEF Connect, Disconnect
<1>3. ASSUME NEW c \in Conns, Start(c) PROVE Goal
  <2>1. \A g \in Gens : ~Live(g)
    BY <1>3, <1>t, SMT DEF Start, VmUp, OneGuest, Live, Gens
  <2>2. \A g \in Gens : Live(g)' => g = boots + 1
    BY <1>3, <1>t, <2>1, SMT DEF Start, Live, TypeGuest
  <2> QED
    BY <1>3, <2>2 DEF Start, OneGuest, CurIsLast
<1>4. ASSUME NEW c \in Conns, Stop(c) \/ ChatStop(c) \/ Shutdown(c) PROVE Goal
  BY <1>4, <1>1 DEF Stop, ChatStop, Shutdown, Live
<1>5. ASSUME NEW c \in Conns, Boot(c) PROVE Goal
  <2>1. CASE StartOk(c)
    BY <1>b, <2>1 DEF StartOk
  <2>2. CASE BootFailed(c)
    BY <1>1, <1>b, <2>2, Zenon DEF BootFailed, HandlerDies, Live
  <2>3. CASE BootTimeout(c)
    <3>1. \A g \in Gens : Live(g)' => Live(g)
      BY <1>t, <2>3, GensFacts, Zenon DEF BootTimeout, Cancel, Live, TypeGuest
    <3> QED
      BY <1>1, <1>a, <2>3, <3>1, Zenon DEF BootTimeout, HandlerDies
  <2> QED
    BY <1>5, <2>1, <2>2, <2>3 DEF Boot
<1>6. ASSUME NEW c \in Conns, Chat(c) PROVE Goal
  BY <1>6, <1>b DEF Chat, ChatAttach, ChatRefused, User, UserLost
<1>7. ASSUME NEW p \in Procs, StopResume(p) PROVE Goal
  <2>1. launch[cur] = "done"
    BY <1>7, <1>t, Zenon DEF StopResume, OneCommand, Working
  <2> QED
    BY <1>7, <1>a, <2>1 DEF StopResume, Live
<1>8. ASSUME NEW g \in Gens, Deliver(g) \/ Session(g) PROVE Goal
  BY <1>8, <1>b DEF Deliver, Session, Handshake, TakePrompt, Respond, Abandon
<1>9. ASSUME NEW g \in Gens, Launch(g) PROVE Goal
  <2>1. \A h \in Gens : Live(h)' => Live(h)
    BY <1>9, <1>t, Zenon DEF Launch, VmDies, Reap, Reaped, Live, TypeGuest
  <2> QED
    BY <1>9, <1>a, <2>1 DEF Launch, VmDies, Reap, Reaped
<1>10. CASE Signal \/ MainExit
  BY <1>10, <1>b DEF Signal, MainExit
<1>11. CASE MainStop
  BY <1>11, <1>1 DEF MainStop, Live
<1>12. CASE UNCHANGED vars
  BY <1>12, <1>b DEF vars
<1> HIDE DEF Goal
<1> QED
  BY <1>2, <1>3, <1>4, <1>5, <1>6, <1>7, <1>8, <1>9, <1>10, <1>11, <1>12 DEF Next, Command

LEMMA ReadyGuestNext ==
  ASSUME "overlap" \notin Allowed, TypeInv, GuestInv, [Next]_vars
  PROVE  ReadyGuest'
<1> USE DEF stateVars, guestVars
<1>t. /\ TypeFlags /\ TypeProcs /\ TypeGuest /\ BootInv
      /\ OneGuest /\ CurIsLast /\ OneCommand /\ ReadyGuest
  BY DEF TypeInv, GuestInv
<1>m. ASSUME NEW g \in Gens PROVE Moved(g) /\ SessMoved(g)
  BY <1>t, BootMoves DEF TypeInv
<1>s. ASSUME NEW g \in Gens
      PROVE  /\ LeftOver(g) => LeftOver(g)'
             /\ sess[g] # "none" => sess'[g] # "none"
             /\ launch'[g] = "done" /\ sess'[g] # "ended" => LeftOver(g)'
             /\ Live(g)' => Live(g) \/ sess'[g] = "none"
  BY <1>m, <1>t DEF Moved, SessMoved, LeftOver, ReadyGuest, Live, BootInv
<1>e. \A g \in Gens : ready[g] \in Gens \cup {0}
  BY <1>t, SMT DEF TypeFlags, Gens
<1>f. ASSUME NEW g \in Gens, ready'[g] = ready[g] PROVE SetByGuest(g)'
  BY <1>e, <1>f, <1>s, <1>t, Zenon DEF SetByGuest, ReadyGuest
<1>g. ASSUME \A g \in Gens : SessionKnown(g)' /\ SetByGuest(g)' PROVE ReadyGuest'
  BY <1>g, <1>s DEF ReadyGuest
(* A session that sets no event, and that no turn is lost in.              *)
<1>k. ASSUME NEW g \in Gens, ready'[g] = ready[g], sess'[g] \in {sess[g], "ended"},
             sess[g] = "turn" => Live(g)' \/ sess'[g] = "ended"
      PROVE  SessionKnown(g)'
  BY <1>k, <1>s, <1>t, SMT DEF SessionKnown, ReadyGuest
<1>a. ASSUME UNCHANGED <<sess, ready>>,
             \A g \in Gens : sess[g] = "turn" /\ Live(g) => Live(g)'
      PROVE  ReadyGuest'
  BY <1>a, <1>f, <1>g, <1>k, <1>t, Zenon DEF ReadyGuest, SessionKnown
<1>b. ASSUME UNCHANGED <<sess, ready, launch>> PROVE ReadyGuest'
  BY <1>a, <1>b DEF Live
(* A live guest is the last one booted: it is its event that it sets.  Any *)
(* other is left over.                                                     *)
<1>c. ASSUME NEW g \in Gens, sess' = [sess EXCEPT ![g] = "idle"], UNCHANGED launch,
             sess[g] # "ended", launch[g] # "none", ready' = [ready EXCEPT ![boots] = g]
      PROVE  ReadyGuest'
  <2>1. boots \in Gens /\ ready'[boots] = g
    <3>1. g <= boots
      BY <1>c, <1>t, SMT DEF BootInv, TypeProcs, Gens
    <3>2. boots \in Gens
      BY <1>t, <3>1, SMT DEF TypeProcs, Gens
    <3> QED
      BY <1>c, <1>t, <3>2, Zenon DEF TypeFlags
  <2>2. Live(g) => g = boots
    BY <1>c, <1>t, SMT DEF OneGuest, CurIsLast, Gens
  <2>3. Live(g) \/ launch[g] = "done"
    BY <1>c, <1>t, SMT DEF Live, TypeGuest
  <2>4. \A h \in Gens \ {g} : sess'[h] = sess[h]
    BY <1>c, <1>t, Zenon DEF TypeGuest
  <2>5. \A h \in Gens \ {boots} : ready'[h] = ready[h]
    BY <1>c, <1>t, Zenon DEF TypeFlags
  <2>6. sess'[g] = "idle" /\ (~Live(g) => LeftOver(g)')
    BY <1>c, <1>s, <1>t, <2>3, Zenon DEF TypeGuest
  <2>7. ASSUME NEW h \in Gens PROVE SetByGuest(h)'
    <3>1. CASE h = boots
      BY <2>1, <2>2, <2>6, <3>1, SMT DEF SetByGuest
    <3>2. CASE h # boots
      BY <1>f, <2>5, <3>2
    <3> QED
      BY <3>1, <3>2
  <2>8. ASSUME NEW h \in Gens PROVE SessionKnown(h)'
    <3>1. Live(h)' = Live(h) /\ g # 0
      BY <1>c, SMT DEF Live, Gens
    <3>2. CASE h = g
      BY <2>1, <2>2, <2>6, <3>1, <3>2 DEF SessionKnown
    <3>3. CASE h # g
      <4>1. sess'[h] = sess[h] /\ (ready'[h] = ready[h] \/ ready'[h] # 0)
        BY <2>1, <2>4, <2>5, <3>1, <3>3
      <4> QED
        BY <1>t, <3>1, <4>1 DEF SessionKnown, ReadyGuest
    <3> QED
      BY <3>2, <3>3
  <2> QED
    BY <1>g, <2>7, <2>8
<1>d. ASSUME NEW g \in Gens, sess' = [sess EXCEPT ![g] = "ended"], UNCHANGED ready,
             \A h \in Gens \ {g} : Live(h) => Live(h)'
      PROVE  ReadyGuest'
  <2> SUFFICES ASSUME NEW h \in Gens PROVE SessionKnown(h)'
    BY <1>d, <1>f, <1>g
  <2>1. sess'[h] = IF h = g THEN "ended" ELSE sess[h]
    BY <1>d, <1>t DEF TypeGuest
  <2>2. sess[h] = "turn" => Live(h)
    BY <1>t DEF ReadyGuest, SessionKnown
  <2> QED
    BY <1>d, <1>k, <2>1, <2>2
<1>1. ASSUME NEW c \in Conns, Connect(c) \/ Disconnect(c) \/ Stop(c) \/ ChatStop(c)
                              \/ Shutdown(c) \/ Chat(c)
      PROVE  ReadyGuest'
  BY <1>1, <1>b DEF Connect, Disconnect, Stop, ChatStop, Shutdown, Chat, ChatAttach,
                    ChatRefused, User, UserLost
<1>2. ASSUME NEW c \in Conns, Start(c) PROVE ReadyGuest'
  BY <1>2, <1>a, <1>t, Zenon DEF Start, Live, TypeGuest
<1>3. ASSUME NEW c \in Conns, Boot(c) PROVE ReadyGuest'
  <2>1. CASE StartOk(c) \/ BootFailed(c)
    BY <1>b, <2>1 DEF StartOk, BootFailed
  <2>2. CASE BootTimeout(c)
    <3>1. cur \in Gens /\ cur = boots /\ cur = job[c]
      BY <1>t, <2>2, GensFacts, Zenon DEF BootTimeout, OneCommand, CurIsLast, Working, Procs
    <3>2. ready[cur] = 0
      BY <2>2, <3>1, Zenon DEF BootTimeout, Woken, IsReady
    <3>3. \A g \in Gens \ {cur} : launch'[g] = launch[g]
      BY <1>t, <2>2, <3>1, Zenon DEF BootTimeout, Cancel, TypeGuest
    <3>4. sess[cur] # "turn"
      BY <1>t, <3>1, <3>2 DEF ReadyGuest, SessionKnown
    <3> QED
      BY <1>a, <2>2, <3>1, <3>3, <3>4, Zenon DEF BootTimeout, Live
  <2> QED
    BY <1>3, <2>1, <2>2 DEF Boot
<1>4. ASSUME NEW p \in Procs, StopResume(p) PROVE ReadyGuest'
  BY <1>4, <1>b DEF StopResume
<1>5. ASSUME NEW g \in Gens, Deliver(g) PROVE ReadyGuest'
  BY <1>5, <1>b DEF Deliver
<1>6. ASSUME NEW g \in Gens, Session(g) PROVE ReadyGuest'
  <2>1. CASE Handshake(g)
    BY <1>c, <2>1, Zenon DEF Handshake, AwaitPrompt
  <2>2. CASE TakePrompt(g)
    <3>1. CASE sess' = [sess EXCEPT ![g] = "ended"]
      BY <1>d, <2>2, <3>1, Zenon DEF TakePrompt, Live
    <3>2. CASE sess' = [sess EXCEPT ![g] = "turn"] /\ launch[g] # "done"
      <4> SUFFICES ASSUME NEW h \in Gens PROVE SessionKnown(h)'
        BY <1>f, <1>g, <2>2 DEF TakePrompt
      <4>1. Live(g) /\ sess[g] = "idle"
        BY <1>t, <2>2, <3>2, SMT DEF TakePrompt, Live, BootInv, TypeGuest
      <4>2. sess'[h] = IF h = g THEN "turn" ELSE sess[h]
        BY <1>t, <3>2 DEF TypeGuest
      <4>3. Live(h)' = Live(h) /\ ready' = ready
        BY <2>2 DEF TakePrompt, Live
      <4> QED
        BY <1>t, <4>1, <4>2, <4>3 DEF ReadyGuest, SessionKnown
    <3> QED
      BY <2>2, <3>1, <3>2, Zenon DEF TakePrompt
  <2>3. CASE Respond(g)
    <3>1. CASE sess' = [sess EXCEPT ![g] = "ended"] /\ UNCHANGED ready
      BY <1>d, <2>3, <3>1, Zenon DEF Respond, Live
    <3>2. CASE AwaitPrompt(g)
      <4>1. launch[g] # "none" /\ launch' = launch /\ sess[g] = "turn"
        BY <1>t, <2>3, SMT DEF Respond, ReadyGuest, SessionKnown, Live
      <4> QED
        BY <1>c, <3>2, <4>1, Zenon DEF AwaitPrompt
    <3> QED
      BY <2>3, <3>1, <3>2, Zenon DEF Respond
  <2>4. CASE Abandon(g)
    BY <1>d, <2>4, Zenon DEF Abandon, Live
  <2> QED
    BY <1>6, <2>1, <2>2, <2>3, <2>4 DEF Session
<1>7. ASSUME NEW g \in Gens, Launch(g) PROVE ReadyGuest'
  <2>1. CASE VmDies(g)
    BY <1>b, <2>1 DEF VmDies
  <2>2. CASE Reap(g)
    BY <1>a, <1>t, <2>2, Zenon DEF Reap, Live, TypeGuest
  <2>3. CASE Reaped(g)
    BY <1>d, <1>t, <2>3, Zenon DEF Reaped, Live, TypeGuest
  <2> QED
    BY <1>7, <2>1, <2>2, <2>3 DEF Launch
<1>8. CASE Signal \/ MainStop \/ MainExit
  BY <1>8, <1>b DEF Signal, MainStop, MainExit
<1>9. CASE UNCHANGED vars
  BY <1>9, <1>b DEF vars
<1> QED
  BY <1>1, <1>2, <1>3, <1>4, <1>5, <1>6, <1>7, <1>8, <1>9 DEF Next, Command

LEMMA GuestInvInit == Init => GuestInv
<1> SUFFICES ASSUME Init PROVE GuestInv
  OBVIOUS
<1>1. OneCommand
  BY ConnsAssumption, SMT DEF Init, OneCommand, Procs, Working, Stopping
<1>2. OneGuest /\ CurIsLast
  BY Zenon DEF Init, OneGuest, CurIsLast, Live
<1>3. ReadyGuest
  BY Zenon DEF Init, ReadyGuest, SessionKnown, SetByGuest
<1> QED
  BY <1>1, <1>2, <1>3, BootInit DEF GuestInv

(* While lifecycle commands do not overlap, every VM that has been started *)
(* and is not over is the one the state refers to, so that the next stop   *)
(* reaches it; whatever chats do meanwhile.                                *)
THEOREM GuestIsUnique == ASSUME "overlap" \notin Allowed PROVE Spec => []OneGuest
<1>1. Init => TypeInv /\ GuestInv
  BY TypeInit, GuestInvInit
<1>2. TypeInv /\ GuestInv /\ [Next]_vars => TypeInv' /\ GuestInv'
  BY TypeNext, OneCommandNext, OneGuestNext, ReadyGuestNext, BootNext DEF GuestInv
<1>3. GuestInv => OneGuest
  BY DEF GuestInv
<1> QED
  BY <1>1, <1>2, <1>3, PTL DEF Spec

(* Nor is start_ok ever written for another boot than the one its start    *)
(* made; and it is written before the guest has shaken hands only when one *)
(* left over from a cancelled clean-up has done so in its place.           *)
THEOREM StartOkIsTrue == ASSUME "overlap" \notin Allowed PROVE Spec => StartOkMeansReady
<1>1. Init => TypeInv /\ GuestInv
  BY TypeInit, GuestInvInit
<1>2. TypeInv /\ GuestInv /\ [Next]_vars => TypeInv' /\ GuestInv'
  BY TypeNext, OneCommandNext, OneGuestNext, ReadyGuestNext, BootNext DEF GuestInv
<1>3. TypeInv /\ GuestInv
        => [\A c \in Conns : StartOk(c) =>
              cur = job[c] /\ (sess[cur] # "none" \/ SetByAnother(cur))]_vars
  <2> SUFFICES ASSUME TypeProcs, GuestInv, NEW c \in Conns, StartOk(c)
               PROVE  cur = job[c] /\ (sess[cur] # "none" \/ SetByAnother(cur))
    BY DEF TypeInv
  <2>1. cur # 0 /\ cur = job[c] /\ cur = boots
    BY Zenon DEF GuestInv, OneCommand, CurIsLast, StartOk, Working, Procs
  <2>2. cur \in Gens /\ ready[cur] # 0
    BY <2>1, GensFacts DEF StartOk, IsReady
  <2>3. sess[ready[cur]] # "none" /\ (ready[cur] = cur \/ LeftOver(ready[cur]))
    BY <2>2 DEF GuestInv, ReadyGuest, SetByGuest
  <2> QED
    BY <2>1, <2>2, <2>3, SMT DEF SetByAnother, LeftOver
<1> QED
  BY <1>1, <1>2, <1>3, PTL DEF Spec, StartOkMeansReady
-----------------------------------------------------------------------------
(* Exclusive chats.  A connection is tied to the guest of the moment while *)
(* it is in the attach loop, or waits for a response that the current boot *)
(* may still give or that lies in its queue already.  One that waits on an *)
(* older boot with an empty queue is tied to nothing: nobody puts a        *)
(* response there any more.                                                *)

Tied(c) ==
  \/ pc[c] = "chat"
  \/ pc[c] = "await" /\ (job[c] = cur \/ Deliverable(job[c]))

AwaitsBoot == \A c \in Conns : pc[c] = "await" => job[c] \in 1..boots

OneTied == \A c, d \in Conns : Tied(c) /\ Tied(d) => c = d
TiedAttached == VmUp => \A c \in Conns : Tied(c) => attached

AttachInv == AwaitsBoot /\ OneTied /\ TiedAttached

LEMMA NotWorking ==
  /\ {"new", "read", "chat", "await", "closed", "serve", "closing", "exit"} \cap Working = {}
  /\ \A at \in Working : at \notin {"chat", "await"}
  /\ \A at \in Stopping : AfterStop(at) \notin {"chat", "await"}
  /\ {"stop", "stop_shutdown", "stop_boot", "stop_chat", "stop_main"} \cap {"chat", "await"} = {}
  /\ Conns \subseteq Procs /\ Main \in Procs /\ Main \notin Conns
  BY ConnsAssumption, SMT DEF Working, Stopping, AfterStop, Procs

(* Who awaits a response has awaited it before, or has just sent a prompt. *)
LEMMA AwaitMoves ==
  ASSUME TypeInv, [Next]_vars, NEW c \in Conns, pc'[c] = "await"
  PROVE  \/ pc[c] = "await" /\ job'[c] = job[c]
         \/ User(c) /\ cur # 0 /\ job'[c] = cur
<1> DEFINE Goal == \/ pc[c] = "await" /\ job'[c] = job[c]
                   \/ User(c) /\ cur # 0 /\ job'[c] = cur
<1> SUFFICES Goal
  OBVIOUS
<1> USE DEF stateVars
<1>t. TypeProcs /\ TypeQueues
  BY DEF TypeInv
<1>v. \A v \in {"read", "chat", "closed", "exit", "boot"} : v # "await"
  OBVIOUS
(* Another coroutine moves, or this one goes elsewhere.                    *)
<1>a. ASSUME NEW p \in Procs, NEW v, pc' = [pc EXCEPT ![p] = v], v # "await",
             job' = job \/ \E b : job' = [job EXCEPT ![p] = b]
      PROVE  Goal
  <2>1. c # p
    BY <1>a, <1>t, NotWorking, Zenon DEF TypeProcs
  <2>2. pc'[c] = pc[c] /\ job'[c] = job[c]
    BY <1>a, <1>t, <2>1, NotWorking, Zenon DEF TypeProcs
  <2> QED
    BY <2>2
<1>b. ASSUME UNCHANGED <<pc, job>> PROVE Goal
  BY <1>b
<1>1. ASSUME NEW p \in Procs, NEW w, NEW n, StopVm(p, w, n), w # "await", n # "await"
      PROVE  Goal
  BY <1>1, <1>a, Zenon DEF StopVm
<1>2. ASSUME NEW d \in Conns, Connect(d) \/ Disconnect(d) \/ Start(d) PROVE Goal
  BY <1>2, <1>a, <1>v, NotWorking, Zenon DEF Connect, Disconnect, Start
<1>3. ASSUME NEW d \in Conns, Stop(d) \/ ChatStop(d) \/ Shutdown(d) PROVE Goal
  BY <1>3, <1>1, <1>v, NotWorking, SMT DEF Stop, ChatStop, Shutdown
<1>4. ASSUME NEW d \in Conns, Boot(d) PROVE Goal
  <2>1. ASSUME HandlerDies(d) \/ StartOk(d) PROVE Goal
    BY <1>a, <1>v, <2>1, NotWorking, Zenon DEF HandlerDies, StartOk
  <2>2. HandlerDies(d) \/ StartOk(d) \/ StopVm(d, "stop_boot", "read")
    BY <1>4, Zenon DEF Boot, BootFailed, BootTimeout
  <2> QED
    BY <1>1, <2>1, <2>2, NotWorking, SMT
<1>5. ASSUME NEW p \in Procs, StopResume(p) PROVE Goal
  <2>1. AfterStop(pc[p]) # "await"
    BY <1>5, NotWorking, Zenon DEF StopResume
  <2> QED
    BY <1>5, <1>a, <2>1, Zenon DEF StopResume
<1>6. ASSUME NEW d \in Conns, Chat(d) PROVE Goal
  <2>1. CASE /\ \E v \in {"chat", "closed"} : pc' = [pc EXCEPT ![d] = v]
             /\ job' = job \/ \E b : job' = [job EXCEPT ![d] = b]
    BY <1>a, <1>v, <2>1, NotWorking, Zenon
  <2>2. CASE /\ User(d) /\ cur # 0
             /\ pc' = [pc EXCEPT ![d] = "await"] /\ job' = [job EXCEPT ![d] = cur]
    <3>1. CASE c = d
      BY <1>t, <2>2, <3>1, NotWorking, Zenon DEF TypeProcs
    <3>2. CASE c # d
      BY <1>t, <2>2, <3>2, NotWorking, Zenon DEF TypeProcs
    <3> QED
      BY <3>1, <3>2
  <2> QED
    BY <1>6, <2>1, <2>2, Zenon DEF Chat, ChatAttach, ChatRefused, User, UserLost, Receive
<1>7. ASSUME NEW g \in Gens, Deliver(g) PROVE Goal
  <2>1. Head(waiters[g]) \in Procs
    BY <1>7, <1>t, NotWorking, QueueGet, Zenon DEF Deliver, Deliverable, TypeQueues
  <2> QED
    BY <1>7, <1>a, <1>v, <2>1, Zenon DEF Deliver, Receive
<1>8. ASSUME NEW g \in Gens, Session(g) \/ Launch(g) PROVE Goal
  BY <1>8, <1>b DEF Session, Handshake, TakePrompt, Respond, Abandon, Launch, VmDies, Reap, Reaped
<1>9. CASE Signal \/ UNCHANGED vars
  BY <1>9, <1>b DEF Signal, vars
<1>10. CASE MainStop
  BY <1>10, <1>1, NotWorking, SMT DEF MainStop
<1>11. CASE MainExit
  BY <1>11, <1>a, <1>v, NotWorking, Zenon DEF MainExit
<1> HIDE DEF Goal
<1> QED
  BY <1>2, <1>3, <1>4, <1>5, <1>6, <1>7, <1>8, <1>9, <1>10, <1>11 DEF Next, Command

LEMMA BootsGrow == [Next]_vars => boots' \in {boots, boots + 1}
BY Zenon DEF Next, vars, stateVars, Connect, Disconnect, Command, Start, Stop, ChatStop, Shutdown,
             Boot, StartOk, BootFailed, BootTimeout, Chat, ChatAttach, ChatRefused, User, UserLost,
             StopResume, Deliver, Session, Handshake, TakePrompt, Respond, Abandon, Launch, VmDies,
             Reap, Reaped, Signal, MainStop, MainExit

LEMMA AwaitsBootNext == TypeInv /\ AwaitsBoot /\ [Next]_vars => AwaitsBoot'
<1> SUFFICES ASSUME TypeInv, AwaitsBoot, [Next]_vars, NEW c \in Conns, pc'[c] = "await"
             PROVE  job'[c] \in 1..boots'
  BY DEF AwaitsBoot
<1>1. job'[c] \in 1..boots
  <2>1. CASE pc[c] = "await" /\ job'[c] = job[c]
    BY <2>1 DEF AwaitsBoot
  <2>2. CASE cur # 0 /\ job'[c] = cur
    BY <2>2, SMT DEF TypeInv, TypeProcs
  <2> QED
    BY <2>1, <2>2, AwaitMoves
<1> QED
  BY <1>1, BootsGrow, SMT DEF TypeInv, TypeProcs

(* A VM is up only if it was: none but a start makes one.                  *)
LEMMA VmNotNew ==
  ASSUME TypeProcs, cur' = cur \/ cur' = 0,
         \A g \in Gens : launch[g] = "done" => launch'[g] = "done"
  PROVE  VmUp' => VmUp
  BY GensFacts, Zenon DEF VmUp

(* How a step keeps chats exclusive: it ties nobody new, starts no VM, and *)
(* clears chat_attached only when nobody is tied to a running VM.          *)
LEMMA AttachKept ==
  ASSUME AttachInv, \A d \in Conns : Tied(d)' => Tied(d), VmUp' => VmUp,
         VmUp' /\ attached => attached' \/ \A d \in Conns : ~Tied(d)'
  PROVE  OneTied' /\ TiedAttached'
<1>1. OneTied'
  BY Zenon DEF AttachInv, OneTied
<1>2. TiedAttached'
  BY SMT DEF AttachInv, TiedAttached
<1> QED
  BY <1>1, <1>2

(* Nobody is tied by a step that leaves the coroutines where they are, or  *)
(* moves one out of the attach loop, and fills at most the current queue.  *)
LEMMA TiesNobody ==
  ASSUME TypeProcs, AwaitsBoot, cur' = cur \/ cur' = 0,
         \A g \in Gens : Deliverable(g)' => Deliverable(g) \/ g = cur,
         \/ UNCHANGED <<pc, job>>
         \/ \E p \in Procs : \E v :
              /\ pc' = [pc EXCEPT ![p] = v] /\ v \notin {"chat", "await"}
              /\ \A q \in Procs \ {p} : job'[q] = job[q]
  PROVE  \A d \in Conns : Tied(d)' => Tied(d) /\ (pc' = pc \/ pc'[d] = pc[d])
<1> SUFFICES ASSUME NEW d \in Conns, Tied(d)' PROVE Tied(d) /\ (pc' = pc \/ pc'[d] = pc[d])
  OBVIOUS
<1>1. pc'[d] = pc[d] /\ job'[d] = job[d]
  <2>1. pc'[d] \in {"chat", "await"}
    BY Zenon DEF Tied
  <2>2. CASE UNCHANGED <<pc, job>>
    BY <2>2
  <2>3. CASE \E p \in Procs : \E v :
               /\ pc' = [pc EXCEPT ![p] = v] /\ v \notin {"chat", "await"}
               /\ \A q \in Procs \ {p} : job'[q] = job[q]
    BY <2>1, <2>3, NotWorking, Zenon DEF TypeProcs
  <2> QED
    BY <2>2, <2>3
<1>2. CASE pc[d] = "chat"
  BY <1>1, <1>2, Zenon DEF Tied
<1>3. CASE pc[d] = "await"
  <2>1. job[d] # 0 /\ job[d] \in Gens
    BY <1>3, BoundsAssumption, SMT DEF AwaitsBoot, TypeProcs, Gens
  <2>2. \A g \in Gens : g = job[d] => g = cur' \/ Deliverable(g)'
    BY <1>1, <1>3, SMT DEF Tied, Deliverable
  <2>3. job[d] = cur \/ Deliverable(job[d])
    BY <2>1, <2>2, Zenon
  <2> QED
    BY <1>1, <1>3, <2>3, Zenon DEF Tied
<1> QED
  BY <1>1, <1>2, <1>3, Zenon DEF Tied

LEMMA AttachNext ==
  ASSUME "overlap" \notin Allowed, "open_chat" \notin Allowed,
         TypeInv, GuestInv, WaitInv, AttachInv, [Next]_vars
  PROVE  AttachInv'
<1> DEFINE Goal == OneTied' /\ TiedAttached'
<1> USE DEF stateVars, queueVars, guestVars
<1>t. /\ TypeFlags /\ TypeQueues /\ TypeGuest /\ TypeProcs
      /\ AwaitsBoot /\ OneTied /\ TiedAttached
  BY DEF TypeInv, AttachInv
<1> SUFFICES Goal
  BY <1>t, AwaitsBootNext DEF AttachInv
<1>j. ASSUME NEW p \in Procs, NEW b, job' = job \/ job' = [job EXCEPT ![p] = b]
      PROVE  \A q \in Procs \ {p} : job'[q] = job[q]
  BY <1>j, <1>t, Zenon DEF TypeProcs
(* Only a connection that is tied, and then alone, clears chat_attached.   *)
<1>a. ASSUME NEW p \in Procs, NEW v, pc' = [pc EXCEPT ![p] = v], v \notin {"chat", "await"},
             \A q \in Procs \ {p} : job'[q] = job[q],
             cur' = cur \/ cur' = 0,
             \A g \in Gens : Deliverable(g)' => Deliverable(g) \/ g = cur,
             \A g \in Gens : launch[g] = "done" => launch'[g] = "done",
             \/ attached /\ VmUp' => attached'
             \/ p \in Conns /\ Tied(p)
      PROVE  Goal
  <2>1. \A d \in Conns : Tied(d)' => Tied(d) /\ d # p
    <3>1. \A d \in Conns : Tied(d)' => Tied(d)
      BY <1>a, <1>t, TiesNobody, Zenon
    <3>2. ~Tied(p)' \/ p \notin Conns
      BY <1>a, <1>t, Zenon DEF Tied, TypeProcs
    <3> QED
      BY <3>1, <3>2, Zenon
  <2>2. VmUp' => VmUp
    BY <1>a, <1>t, VmNotNew, Zenon
  <2>3. VmUp' /\ attached => attached' \/ \A d \in Conns : ~Tied(d)'
    BY <1>a, <1>t, <2>1, Zenon DEF OneTied
  <2> QED
    BY <2>1, <2>2, <2>3, AttachKept, Zenon
<1>b. ASSUME UNCHANGED <<pc, job, cur, attached>>,
             \A g \in Gens : Deliverable(g)' => Deliverable(g) \/ g = cur,
             \A g \in Gens : launch[g] = "done" => launch'[g] = "done"
      PROVE  Goal
  <2>1. \A d \in Conns : Tied(d)' => Tied(d)
    BY <1>b, <1>t, TiesNobody, Zenon
  <2>2. VmUp' => VmUp
    BY <1>b, <1>t, VmNotNew, Zenon
  <2> QED
    BY <1>b, <2>1, <2>2, AttachKept, SMT
<1>c. ASSUME UNCHANGED <<waiters, responses>>
      PROVE  \A g \in Gens : Deliverable(g)' => Deliverable(g) \/ g = cur
  BY <1>c, Zenon DEF Deliverable
<1>1. ASSUME NEW p \in Procs, NEW w, NEW n, StopVm(p, w, n),
             w \notin {"chat", "await"}, n \notin {"chat", "await"}, UNCHANGED waiters,
             \A g \in Gens : launch[g] = "done" => launch'[g] = "done"
      PROVE  Goal
  <2>1. \A g \in Gens : Deliverable(g)' => Deliverable(g) \/ g = cur
    <3>1. CASE cur = 0
      BY <1>1, <1>c, <3>1, Zenon DEF StopVm
    <3>2. CASE cur # 0
      <4>1. RequestStop(cur)
        BY <1>1, <3>2, Zenon DEF StopVm
      <4> QED
        BY <1>1, <1>t, <4>1, Zenon DEF RequestStop, Deliverable, TypeQueues
    <3> QED
      BY <3>1, <3>2
  <2>2. \A q \in Procs \ {p} : job'[q] = job[q]
    BY <1>1, <1>j, Zenon DEF StopVm
  <2>3. cur' = cur \/ cur' = 0
    BY <1>1, Zenon DEF StopVm
  <2>4. attached /\ VmUp' => attached'
    <3>1. ~VmUp' \/ attached' = attached
      BY <1>1, Zenon DEF StopVm, VmUp
    <3> QED
      BY <3>1, SMT
  <2>5. \E v : pc' = [pc EXCEPT ![p] = v] /\ v \notin {"chat", "await"}
    BY <1>1, Zenon DEF StopVm
  <2> QED
    BY <1>1, <1>a, <2>1, <2>2, <2>3, <2>4, <2>5, Zenon
<1>v. \A v \in {"new", "read", "closed", "closing", "exit", "boot"} : v \notin {"chat", "await"}
  OBVIOUS
<1>2. ASSUME NEW c \in Conns, Connect(c) \/ Disconnect(c) PROVE Goal
  <2>1. /\ \E v \in {"read", "closed"} : pc' = [pc EXCEPT ![c] = v]
        /\ UNCHANGED <<job, cur, launch, waiters, responses>>
    BY <1>2, Zenon DEF Connect, Disconnect
  <2>2. (attached /\ VmUp' => attached') \/ Tied(c)
    BY <1>2, <1>t, SMT DEF Connect, Disconnect, Tied, TypeFlags
  <2> QED
    BY <1>a, <1>c, <1>v, <2>1, <2>2, NotWorking, Zenon
<1>3. ASSUME NEW c \in Conns, Start(c) PROVE Goal
  <2>1. /\ \A g \in Gens : ~Deliverable(g)
        /\ \A d \in Conns \ {c} : pc[d] # "chat"
    BY <1>3, Zenon DEF Start, MayCommand, Busy
  <2>2. /\ cur' = boots + 1 /\ c \in Procs /\ pc'[c] = "boot"
        /\ \A d \in Conns \ {c} : pc'[d] = pc[d] /\ job'[d] = job[d]
    BY <1>3, <1>t, NotWorking, Zenon DEF Start, TypeProcs
  <2>3. ASSUME NEW d \in Conns PROVE ~Tied(d)'
    <3>1. CASE d = c
      BY <2>2, <3>1, SMT DEF Tied
    <3>2. CASE d # c /\ pc[d] = "await"
      <4>1. job[d] \in 1..boots /\ boots \in Nat /\ job[d] \in Gens
        BY <1>t, <3>2, BoundsAssumption, SMT DEF AwaitsBoot, TypeProcs, Gens
      <4>2. job[d] # boots + 1
        BY <4>1, SMT
      <4>3. ~Deliverable(job[d])
        BY <2>1, <4>1
      <4> QED
        BY <1>3, <2>2, <3>2, <4>2, <4>3, SMT DEF Start, Tied, Deliverable
    <3>3. CASE d # c /\ pc[d] # "await"
      BY <2>1, <2>2, <3>3, Zenon DEF Tied
    <3> QED
      BY <3>1, <3>2, <3>3
  <2> QED
    BY <2>3, Zenon DEF OneTied, TiedAttached
<1>4. ASSUME NEW c \in Conns, Stop(c) \/ ChatStop(c) \/ Shutdown(c) PROVE Goal
  <2>1. UNCHANGED <<waiters, launch>>
    BY <1>4, Zenon DEF Stop, ChatStop, Shutdown
  <2> QED
    BY <1>1, <1>4, <1>v, <2>1, NotWorking, SMT DEF Stop, ChatStop, Shutdown
<1>5. ASSUME NEW c \in Conns, Boot(c) PROVE Goal
  <2>1. UNCHANGED waiters /\ c \in Procs
    BY <1>5, NotWorking, Zenon DEF Boot, StartOk, BootFailed, BootTimeout
  <2>2. \A g \in Gens : launch[g] = "done" => launch'[g] = "done"
    BY <1>5, <1>t, GensFacts, Zenon DEF Boot, StartOk, BootFailed, BootTimeout, Cancel, TypeGuest
  <2>3. ASSUME HandlerDies(c) \/ StartOk(c) PROVE Goal
    <3>1. /\ \E v \in {"read", "closed"} : pc' = [pc EXCEPT ![c] = v]
          /\ UNCHANGED <<cur, attached, responses>> /\ job' = [job EXCEPT ![c] = 0]
      BY <2>3, Zenon DEF HandlerDies, StartOk
    <3>2. attached /\ VmUp' => attached'
      BY <3>1
    <3> QED
      BY <1>a, <1>c, <1>j, <1>v, <2>1, <2>2, <3>1, <3>2, Zenon
  <2>4. HandlerDies(c) \/ StartOk(c) \/ StopVm(c, "stop_boot", "read")
    BY <1>5, Zenon DEF Boot, BootFailed, BootTimeout
  <2> QED
    BY <1>1, <2>1, <2>2, <2>3, <2>4, NotWorking, SMT
<1>6. ASSUME NEW p \in Procs, StopResume(p) PROVE Goal
  <2>1. AfterStop(pc[p]) \notin {"chat", "await"} /\ cur' = 0 /\ ~VmUp'
    BY <1>6, NotWorking, Zenon DEF StopResume, VmUp
  <2>2. UNCHANGED <<waiters, responses, launch>>
    BY <1>6, Zenon DEF StopResume
  <2> QED
    BY <1>6, <1>a, <1>c, <1>j, <2>1, <2>2, Zenon DEF StopResume
<1>7. ASSUME NEW c \in Conns, Chat(c) PROVE Goal
  <2>1. CASE ChatAttach(c)
    <3>1. \A d \in Conns : ~Tied(d)
      BY <1>t, <2>1, Zenon DEF ChatAttach, CanAttach, TiedAttached
    <3>2. \A d \in Conns \ {c} : ~Tied(d)'
      BY <1>t, <2>1, <3>1, NotWorking, Zenon DEF ChatAttach, Tied, Deliverable, TypeProcs
    <3> QED
      BY <2>1, <3>2, Zenon DEF ChatAttach, OneTied, TiedAttached
  <2>2. CASE ChatRefused(c)
    BY <2>2, <1>a, <1>c, <1>v, NotWorking, Zenon DEF ChatRefused
  <2>3. CASE UserLost(c)
    <3>1. Tied(c)
      BY <2>3 DEF UserLost, Tied
    <3> QED
      BY <2>3, <3>1, <1>a, <1>c, <1>v, NotWorking, Zenon DEF UserLost
  <2>4. CASE User(c)
    <3>1. Tied(c) /\ c \in Procs /\ cur \in Gens
      BY <1>t, <2>4, GensFacts, NotWorking, Zenon DEF User, Tied
    <3>2. \A g \in Gens : Deliverable(g)' => Deliverable(g) \/ g = cur
      BY <1>t, <2>4, Zenon DEF User, Deliverable, TypeQueues
    <3>3. \A q \in Procs \ {c} : job'[q] = job[q]
      BY <1>j, <2>4, <3>1, Zenon DEF User, Receive
    <3>4. CASE pc' = [pc EXCEPT ![c] = "closed"]
      BY <1>a, <1>v, <2>4, <3>1, <3>2, <3>3, <3>4, Zenon DEF User
    <3>5. CASE pc' # [pc EXCEPT ![c] = "closed"]
      <4>1. attached => attached'
        <5>1. CASE attached' = attached
          BY <5>1
        <5>2. CASE Receive(c, Head(responses[cur]))
          <6>1. Head(responses[cur]) # None
            BY <3>5, <5>2, Zenon DEF Receive
          <6> QED
            BY <5>2, <6>1, Zenon DEF Receive
        <5> QED
          BY <2>4, <5>1, <5>2, Zenon DEF User
      <4>2. \A q \in Conns \ {c} : pc'[q] = pc[q] /\ job'[q] = job[q]
        BY <1>t, <2>4, <3>1, <3>3, NotWorking, Zenon DEF User, Receive, TypeProcs
      <4>3. \A d \in Conns \ {c} : Tied(d)' => Tied(d)
        <5> SUFFICES ASSUME NEW d \in Conns \ {c}, Tied(d)' PROVE Tied(d)
          OBVIOUS
        <5>1. CASE pc[d] = "await"
          <6>1. job[d] \in Gens
            BY <1>t, <5>1, BoundsAssumption, SMT DEF AwaitsBoot, TypeProcs, Gens
          <6>2. \A g \in Gens : g = job[d] => g = cur' \/ Deliverable(g)'
            BY <4>2, <5>1, SMT DEF Tied, Deliverable
          <6>3. job[d] = cur \/ Deliverable(job[d])
            BY <2>4, <3>2, <6>1, <6>2, Zenon DEF User
          <6> QED
            BY <5>1, <6>3 DEF Tied
        <5> QED
          BY <4>2, <5>1, Zenon DEF Tied
      <4>4. \A d \in Conns : Tied(d)' => Tied(d)
        BY <3>1, <4>3, Zenon
      <4>5. VmUp' => VmUp
        BY <2>4, SMT DEF User, VmUp
      <4> QED
        BY <4>1, <4>4, <4>5, AttachKept, Zenon
    <3> QED
      BY <3>4, <3>5
  <2> QED
    BY <1>7, <2>1, <2>2, <2>3, <2>4 DEF Chat
<1>8. ASSUME NEW g \in Gens, Deliver(g) PROVE Goal
  <2> DEFINE d == Head(waiters[g])
  <2>1. /\ d \in Conns /\ d = waiters[g][1] /\ 1 \in 1..Len(waiters[g])
    BY <1>8, <1>t, SMT DEF Deliver, Deliverable, TypeQueues
  <2>2. pc[d] = "await" /\ job[d] = g
    BY <2>1, SMT DEF WaitInv, WaitersWait
  <2>3. Tied(d) /\ d \in Procs
    BY <1>8, <2>1, <2>2, NotWorking, Zenon DEF Deliver, Tied
  <2>4. \A h \in Gens : Deliverable(h)' => Deliverable(h)
    BY <1>8, <1>t, Zenon DEF Deliver, Deliverable, TypeQueues
  <2>5. /\ \A q \in Procs \ {d} : job'[q] = job[q]
        /\ \E v \in {"chat", "closed"} : pc' = [pc EXCEPT ![d] = v]
        /\ pc' = [pc EXCEPT ![d] = "closed"] \/ (attached => attached')
    BY <1>8, <1>j, <2>3, Zenon DEF Deliver, Receive
  <2>6. UNCHANGED <<cur, launch>>
    BY <1>8 DEF Deliver
  <2> HIDE DEF d
  <2>7. CASE pc' = [pc EXCEPT ![d] = "closed"]
    BY <1>a, <1>v, <2>1, <2>3, <2>4, <2>5, <2>6, <2>7, Zenon
  <2>8. CASE attached => attached'
    <3>1. \A q \in Conns \ {d} : pc'[q] = pc[q] /\ job'[q] = job[q]
      BY <1>t, <2>3, <2>5, NotWorking, Zenon DEF TypeProcs
    <3>2. \A q \in Conns \ {d} : Tied(q)' => Tied(q)
      <4> SUFFICES ASSUME NEW q \in Conns \ {d}, Tied(q)' PROVE Tied(q)
        OBVIOUS
      <4>1. CASE pc[q] = "await"
        <5>1. job[q] \in Gens
          BY <1>t, <4>1, BoundsAssumption, SMT DEF AwaitsBoot, TypeProcs, Gens
        <5>2. \A h \in Gens : h = job[q] => h = cur' \/ Deliverable(h)'
          BY <3>1, <4>1, SMT DEF Tied, Deliverable
        <5>3. job[q] = cur \/ Deliverable(job[q])
          BY <2>4, <2>6, <5>1, <5>2, Zenon
        <5> QED
          BY <4>1, <5>3 DEF Tied
      <4> QED
        BY <3>1, <4>1, Zenon DEF Tied
    <3>3. VmUp' => VmUp
      BY <2>6, SMT DEF VmUp
    <3>4. \A q \in Conns : Tied(q)' => Tied(q)
      BY <2>3, <3>2, Zenon
    <3> QED
      BY <2>8, <3>3, <3>4, AttachKept, Zenon
  <2> QED
    BY <2>5, <2>7, <2>8
<1>9. ASSUME NEW g \in Gens, Session(g) PROVE Goal
  <2>1. UNCHANGED <<pc, job, cur, attached, launch, waiters>>
    BY <1>9, Zenon DEF Session, Handshake, TakePrompt, Respond, Abandon
  <2>2. \A h \in Gens : Deliverable(h)' => Deliverable(h) \/ h = cur
    <3>1. CASE Respond(g)
      <4>1. g = cur
        BY <3>1, SMT DEF Respond, GuestInv, ReadyGuest, SessionKnown, OneGuest
      <4> QED
        BY <1>t, <3>1, <4>1, Zenon DEF Respond, PutResponse, Deliverable, TypeQueues
    <3>2. CASE ~Respond(g)
      BY <1>9, <1>c, <2>1, <3>2, Zenon DEF Session, Handshake, TakePrompt, Abandon
    <3> QED
      BY <3>1, <3>2
  <2> QED
    BY <1>b, <2>1, <2>2, Zenon
<1>10. ASSUME NEW g \in Gens, Launch(g) PROVE Goal
  <2>1. UNCHANGED <<pc, job, cur, attached, responses, waiters>>
    BY <1>10, Zenon DEF Launch, VmDies, Reap, Reaped
  <2>2. \A h \in Gens : launch[h] = "done" => launch'[h] = "done"
    BY <1>10, <1>t, Zenon DEF Launch, VmDies, Reap, Reaped, TypeGuest
  <2> QED
    BY <1>b, <1>c, <2>1, <2>2, Zenon
<1>11. CASE Signal \/ UNCHANGED vars
  BY <1>11, <1>b, <1>c, Zenon DEF Signal, vars
<1>12. CASE MainStop
  BY <1>12, <1>1, <1>v, NotWorking, SMT DEF MainStop
<1>13. CASE MainExit
  <2>1. /\ pc' = [pc EXCEPT ![Main] = "exit"]
        /\ UNCHANGED <<job, cur, attached, launch, responses, waiters>>
    BY <1>13 DEF MainExit
  <2>2. attached /\ VmUp' => attached'
    BY <2>1
  <2> QED
    BY <1>a, <1>c, <1>v, <2>1, <2>2, NotWorking, Zenon
<1> HIDE DEF Goal
<1> QED
  BY <1>2, <1>3, <1>4, <1>5, <1>6, <1>7, <1>8, <1>9, <1>10, <1>11, <1>12, <1>13 DEF Next, Command

(* While commands neither overlap nor cut into an open chat, no two        *)
(* connections are ever coupled to one VM, and chat_attached is set while  *)
(* one is: also when a chat attaches or types in the middle of a stop.     *)
THEOREM AttachIsExclusive ==
  ASSUME "overlap" \notin Allowed, "open_chat" \notin Allowed
  PROVE  Spec => []ExclusiveAttach
<1>1. Init => TypeInv /\ GuestInv /\ WaitInv /\ AttachInv
  <2>1. Init => AttachInv
    BY ConnsAssumption, SMT
       DEF Init, AttachInv, AwaitsBoot, OneTied, TiedAttached, Tied, VmUp, Procs
  <2> QED
    BY <2>1, TypeInit, GuestInvInit, WaitInit
<1>2. TypeInv /\ GuestInv /\ WaitInv /\ AttachInv /\ [Next]_vars
        => TypeInv' /\ GuestInv' /\ WaitInv' /\ AttachInv'
  BY TypeNext, OneCommandNext, OneGuestNext, ReadyGuestNext, BootNext, WaitNext, AttachNext
     DEF GuestInv
<1>3. AttachInv => ExclusiveAttach
  <2>1. \A c \in Coupled(cur) : c \in Conns /\ Tied(c)
    BY SMT DEF Coupled, Tied
  <2> QED
    BY <2>1, Zenon DEF AttachInv, OneTied, TiedAttached, ExclusiveAttach
<1> QED
  BY <1>1, <1>2, <1>3, PTL DEF Spec

-----------------------------------------------------------------------------
(* Replies.  With orderly clients a prompt passes from the queue to the    *)
(* session and back as a response alone, while the chat that sent it       *)
(* waits; until a stop, which lets the chat go first and the response come *)
(* after it, to a queue that nobody reads again.                           *)

(* c sent something of boot g that is still under way.                     *)
Named(g, c) == Has(prompts[g], c) \/ query[g] = c \/ Has(responses[g], c)

(* A boot that was asked to stop is current only while a stop awaits it.   *)
StopKnown ==
  /\ \A g \in Gens : stop[g] /\ cur = g => \E p \in Procs : pc[p] \in Stopping
  /\ \A g \in Gens : stop[g] => g <= boots

TurnHasQuery == \A g \in Gens : sess[g] = "turn" => query[g] # None

(* At most one waits, and what is under way is its own.                    *)
OneWaits(g) ==
  /\ Len(waiters[g]) <= 1
  /\ waiters[g] # <<>> => \A c \in Conns : Named(g, c) => c = Head(waiters[g])

(* Before the stop, what is under way is one thing that somebody awaits.   *)
OnePrompt(q) == \A i, j \in DOMAIN q : q[i] \in Conns /\ q[j] \in Conns => i = j
NoPrompt(q) == \A c \in Conns : ~Has(q, c)

OneAwaited(g) ==
  ~stop[g] =>
    /\ waiters[g] = <<>> => \A c \in Conns : ~Named(g, c)
    /\ ~Has(responses[g], None) /\ Len(responses[g]) <= 1
    /\ responses[g] # <<>> => query[g] = None /\ NoPrompt(prompts[g])
    /\ query[g] # None => NoPrompt(prompts[g])
    /\ OnePrompt(prompts[g])

ReplyInv ==
  /\ StopKnown
  /\ TurnHasQuery
  /\ \A g \in Gens : OneWaits(g) /\ OneAwaited(g)

LEMMA StopKnownNext ==
  ASSUME TypeInv, WaitInv, StopKnown, [Next]_vars
  PROVE  StopKnown'
<1> USE DEF stateVars
<1>t. TypeProcs /\ TypeFlags /\ TypeQueues
  BY DEF TypeInv
<1>z. 0 \notin Gens
  BY BoundsAssumption, SMT DEF Gens
<1>s. /\ {"new", "read", "chat", "await", "closed", "serve", "closing", "boot"} \cap Stopping = {}
      /\ {"stop", "stop_shutdown", "stop_boot", "stop_chat", "stop_main"} \subseteq Stopping
  BY SMT DEF Stopping
<1>a. ASSUME NEW p \in Procs, NEW v, pc[p] \notin Stopping, pc' = [pc EXCEPT ![p] = v],
             UNCHANGED <<boots, cur, stop>>
      PROVE  StopKnown'
  BY <1>a, <1>t, Zenon DEF StopKnown, TypeProcs
<1>b. ASSUME UNCHANGED <<boots, cur, stop, pc>> PROVE StopKnown'
  BY <1>b DEF StopKnown
<1>1. ASSUME NEW p \in Procs, NEW w \in Stopping, NEW n, StopVm(p, w, n), pc[p] \notin Stopping,
             UNCHANGED boots
      PROVE  StopKnown'
  <2>1. CASE cur = 0
    BY <1>1, <1>a, <2>1, <1>z, Zenon DEF StopVm, StopKnown
  <2>2. CASE cur # 0
    <3>1. cur \in Gens /\ stop' = [stop EXCEPT ![cur] = TRUE]
      BY <1>1, <1>t, <2>2, GensFacts, Zenon DEF StopVm, RequestStop
    <3>2. \A g \in Gens : stop'[g] => g <= boots'
      BY <1>1, <1>t, <3>1, SMT DEF TypeProcs, TypeFlags, StopKnown
    <3>3. cur' = 0 \/ pc' = [pc EXCEPT ![p] = w]
      BY <1>1, <2>2, Zenon DEF StopVm
    <3>4. \A g \in Gens : stop'[g] /\ cur' = g => \E q \in Procs : pc'[q] \in Stopping
      BY <1>1, <1>t, <1>z, <3>3, Zenon DEF TypeProcs
    <3> QED
      BY <3>2, <3>4 DEF StopKnown
  <2> QED
    BY <2>1, <2>2
<1>2. ASSUME NEW c \in Conns, Connect(c) \/ Disconnect(c) PROVE StopKnown'
  BY <1>2, <1>a, <1>s, NotWorking, Zenon DEF Connect, Disconnect
<1>3. ASSUME NEW c \in Conns, Start(c) PROVE StopKnown'
  <2>1. boots' = boots + 1 /\ cur' = boots + 1 /\ stop' = stop
    BY <1>3, Zenon DEF Start
  <2>2. \A g \in Gens : stop[g] => g <= boots
    BY DEF StopKnown
  <2>3. \A g \in Gens : stop'[g] => g # cur' /\ g <= boots'
    BY <1>t, <2>1, <2>2, SMT DEF TypeProcs, Gens
  <2> QED
    BY <2>3, Zenon DEF StopKnown
<1>4. ASSUME NEW c \in Conns, Stop(c) \/ ChatStop(c) \/ Shutdown(c) PROVE StopKnown'
  BY <1>4, <1>1, <1>s, NotWorking, Zenon DEF Stop, ChatStop, Shutdown
<1>5. ASSUME NEW c \in Conns, Boot(c) PROVE StopKnown'
  BY <1>5, <1>1, <1>a, <1>s, NotWorking, Zenon
     DEF Boot, StartOk, BootFailed, BootTimeout, HandlerDies
<1>6. ASSUME NEW c \in Conns, Chat(c) PROVE StopKnown'
  BY <1>6, <1>a, <1>s, NotWorking, Zenon
     DEF Chat, ChatAttach, ChatRefused, User, UserLost, Receive
<1>7. ASSUME NEW p \in Procs, StopResume(p) PROVE StopKnown'
  BY <1>7, <1>z, Zenon DEF StopResume, StopKnown
<1>8. ASSUME NEW g \in Gens, Deliver(g) PROVE StopKnown'
  <2>1. Head(waiters[g]) \in Procs /\ pc[Head(waiters[g])] = "await"
    BY <1>8, <1>t, NotWorking, SMT
       DEF Deliver, Deliverable, WaitInv, WaitersWait, TypeQueues
  <2> QED
    BY <1>8, <1>a, <1>s, <2>1, Zenon DEF Deliver, Receive
<1>9. ASSUME NEW g \in Gens, Session(g) \/ Launch(g) PROVE StopKnown'
  BY <1>9, <1>b DEF Session, Handshake, TakePrompt, Respond, Abandon, Launch, VmDies, Reap, Reaped
<1>10. CASE Signal \/ UNCHANGED vars
  BY <1>10, <1>b DEF Signal, vars
<1>11. CASE MainStop
  BY <1>11, <1>1, <1>s, NotWorking, Zenon DEF MainStop
<1>12. CASE MainExit
  BY <1>12, <1>a, <1>s, NotWorking, Zenon DEF MainExit
<1> QED
  BY <1>2, <1>3, <1>4, <1>5, <1>6, <1>7, <1>8, <1>9, <1>10, <1>11, <1>12 DEF Next, Command

LEMMA TurnHasQueryNext == TypeInv /\ TurnHasQuery /\ [Next]_vars => TurnHasQuery'
<1> SUFFICES ASSUME TypeGuest, TurnHasQuery, [Next]_vars PROVE TurnHasQuery'
  BY DEF TypeInv
<1> USE DEF guestVars
<1>a. ASSUME UNCHANGED <<sess, query>> PROVE TurnHasQuery'
  BY <1>a DEF TurnHasQuery
<1>1. ASSUME NEW c \in Conns, Connect(c) \/ Disconnect(c) \/ Command(c) \/ Boot(c) \/ Chat(c)
      PROVE  TurnHasQuery'
  BY <1>1, <1>a DEF Connect, Disconnect, Command, Start, Stop, ChatStop, Shutdown, Boot,
                    StartOk, BootFailed, BootTimeout, Chat, ChatAttach, ChatRefused, User, UserLost
<1>2. ASSUME NEW g \in Gens, Session(g) PROVE TurnHasQuery'
  BY <1>2, Zenon DEF Session, Handshake, TakePrompt, Respond, Abandon, AwaitPrompt, TurnHasQuery,
                     TypeGuest
<1>3. ASSUME NEW g \in Gens, Launch(g) PROVE TurnHasQuery'
  BY <1>3, Zenon DEF Launch, VmDies, Reap, Reaped, TurnHasQuery, TypeGuest
<1>4. ASSUME NEW p \in Procs, StopResume(p) PROVE TurnHasQuery'
  BY <1>4, <1>a DEF StopResume
<1>5. ASSUME NEW g \in Gens, Deliver(g) PROVE TurnHasQuery'
  BY <1>5, <1>a DEF Deliver
<1>6. CASE Signal \/ MainStop \/ MainExit \/ UNCHANGED vars
  BY <1>6, <1>a DEF Signal, MainStop, MainExit, vars
<1> QED
  BY <1>1, <1>2, <1>3, <1>4, <1>5, <1>6 DEF Next

(* What a queue has after a put or a get.                                  *)
LEMMA HasAfterPut ==
  ASSUME NEW S, NEW q \in Seq(S), NEW v, NEW x, Has(Append(q, v), x)
  PROVE  Has(q, x) \/ v = x
<1>1. PICK i \in DOMAIN Append(q, v) : Append(q, v)[i] = x
  BY DEF Has
<1>2. CASE i \in DOMAIN q
  <2>1. q[i] = x
    BY <1>1, <1>2, SMT
  <2> QED
    BY <1>2, <2>1 DEF Has
<1>3. CASE i \notin DOMAIN q
  BY <1>1, <1>3, SMT
<1> QED
  BY <1>2, <1>3

LEMMA HasBeforeGet ==
  ASSUME NEW S, NEW q \in Seq(S), q # <<>>, NEW x
  PROVE  Has(q, Head(q)) /\ (Has(Tail(q), x) => Has(q, x))
<1>1. Has(q, Head(q))
  <2>1. 1 \in DOMAIN q /\ q[1] = Head(q)
    BY SMT
  <2> QED
    BY <2>1 DEF Has
<1>2. ASSUME Has(Tail(q), x) PROVE Has(q, x)
  <2>1. PICK i \in DOMAIN Tail(q) : Tail(q)[i] = x
    BY <1>2 DEF Has
  <2>2. i + 1 \in DOMAIN q /\ q[i + 1] = x
    BY <2>1, SMT
  <2> QED
    BY <2>2 DEF Has
<1> QED
  BY <1>1, <1>2

LEMMA OnePromptPut ==
  ASSUME NEW q \in Seq(Conns \cup {None}), NEW v, OnePrompt(q), v \in Conns => NoPrompt(q)
  PROVE  OnePrompt(Append(q, v))
<1> SUFFICES ASSUME NEW i \in DOMAIN Append(q, v), NEW j \in DOMAIN Append(q, v),
                    Append(q, v)[i] \in Conns, Append(q, v)[j] \in Conns
             PROVE  i = j
  BY DEF OnePrompt
<1>1. CASE v \in Conns
  <2>1. \A k \in DOMAIN q : q[k] \notin Conns
    BY <1>1, Zenon DEF NoPrompt, Has
  <2> QED
    BY <2>1, SMT
<1>2. CASE v \notin Conns
  <2>1. i \in DOMAIN q /\ j \in DOMAIN q /\ q[i] \in Conns /\ q[j] \in Conns
    BY <1>2, SMT
  <2> QED
    BY <2>1 DEF OnePrompt
<1> QED
  BY <1>1, <1>2

LEMMA OnePromptGet ==
  ASSUME NEW q \in Seq(Conns \cup {None}), q # <<>>, OnePrompt(q)
  PROVE  OnePrompt(Tail(q)) /\ (Head(q) \in Conns => NoPrompt(Tail(q)))
<1>1. \A i \in DOMAIN Tail(q) : i + 1 \in DOMAIN q /\ q[i + 1] = Tail(q)[i] /\ i + 1 # 1
  BY SMT
<1>2. 1 \in DOMAIN q /\ q[1] = Head(q)
  BY SMT
<1>3. OnePrompt(Tail(q))
  <2> SUFFICES ASSUME NEW i \in DOMAIN Tail(q), NEW j \in DOMAIN Tail(q),
                      Tail(q)[i] \in Conns, Tail(q)[j] \in Conns
               PROVE  i = j
    BY DEF OnePrompt
  <2>1. i + 1 = j + 1
    BY <1>1 DEF OnePrompt
  <2>2. i \in Nat /\ j \in Nat
    BY SMT
  <2> QED
    BY <2>1, <2>2, SMT
<1>4. ASSUME Head(q) \in Conns PROVE NoPrompt(Tail(q))
  BY <1>1, <1>2, <1>4 DEF OnePrompt, NoPrompt, Has
<1> QED
  BY <1>3, <1>4

(* What a user frame finds: a boot that nobody stops, and empty queues.    *)
LEMMA UserFinds ==
  ASSUME Allowed = {}, TypeInv, WaitInv, AttachInv, ReplyInv, NEW c \in Conns, User(c)
  PROVE  /\ cur \in Gens /\ ~stop[cur] /\ waiters[cur] = <<>> /\ responses[cur] = <<>>
         /\ query[cur] = None /\ NoPrompt(prompts[cur]) /\ OnePrompt(prompts[cur])
<1>t. TypeQueues /\ TypeProcs /\ TypeGuest
  BY DEF TypeInv
<1>1. cur \in Gens /\ pc[c] = "chat"
  BY <1>t, GensFacts DEF User
<1>2. ~stop[cur]
  <2>1. \A p \in Procs : pc[p] \notin Stopping
    BY Zenon DEF User, MayChat, Busy, Working
  <2> QED
    BY <1>1, <2>1, Zenon DEF ReplyInv, StopKnown
<1>3. waiters[cur] = <<>>
  <2> SUFFICES ASSUME waiters[cur] # <<>> PROVE FALSE
    OBVIOUS
  <2>1. /\ waiters[cur][1] \in Conns
        /\ pc[waiters[cur][1]] = "await" /\ job[waiters[cur][1]] = cur
    BY <1>t, <1>1, SMT DEF TypeQueues, WaitInv, WaitersWait
  <2>2. Tied(c) /\ Tied(waiters[cur][1])
    BY <1>1, <2>1, Zenon DEF Tied
  <2>3. c = waiters[cur][1]
    BY <2>1, <2>2, Zenon DEF AttachInv, OneTied
  <2> QED
    BY <1>1, <2>1, <2>3, SMT
<1>4. /\ \A d \in Conns : ~Named(cur, d)
      /\ ~Has(responses[cur], None) /\ OnePrompt(prompts[cur])
  BY <1>1, <1>2, <1>3, Zenon DEF ReplyInv, OneAwaited
<1>5. responses[cur] = <<>>
  <2> SUFFICES ASSUME responses[cur] # <<>> PROVE FALSE
    OBVIOUS
  <2>1. responses[cur] \in Seq(Conns \cup {None}) /\ Head(responses[cur]) \in Conns \cup {None}
    BY <1>t, <1>1, QueueGet DEF TypeQueues
  <2>2. Has(responses[cur], Head(responses[cur]))
    BY <2>1, HasBeforeGet
  <2> QED
    BY <1>4, <2>1, <2>2, Zenon DEF Named
<1>6. query[cur] = None /\ NoPrompt(prompts[cur])
  BY <1>t, <1>1, <1>4, Zenon DEF Named, NoPrompt, TypeGuest
<1> QED
  BY <1>1, <1>2, <1>3, <1>4, <1>5, <1>6

LEMMA QueuesKept ==
  ASSUME Allowed = {}, TypeInv, GuestInv, WaitInv, AttachInv, ReplyInv, [Next]_vars
  PROVE  \A g \in Gens : OneWaits(g)' /\ OneAwaited(g)'
<1> DEFINE Goal(g) == OneWaits(g)' /\ OneAwaited(g)'
<1> SUFFICES ASSUME NEW h \in Gens PROVE Goal(h)
  OBVIOUS
<1> USE DEF stateVars, queueVars, guestVars
<1>t. TypeFlags /\ TypeQueues /\ TypeGuest /\ TypeProcs
  BY DEF TypeInv
<1>h. OneWaits(h) /\ OneAwaited(h)
  BY DEF ReplyInv
<1>n. \A c \in Conns : c # None
  BY ConnsAssumption
<1>a. ASSUME UNCHANGED <<stop[h], prompts[h], responses[h], waiters[h], query[h]>> PROVE Goal(h)
  BY <1>a, <1>h, SMT DEF OneWaits, OneAwaited, Named
(* Nothing new is under way for the one who waits.                         *)
<1>b. ASSUME waiters'[h] = waiters[h], \A c \in Conns : Named(h, c)' => Named(h, c)
      PROVE  OneWaits(h)'
  BY <1>b, <1>h, SMT DEF OneWaits
<1>1. ASSUME NEW p, NEW w, NEW n, StopVm(p, w, n), UNCHANGED <<waiters, query>> PROVE Goal(h)
  <2>1. CASE cur = 0
    BY <1>1, <1>a, <2>1, Zenon DEF StopVm
  <2>2. CASE cur # 0
    <3>1. RequestStop(cur) /\ cur \in Gens
      BY <1>1, <1>t, <2>2, GensFacts, Zenon DEF StopVm
    <3>2. CASE h # cur
      BY <1>1, <1>a, <1>t, <3>1, <3>2, Zenon DEF RequestStop, TypeQueues, TypeFlags
    <3>3. CASE h = cur
      <4>1. /\ prompts'[h] = Append(prompts[h], None) /\ responses'[h] = Append(responses[h], None)
            /\ stop'[h] /\ query'[h] = query[h]
            /\ prompts[h] \in Seq(Conns \cup {None}) /\ responses[h] \in Seq(Conns \cup {None})
        BY <1>1, <1>t, <3>1, <3>3, Zenon DEF RequestStop, TypeQueues, TypeFlags
      <4>2. \A c \in Conns : Named(h, c)' => Named(h, c)
        BY <1>n, <4>1, HasAfterPut, Zenon DEF Named
      <4> QED
        BY <1>1, <1>b, <4>1, <4>2, Zenon DEF OneAwaited
    <3> QED
      BY <3>2, <3>3
  <2> QED
    BY <2>1, <2>2
<1>2. ASSUME NEW c \in Conns, Connect(c) \/ Disconnect(c) \/ Start(c) PROVE Goal(h)
  BY <1>2, <1>a DEF Connect, Disconnect, Start
<1>3. ASSUME NEW c \in Conns, Stop(c) \/ ChatStop(c) \/ Shutdown(c) PROVE Goal(h)
  BY <1>3, <1>1 DEF Stop, ChatStop, Shutdown
<1>4. ASSUME NEW c \in Conns, Boot(c) PROVE Goal(h)
  <2>1. CASE StopVm(c, "stop_boot", "read")
    BY <1>4, <1>1, <2>1, Zenon DEF Boot, StartOk, BootFailed, BootTimeout
  <2>2. CASE ~StopVm(c, "stop_boot", "read")
    BY <1>4, <1>a, <2>2, Zenon DEF Boot, StartOk, BootFailed, BootTimeout, HandlerDies
  <2> QED
    BY <2>1, <2>2
<1>5. ASSUME NEW c \in Conns, User(c) PROVE Goal(h)
  <2>1. /\ cur \in Gens /\ ~stop[cur] /\ waiters[cur] = <<>> /\ responses[cur] = <<>>
        /\ query[cur] = None /\ NoPrompt(prompts[cur]) /\ OnePrompt(prompts[cur])
    BY <1>5, UserFinds
  <2>2. /\ prompts' = [prompts EXCEPT ![cur] = Append(@, c)]
        /\ waiters' = [waiters EXCEPT ![cur] = Append(@, c)]
        /\ UNCHANGED <<responses, query, stop>>
    BY <1>5, <2>1, Zenon DEF User
  <2>3. CASE h # cur
    BY <1>a, <1>t, <2>1, <2>2, <2>3, Zenon DEF TypeQueues
  <2>4. CASE h = cur
    <3>1. /\ prompts[h] \in Seq(Conns \cup {None}) /\ prompts'[h] = Append(prompts[h], c)
          /\ waiters'[h] = Append(<<>>, c) /\ responses'[h] = <<>> /\ query'[h] = None
      BY <1>t, <2>1, <2>2, <2>4, Zenon DEF TypeQueues
    <3>2. /\ waiters'[h] # <<>> /\ Len(waiters'[h]) <= 1 /\ Head(waiters'[h]) = c
          /\ Len(responses'[h]) <= 1 /\ \A x : ~Has(responses'[h], x)
      BY <3>1, SMT DEF Has
    <3>p. \A x : Has(prompts'[h], x) => Has(prompts[h], x) \/ x = c
      BY <3>1, HasAfterPut
    <3>3. \A d \in Conns : Named(h, d)' => d = c
      BY <1>n, <2>1, <2>4, <3>1, <3>2, <3>p, Zenon DEF Named, NoPrompt
    <3>4. OnePrompt(prompts'[h])
      BY <2>1, <2>4, <3>1, OnePromptPut
    <3> QED
      BY <3>1, <3>2, <3>3, <3>4, Zenon DEF OneWaits, OneAwaited
  <2> QED
    BY <2>3, <2>4
<1>6. ASSUME NEW c \in Conns, Chat(c), ~User(c) PROVE Goal(h)
  BY <1>6, <1>a DEF Chat, ChatAttach, ChatRefused, UserLost
<1>7. ASSUME NEW p \in Procs, StopResume(p) PROVE Goal(h)
  BY <1>7, <1>a DEF StopResume
<1>8. ASSUME NEW g \in Gens, Deliver(g) PROVE Goal(h)
  <2>1. CASE h # g
    BY <1>8, <1>a, <1>t, <2>1, Zenon DEF Deliver, TypeQueues
  <2>2. CASE h = g
    <3>1. /\ waiters[h] \in Seq(Conns) /\ waiters[h] # <<>> /\ waiters'[h] = Tail(waiters[h])
          /\ responses[h] \in Seq(Conns \cup {None}) /\ responses[h] # <<>>
          /\ responses'[h] = Tail(responses[h])
          /\ UNCHANGED <<stop, prompts, query>>
      BY <1>8, <1>t, <2>2, Zenon DEF Deliver, Deliverable, TypeQueues
    <3>2. waiters'[h] = <<>> /\ Len(waiters'[h]) <= 1
      BY <1>h, <3>1, SMT DEF OneWaits
    <3>3. OneAwaited(h)'
      <4> SUFFICES ASSUME ~stop[h] PROVE OneAwaited(h)'
        BY <3>1, Zenon DEF OneAwaited
      <4>1. /\ Len(responses[h]) <= 1 /\ query[h] = None
            /\ NoPrompt(prompts[h]) /\ OnePrompt(prompts[h])
        BY <1>h, <3>1, Zenon DEF OneAwaited
      <4>2. responses'[h] = <<>> /\ Len(responses'[h]) <= 1 /\ \A x : ~Has(responses'[h], x)
        BY <3>1, <4>1, SMT DEF Has
      <4>3. \A d \in Conns : ~Named(h, d)'
        BY <1>n, <3>1, <4>1, <4>2, Zenon DEF Named, NoPrompt
      <4> QED
        BY <3>1, <4>1, <4>2, <4>3, Zenon DEF OneAwaited
    <3> QED
      BY <3>2, <3>3, Zenon DEF OneWaits
  <2> QED
    BY <2>1, <2>2
<1>9. ASSUME NEW g \in Gens, Session(g), h # g PROVE Goal(h)
  <2>1. UNCHANGED <<stop[h], prompts[h], responses[h], waiters[h], query[h]>>
    BY <1>9, <1>t, Zenon DEF Session, Handshake, TakePrompt, Respond, PutResponse, Abandon,
                             TypeQueues, TypeGuest
  <2> QED
    BY <1>a, <2>1
<1>10. CASE TakePrompt(h)
  <2> DEFINE q == prompts[h]
  <2>1. /\ q \in Seq(Conns \cup {None}) /\ q # <<>> /\ prompts'[h] = Tail(q)
        /\ UNCHANGED <<stop, responses, waiters>>
    BY <1>10, <1>t, Zenon DEF TakePrompt, TypeQueues
  <2>2. Head(q) \in Conns \cup {None}
    BY <1>t, <2>1, QueueGet, Zenon DEF TypeQueues
  <2>3. \/ Head(q) = None /\ query'[h] = query[h]
        \/ Head(q) \in Conns /\ (query'[h] = Head(q) \/ query'[h] = query[h])
    BY <1>10, <1>t, <2>2, Zenon DEF TakePrompt, TypeGuest
  <2> HIDE DEF q
  <2>4. Has(q, Head(q)) /\ \A x : Has(Tail(q), x) => Has(q, x)
    BY <2>1, HasBeforeGet
  <2>5. \A c \in Conns : Named(h, c)' => Named(h, c)
    BY <2>1, <2>3, <2>4, Zenon DEF Named, q
  <2>6. NoPrompt(q) => Head(q) = None /\ NoPrompt(Tail(q))
    BY <2>2, <2>4, Zenon DEF NoPrompt
  <2>7. OneAwaited(h)'
    <3> SUFFICES ASSUME ~stop[h] PROVE OneAwaited(h)'
      BY <2>1, Zenon DEF OneAwaited
    <3>1. OnePrompt(Tail(q)) /\ (Head(q) \in Conns => NoPrompt(Tail(q)))
      BY <1>h, <2>1, OnePromptGet, Zenon DEF OneAwaited, q
    <3>2. responses'[h] # <<>> => query'[h] = None /\ NoPrompt(prompts'[h])
      BY <1>h, <1>n, <2>1, <2>3, <2>6, Zenon DEF OneAwaited, q
    <3>3. query'[h] # None => NoPrompt(prompts'[h])
      BY <1>h, <2>1, <2>3, <2>6, <3>1, Zenon DEF OneAwaited, q
    <3>4. waiters'[h] = <<>> => \A c \in Conns : ~Named(h, c)'
      BY <1>h, <2>1, <2>5, Zenon DEF OneAwaited
    <3>5. ~Has(responses'[h], None) /\ Len(responses'[h]) <= 1
      BY <1>h, <2>1, Zenon DEF OneAwaited
    <3> QED
      BY <2>1, <3>1, <3>2, <3>3, <3>4, <3>5, Zenon DEF OneAwaited
  <2> QED
    BY <1>b, <2>1, <2>5, <2>7, Zenon
<1>11. CASE Respond(h)
  <2> DEFINE r == query[h]
  <2>1. /\ responses[h] \in Seq(Conns \cup {None}) /\ responses'[h] = Append(responses[h], r)
        /\ query'[h] = None /\ UNCHANGED <<stop, prompts, waiters>>
    BY <1>11, <1>t, Zenon DEF Respond, PutResponse, TypeQueues, TypeGuest
  <2>2. r # None /\ r \in Conns
    BY <1>11, <1>t, Zenon DEF Respond, ReplyInv, TurnHasQuery, TypeGuest
  <2>3. \A x : Has(responses'[h], x) => Has(responses[h], x) \/ x = r
    BY <2>1, HasAfterPut
  <2>4. \A c \in Conns : Named(h, c)' => Named(h, c)
    BY <1>n, <2>1, <2>3, Zenon DEF Named
  <2>5. OneAwaited(h)'
    <3> SUFFICES ASSUME ~stop[h] PROVE OneAwaited(h)'
      BY <2>1, Zenon DEF OneAwaited
    <3>1. NoPrompt(prompts[h]) /\ responses[h] = <<>> /\ OnePrompt(prompts[h])
      BY <1>h, <2>2, Zenon DEF OneAwaited
    <3>2. Len(responses'[h]) <= 1 /\ ~Has(responses'[h], None)
      BY <2>1, <2>2, <3>1, SMT DEF Has
    <3>3. waiters'[h] = <<>> => \A c \in Conns : ~Named(h, c)'
      BY <1>h, <2>1, <2>4, Zenon DEF OneAwaited
    <3> QED
      BY <2>1, <3>1, <3>2, <3>3, Zenon DEF OneAwaited
  <2> QED
    BY <1>b, <2>1, <2>4, <2>5, Zenon
<1>12. CASE Handshake(h)
  BY <1>12, <1>a DEF Handshake
<1>13. CASE Abandon(h)
  <2>1. query'[h] = None /\ UNCHANGED <<stop, prompts, responses, waiters>>
    BY <1>13, <1>t, Zenon DEF Abandon, TypeGuest
  <2>2. \A c \in Conns : Named(h, c)' => Named(h, c)
    BY <1>n, <2>1, Zenon DEF Named
  <2>3. OneAwaited(h)'
    BY <1>h, <2>1, <2>2, Zenon DEF OneAwaited
  <2> QED
    BY <1>b, <2>1, <2>2, <2>3, Zenon
<1>14. ASSUME NEW g \in Gens, Launch(g) PROVE Goal(h)
  <2>1. CASE UNCHANGED prompts \/ h # g
    BY <1>14, <1>a, <1>t, <2>1, Zenon DEF Launch, VmDies, Reap, Reaped, TypeQueues
  <2>2. CASE Reap(g) /\ h = g
    <3>1. /\ prompts[h] \in Seq(Conns \cup {None}) /\ prompts'[h] = Append(prompts[h], None)
          /\ UNCHANGED <<stop, responses, waiters, query>>
      BY <1>t, <2>2, Zenon DEF Reap, TypeQueues
    <3>p. \A x : Has(prompts'[h], x) => Has(prompts[h], x) \/ x = None
      BY <3>1, HasAfterPut
    <3>2. \A c \in Conns : Has(prompts'[h], c) => Has(prompts[h], c)
      BY <1>n, <3>p, Zenon
    <3>3. \A c \in Conns : Named(h, c)' => Named(h, c)
      BY <3>1, <3>2, Zenon DEF Named
    <3>4. OnePrompt(prompts[h]) => OnePrompt(prompts'[h])
      BY <1>n, <3>1, OnePromptPut
    <3>5. NoPrompt(prompts[h]) => NoPrompt(prompts'[h])
      BY <3>2 DEF NoPrompt
    <3>6. OneAwaited(h)'
      BY <1>h, <3>1, <3>3, <3>4, <3>5, Zenon DEF OneAwaited
    <3> QED
      BY <1>b, <3>1, <3>3, <3>6, Zenon
  <2> QED
    BY <1>14, <2>1, <2>2, Zenon DEF Launch, VmDies, Reaped
<1>15. CASE Signal \/ MainExit \/ UNCHANGED vars
  BY <1>15, <1>a DEF Signal, MainExit, vars
<1>16. CASE MainStop
  BY <1>16, <1>1 DEF MainStop
<1>17. ASSUME NEW g \in Gens, Session(g) PROVE Goal(h)
  BY <1>17, <1>9, <1>10, <1>11, <1>12, <1>13, Zenon DEF Session
<1> HIDE DEF Goal
<1> QED
  BY <1>2, <1>3, <1>4, <1>5, <1>6, <1>7, <1>8, <1>14, <1>15, <1>16, <1>17 DEF Next, Command

(* What orderly clients keep.                                              *)
OrderlyInv == TypeInv /\ GuestInv /\ WaitInv /\ AttachInv /\ ReplyInv

LEMMA OrderlyInit == Init => OrderlyInv
<1> SUFFICES ASSUME Init PROVE OrderlyInv
  OBVIOUS
<1>1. AttachInv
  BY ConnsAssumption, SMT
     DEF Init, AttachInv, AwaitsBoot, OneTied, TiedAttached, Tied, VmUp, Procs
<1>2. StopKnown /\ TurnHasQuery
  BY Zenon DEF Init, StopKnown, TurnHasQuery
<1>3. ASSUME NEW g \in Gens PROVE OneWaits(g) /\ OneAwaited(g)
  BY ConnsAssumption, SMT DEF Init, OneWaits, OneAwaited, Named, Has, OnePrompt, NoPrompt
<1> QED
  BY <1>1, <1>2, <1>3, TypeInit, GuestInvInit, WaitInit DEF OrderlyInv, ReplyInv

LEMMA OrderlyNext ==
  ASSUME Allowed = {}, OrderlyInv, [Next]_vars
  PROVE  OrderlyInv'
<1> USE DEF OrderlyInv
<1>1. TypeInv' /\ GuestInv' /\ WaitInv' /\ AttachInv'
  BY TypeNext, OneCommandNext, OneGuestNext, ReadyGuestNext, BootNext, WaitNext, AttachNext
     DEF GuestInv
<1>2. StopKnown' /\ TurnHasQuery'
  BY StopKnownNext, TurnHasQueryNext DEF ReplyInv
<1>3. \A g \in Gens : OneWaits(g)' /\ OneAwaited(g)'
  BY QueuesKept
<1> QED
  BY <1>1, <1>2, <1>3 DEF ReplyInv

(* With orderly clients, whoever takes a response takes the answer to its  *)
(* own prompt, or the sentinel: the queues never shift by one.             *)
THEOREM RepliesReachAskers == ASSUME Allowed = {} PROVE Spec => ReplyToAsker
<1>1. Init => OrderlyInv
  BY OrderlyInit
<1>2. OrderlyInv /\ [Next]_vars => OrderlyInv'
  BY OrderlyNext
<1>3. OrderlyInv =>
        [/\ \A g \in Gens :
              Deliver(g) => Head(responses[g]) \in {Head(waiters[g]), None}
         /\ \A c \in Conns :
              User(c) /\ responses[cur] # <<>> => Head(responses[cur]) = None]_vars
  <2> SUFFICES ASSUME OrderlyInv
               PROVE  /\ \A g \in Gens :
                           Deliver(g) => Head(responses[g]) \in {Head(waiters[g]), None}
                      /\ \A c \in Conns :
                           User(c) /\ responses[cur] # <<>> => Head(responses[cur]) = None
    OBVIOUS
  <2> USE DEF OrderlyInv
  <2>1. ASSUME NEW g \in Gens, Deliver(g)
        PROVE  Head(responses[g]) \in {Head(waiters[g]), None}
    <3>1. /\ responses[g] \in Seq(Conns \cup {None}) /\ responses[g] # <<>> /\ waiters[g] # <<>>
          /\ Head(responses[g]) \in Conns \cup {None}
      BY <2>1, QueueGet, Zenon DEF Deliver, Deliverable, TypeInv, TypeQueues
    <3>2. Has(responses[g], Head(responses[g]))
      BY <3>1, HasBeforeGet
    <3> QED
      BY <3>1, <3>2, Zenon DEF ReplyInv, OneWaits, Named
  <2>2. \A c \in Conns : User(c) => responses[cur] = <<>>
    BY UserFinds
  <2> QED
    BY <2>1, <2>2
<1> QED
  BY <1>1, <1>2, <1>3, PTL DEF Spec, ReplyToAsker

-----------------------------------------------------------------------------
(* The safety side of StopAnswered: a stop in progress awaits a boot whose *)
(* end needs no client and no guest that has not shaken hands, unless that *)
(* boot's start was over at the handshake of another's guest.              *)

(* What the task of boot b does next ends it, or brings its end nearer:    *)
(* it is done, it has a result, its guest is gone or never came, the turn  *)
(* has a timeout, or the session finds the sentinel.                       *)
EndsByItself(b) ==
  \/ launch[b] = "done"
  \/ launch[b] = "up" /\ outcome[b] # "pending"
  \/ launch[b] = "reaping" /\ sess[b] \in {"none", "ended"}
  \/ sess[b] = "turn"
  \/ sess[b] = "idle" /\ Has(prompts[b], None)

NoStopIsStuck ==
  \A p \in Procs : pc[p] \in Stopping => EndsByItself(job[p]) \/ Unmet(job[p])

(* Whoever stops a boot has asked it to.                                   *)
StopAsked == \A p \in Procs : pc[p] \in Stopping => job[p] \in Gens /\ stop[job[p]]

(* A VM whose guest has not shaken hands yet is being started: a start     *)
(* bounds that wait (READY_WAIT_SEC), unless another's guest has set its   *)
(* event.                                                                  *)
BootHeld ==
  cur # 0 /\ launch[cur] = "up" /\ outcome[cur] = "pending" /\ sess[cur] = "none"
    => ready[cur] # 0 \/ \E c \in Conns : pc[c] = "boot"

(* What has been set stays set.                                            *)
LEMMA ReadyStays ==
  ASSUME TypeInv, [Next]_vars, NEW g \in Gens, ready[g] # 0
  PROVE  ready'[g] # 0
<1>1. ready' = ready \/ \E h \in Gens : ready' = [ready EXCEPT ![boots] = h]
  BY Zenon DEF Next, vars, Connect, Disconnect, Command, Start, Stop, ChatStop, Shutdown,
               Boot, StartOk, BootFailed, BootTimeout, Chat, ChatAttach, ChatRefused, User,
               UserLost, StopResume, Deliver, Session, Handshake, TakePrompt, Respond, Abandon,
               AwaitPrompt, Launch, VmDies, Reap, Reaped, Signal, MainStop, MainExit
<1>2. ready \in [Gens -> 0..MaxBoots] /\ \A h \in Gens : h # 0
  BY SMT DEF TypeInv, TypeFlags, Gens
<1> QED
  BY <1>1, <1>2, Zenon

LEMMA StopAskedNext ==
  ASSUME TypeInv, WaitInv, StopAsked, [Next]_vars
  PROVE  StopAsked'
<1> USE DEF stateVars
<1>t. TypeProcs /\ TypeFlags /\ TypeQueues
  BY DEF TypeInv
<1>s. /\ {"new", "read", "chat", "await", "closed", "serve", "closing", "boot"} \cap Stopping = {}
      /\ {"stop", "stop_shutdown", "stop_boot", "stop_chat", "stop_main"} \subseteq Stopping
      /\ "exit" \notin Stopping
  BY SMT DEF Stopping
(* One coroutine goes where it does not stop, and no stop is taken back.   *)
<1>a. ASSUME NEW p \in Procs, NEW v, v \notin Stopping, pc' = [pc EXCEPT ![p] = v],
             job' = job \/ \E b : job' = [job EXCEPT ![p] = b],
             \A g \in Gens : stop[g] => stop'[g]
      PROVE  StopAsked'
  <2> SUFFICES ASSUME NEW q \in Procs, pc'[q] \in Stopping
               PROVE  job'[q] \in Gens /\ stop'[job'[q]]
    BY DEF StopAsked
  <2>1. q # p /\ pc'[q] = pc[q] /\ job'[q] = job[q]
    BY <1>a, <1>t, SMT DEF TypeProcs
  <2>2. job[q] \in Gens /\ stop[job[q]]
    BY <2>1, Zenon DEF StopAsked
  <2> QED
    BY <1>a, <2>1, <2>2
<1>b. ASSUME UNCHANGED <<pc, job, stop>> PROVE StopAsked'
  BY <1>b DEF StopAsked
<1>1. ASSUME NEW p \in Procs, NEW w, NEW n, n \notin Stopping, StopVm(p, w, n)
      PROVE  StopAsked'
  <2>1. CASE cur = 0
    BY <1>1, <1>a, <2>1, Zenon DEF StopVm
  <2>2. CASE cur # 0
    <3>1. cur \in Gens /\ stop' = [stop EXCEPT ![cur] = TRUE]
      BY <1>1, <1>t, <2>2, GensFacts, Zenon DEF StopVm, RequestStop
    <3>2. stop'[cur] /\ \A g \in Gens : stop[g] => stop'[g]
      BY <1>t, <3>1, Zenon DEF TypeFlags
    <3>3. CASE launch[cur] = "done"
      BY <1>1, <1>a, <2>2, <3>2, <3>3, Zenon DEF StopVm
    <3>4. CASE launch[cur] # "done"
      <4>1. pc' = [pc EXCEPT ![p] = w] /\ job' = [job EXCEPT ![p] = cur]
        BY <1>1, <2>2, <3>4, Zenon DEF StopVm
      <4> SUFFICES ASSUME NEW q \in Procs, pc'[q] \in Stopping
                   PROVE  job'[q] \in Gens /\ stop'[job'[q]]
        BY DEF StopAsked
      <4>2. CASE q = p
        BY <1>t, <3>1, <3>2, <4>1, <4>2, SMT DEF TypeProcs
      <4>3. CASE q # p
        <5>1. pc'[q] = pc[q] /\ job'[q] = job[q]
          BY <1>t, <4>1, <4>3, SMT DEF TypeProcs
        <5>2. job[q] \in Gens /\ stop[job[q]]
          BY <5>1, Zenon DEF StopAsked
        <5> QED
          BY <3>2, <5>1, <5>2
      <4> QED
        BY <4>2, <4>3
    <3> QED
      BY <3>3, <3>4
  <2> QED
    BY <2>1, <2>2
<1>2. ASSUME NEW c \in Conns, Connect(c) \/ Disconnect(c) \/ Start(c) PROVE StopAsked'
  BY <1>2, <1>a, <1>s, NotWorking, Zenon DEF Connect, Disconnect, Start
<1>3. ASSUME NEW c \in Conns, Stop(c) \/ ChatStop(c) \/ Shutdown(c) PROVE StopAsked'
  BY <1>3, <1>1, <1>s, NotWorking, Zenon DEF Stop, ChatStop, Shutdown
<1>4. ASSUME NEW c \in Conns, Boot(c) PROVE StopAsked'
  BY <1>4, <1>1, <1>a, <1>s, NotWorking, Zenon
     DEF Boot, StartOk, BootFailed, BootTimeout, HandlerDies
<1>5. ASSUME NEW c \in Conns, Chat(c) PROVE StopAsked'
  <2>1. /\ \E v \in {"chat", "await", "closed"} : pc' = [pc EXCEPT ![c] = v]
        /\ job' = job \/ \E b : job' = [job EXCEPT ![c] = b]
        /\ UNCHANGED stop
    BY <1>5, Zenon DEF Chat, ChatAttach, ChatRefused, User, UserLost, Receive
  <2> QED
    BY <1>a, <1>s, <2>1, NotWorking, Zenon
<1>6. ASSUME NEW p \in Procs, StopResume(p) PROVE StopAsked'
  <2>1. AfterStop(pc[p]) \notin Stopping
    BY <1>6, StoppingFacts, Zenon DEF StopResume
  <2> QED
    BY <1>6, <1>a, <2>1, Zenon DEF StopResume
<1>7. ASSUME NEW g \in Gens, Deliver(g) PROVE StopAsked'
  <2>1. Head(waiters[g]) \in Procs
    BY <1>7, <1>t, NotWorking, QueueGet, Zenon DEF Deliver, Deliverable, TypeQueues
  <2> QED
    BY <1>7, <1>a, <1>s, <2>1, Zenon DEF Deliver, Receive
<1>8. ASSUME NEW g \in Gens, Session(g) \/ Launch(g) PROVE StopAsked'
  BY <1>8, <1>b DEF Session, Handshake, TakePrompt, Respond, Abandon, Launch, VmDies, Reap, Reaped
<1>9. CASE Signal \/ UNCHANGED vars
  BY <1>9, <1>b DEF Signal, vars
<1>10. CASE MainStop
  BY <1>10, <1>1, <1>s, NotWorking, Zenon DEF MainStop
<1>11. CASE MainExit
  BY <1>11, <1>a, <1>s, NotWorking, Zenon DEF MainExit
<1> QED
  BY <1>2, <1>3, <1>4, <1>5, <1>6, <1>7, <1>8, <1>9, <1>10, <1>11 DEF Next, Command

LEMMA BootHeldNext ==
  ASSUME TypeInv, WaitInv, BootInv, GuestInv, BootHeld, [Next]_vars
  PROVE  BootHeld'
<1> USE DEF stateVars
<1>t. TypeProcs /\ TypeQueues /\ TypeGuest /\ OneCommand /\ CurIsLast /\ ReadyGuest
  BY DEF TypeInv, GuestInv
<1>h. \A c \in Conns : pc[c] = "boot" => cur \in Gens /\ job[c] = cur
  BY <1>t, GensFacts, NotWorking, Zenon DEF OneCommand, Working
(* The VM of the moment was starting already.                              *)
<1>a. ASSUME cur' # 0, cur' = cur, launch'[cur'] = "up", outcome'[cur'] = "pending",
             sess'[cur'] = "none"
      PROVE  ready'[cur'] # 0 \/ \E c \in Conns : pc[c] = "boot"
  <2>1. cur \in Gens /\ ~(cur > boots)
    BY <1>a, <1>t, GensFacts, SMT DEF TypeProcs
  <2>2. Moved(cur) /\ SessMoved(cur) /\ launch[cur] # "none"
    BY <2>1, BootMoves, Zenon DEF BootInv
  <2>3. launch[cur] = "up" /\ outcome[cur] = "pending" /\ sess[cur] = "none"
    BY <1>a, <2>2 DEF Moved, SessMoved
  <2> QED
    BY <2>1, <2>3, <1>a, ReadyStays DEF BootHeld
(* Nobody leaves a start.                                                  *)
<1>b. ASSUME cur' \in {cur, 0}, \A c \in Conns : pc[c] = "boot" => pc'[c] = "boot"
      PROVE  BootHeld'
  BY <1>a, <1>b, Zenon DEF BootHeld
<1>k. \A p \in Procs : \A v : pc' = [pc EXCEPT ![p] = v] => \A q \in Procs \ {p} : pc'[q] = pc[q]
  BY <1>t, Zenon DEF TypeProcs
<1>c. ASSUME NEW p \in Procs, NEW v, pc[p] # "boot", pc' = [pc EXCEPT ![p] = v],
             cur' = cur \/ cur' = 0
      PROVE  BootHeld'
  BY <1>b, <1>c, <1>k, NotWorking, Zenon
<1>s. /\ "boot" \notin Stopping
      /\ "boot" \notin {"new", "read", "chat", "await", "closed", "serve", "closing"}
  BY SMT DEF Stopping
<1>1. ASSUME NEW c \in Conns, Start(c) PROVE BootHeld'
  <2>1. pc'[c] = "boot"
    BY <1>1, <1>t, NotWorking, Zenon DEF Start, TypeProcs
  <2> QED
    BY <2>1 DEF BootHeld
<1>2. ASSUME NEW c \in Conns, Connect(c) \/ Disconnect(c) \/ Stop(c) \/ ChatStop(c) \/ Shutdown(c)
      PROVE  BootHeld'
  BY <1>2, <1>c, <1>s, NotWorking, Zenon DEF Connect, Disconnect, Stop, ChatStop, Shutdown, StopVm
(* A start is over with the handshake, with the task, or with its timeout. *)
<1>3. ASSUME NEW c \in Conns, Boot(c) PROVE BootHeld'
  <2>1. cur \in Gens /\ cur = boots /\ cur' \in {cur, 0}
    BY <1>3, <1>h, <1>t, GensFacts, BoundsAssumption, SMT
       DEF Boot, StartOk, BootFailed, BootTimeout, StopVm, HandlerDies, CurIsLast, Gens
  <2> SUFFICES ASSUME cur' = cur, launch'[cur] = "up", outcome'[cur] = "pending",
                      sess'[cur] = "none", ready'[cur] = 0
               PROVE  FALSE
    BY <2>1 DEF BootHeld
  <2>2. Moved(cur) /\ SessMoved(cur) /\ launch[cur] # "none"
    BY <1>t, <2>1, BootMoves, SMT DEF BootInv, TypeProcs
  <2>3. launch[cur] = "up" /\ outcome[cur] = "pending" /\ sess[cur] = "none"
    BY <2>2 DEF Moved, SessMoved
  <2>4. CASE StartOk(c)
    BY <2>1, <2>4, Zenon DEF StartOk, IsReady
  <2>5. CASE BootFailed(c)
    BY <2>3, <2>5 DEF BootFailed, TaskFinished
  <2>6. CASE BootTimeout(c)
    <3>1. Cancel(cur)
      BY <2>1, <2>6, BoundsAssumption, SMT DEF BootTimeout, Gens
    <3> QED
      BY <1>t, <2>1, <2>3, <3>1, SMT DEF Cancel, TypeGuest
  <2> QED
    BY <1>3, <2>4, <2>5, <2>6 DEF Boot
<1>4. ASSUME NEW c \in Conns, Chat(c) PROVE BootHeld'
  BY <1>4, <1>c, <1>s, NotWorking, Zenon
     DEF Chat, ChatAttach, ChatRefused, User, UserLost, Receive
<1>5. ASSUME NEW p \in Procs, StopResume(p) PROVE BootHeld'
  BY <1>5, Zenon DEF StopResume, BootHeld
<1>6. ASSUME NEW g \in Gens, Deliver(g) PROVE BootHeld'
  <2>1. Head(waiters[g]) \in Procs /\ pc[Head(waiters[g])] = "await"
    BY <1>6, <1>t, NotWorking, SMT
       DEF Deliver, Deliverable, WaitInv, WaitersWait, TypeQueues
  <2> QED
    BY <1>6, <1>c, <1>s, <2>1, Zenon DEF Deliver, Receive
<1>7. ASSUME UNCHANGED <<cur, pc>> PROVE BootHeld'
  BY <1>7, <1>b
<1>8. ASSUME NEW g \in Gens, Session(g) \/ Launch(g) PROVE BootHeld'
  BY <1>8, <1>7 DEF Session, Handshake, TakePrompt, Respond, Abandon, Launch, VmDies, Reap, Reaped
<1>9. CASE Signal \/ UNCHANGED vars
  BY <1>9, <1>7 DEF Signal, vars
<1>10. CASE MainStop
  BY <1>10, <1>c, <1>s, NotWorking, Zenon DEF MainStop, StopVm
<1>11. CASE MainExit
  BY <1>11, <1>c, <1>s, NotWorking, Zenon DEF MainExit
<1> QED
  BY <1>1, <1>2, <1>3, <1>4, <1>5, <1>6, <1>8, <1>9, <1>10, <1>11 DEF Next, Command

(* While commands do not overlap, a stop, a shutdown or a SIGTERM in       *)
(* progress awaits a boot that ends by itself, or is unmet: what           *)
(* StopAnswered rests on besides fairness.  It holds with chats open and   *)
(* typing as they like.                                                    *)
THEOREM StopsGoOn == ASSUME "overlap" \notin Allowed PROVE Spec => []NoStopIsStuck
<1> DEFINE Inv == /\ TypeInv /\ WaitInv /\ GuestInv /\ BootInv
                  /\ SentinelInv /\ StopAsked /\ BootHeld
<1>1. Init => Inv
  <2>1. Init => SentinelInv
    BY Zenon DEF Init, SentinelInv, Waits
  <2>2. Init => StopAsked /\ BootHeld
    BY StoppingFacts, SMT DEF Init, StopAsked, BootHeld, Stopping
  <2> QED
    BY <2>1, <2>2, TypeInit, WaitInit, GuestInvInit, BootInit
<1>2. Inv /\ [Next]_vars => Inv'
  BY TypeNext, WaitNext, OneCommandNext, OneGuestNext, ReadyGuestNext, BootNext, SentinelNext,
     StopAskedNext, BootHeldNext DEF GuestInv
<1>3. Inv => NoStopIsStuck
  <2> SUFFICES ASSUME Inv, NEW p \in Procs, pc[p] \in Stopping, ~Unmet(job[p])
               PROVE  EndsByItself(job[p])
    BY DEF NoStopIsStuck
  <2> DEFINE b == job[p]
  <2>1. b \in Gens /\ stop[b] /\ b = cur /\ pc[p] \in Working
    BY Zenon DEF StopAsked, GuestInv, OneCommand, Working
  <2>2. /\ launch[b] \in {"up", "reaping", "done"}
        /\ sess[b] \in {"none", "idle", "turn", "ended"}
        /\ sess[b] = "ended" => outcome[b] # "pending"
    <3>1. ~(b > boots)
      BY <2>1, SMT DEF TypeInv, TypeProcs
    <3> QED
      BY <2>1, <3>1, Zenon DEF BootInv, TypeInv, TypeGuest
  <2>3. sess[b] = "idle" => Has(prompts[b], None)
    BY <2>1, SMT DEF SentinelInv, Waits
  <2>4. ~(launch[b] = "up" /\ outcome[b] = "pending" /\ sess[b] = "none")
    <3> SUFFICES ASSUME launch[b] = "up" /\ outcome[b] = "pending" /\ sess[b] = "none"
                 PROVE  FALSE
      OBVIOUS
    <3>0. ready[b] = 0
      BY <2>1, SMT DEF Unmet, SetByAnother, GuestInv, ReadyGuest, SetByGuest, LeftOver, Gens
    <3>1. PICK c \in Conns : pc[c] = "boot"
      BY <2>1, <3>0, BoundsAssumption, SMT DEF BootHeld, Gens
    <3>2. c = p
      BY <2>1, <3>1, NotWorking, Zenon DEF GuestInv, OneCommand, Working
    <3> QED
      BY <3>1, <3>2, SMT DEF Stopping
  <2> HIDE DEF b
  <2>5. EndsByItself(b)
    BY <2>2, <2>3, <2>4, Zenon DEF EndsByItself
  <2> QED
    BY <2>5 DEF b
<1> HIDE DEF Inv
<1> QED
  BY <1>1, <1>2, <1>3, PTL DEF Spec

-----------------------------------------------------------------------------
(* The safety side of StopReleasesChat and of ChatAnsweredWhileUp: a chat  *)
(* that waits has something to wait for.                                   *)

(* A chat that awaits a boot which was asked to stop has its release, or   *)
(* its response, in the queue.                                             *)
StopFindsChat == \A c \in Conns : pc[c] = "await" /\ stop[job[c]] => Deliverable(job[c])

(* A chat that awaits a response finds one, or its guest works on the      *)
(* prompt, or is about to take it, or has a result and ends, or is unmet.  *)
Served(c, g) ==
  \/ Deliverable(g)
  \/ sess[g] = "turn" /\ query[g] = c
  \/ sess[g] = "idle" /\ Has(prompts[g], c)
  \/ outcome[g] # "pending"
  \/ Unmet(g)

ChatIsServed == \A c \in Conns : pc[c] = "await" => Served(c, job[c])

(* Who awaits a response stands in the queue for it.                       *)
AwaitsInLine == \A c \in Conns : pc[c] = "await" => Has(waiters[job[c]], c)

(* A stop leaves the sentinel for the one that stands there.               *)
StopReleases == \A g \in Gens : stop[g] /\ waiters[g] # <<>> => responses[g] # <<>>

QueryInTurn == \A g \in Gens : query[g] # None => sess[g] = "turn"

(* A chat types only when no start is in progress: its guest has shaken    *)
(* hands, or will not, or another has in its place.                        *)
Met(g) == sess[g] # "none" \/ outcome[g] # "pending" \/ ready[g] # 0

GuestMet == \A c \in Conns : pc[c] = "await" => Met(job[c])

(* What it sent is under way while the session lasts.                      *)
UnderWay(c, g) ==
  Has(prompts[g], c) \/ query[g] = c \/ responses[g] # <<>> \/ sess[g] = "ended"

SentOn == \A c \in Conns : pc[c] = "await" => UnderWay(c, job[c])

LEMMA AwaitsGens ==
  ASSUME TypeInv, AwaitsBoot, NEW c \in Conns, pc[c] = "await"
  PROVE  job[c] \in Gens
<1>1. job[c] \in 1..boots
  BY Zenon DEF AwaitsBoot
<1>2. boots \in 0..MaxBoots
  BY DEF TypeInv, TypeProcs
<1> QED
  BY <1>1, <1>2, BoundsAssumption, SMT DEF Gens

(* The queue for the responses grows at its end, and loses its head to a   *)
(* delivery.                                                               *)
LEMMA LineMoves ==
  ASSUME TypeInv, [Next]_vars, NEW g \in Gens
  PROVE  \/ waiters'[g] = waiters[g]
         \/ \E c \in Conns : User(c) /\ waiters'[g] = Append(waiters[g], c)
         \/ Deliver(g) /\ waiters'[g] = Tail(waiters[g])
<1> DEFINE Goal == \/ waiters'[g] = waiters[g]
                   \/ \E c \in Conns : User(c) /\ waiters'[g] = Append(waiters[g], c)
                   \/ Deliver(g) /\ waiters'[g] = Tail(waiters[g])
<1> SUFFICES Goal
  OBVIOUS
<1> USE DEF queueVars
<1>t. waiters \in [Gens -> Seq(Conns)]
  BY DEF TypeInv, TypeQueues
<1>a. ASSUME UNCHANGED waiters PROVE Goal
  BY <1>a
<1>1. ASSUME NEW c \in Conns, Connect(c) \/ Disconnect(c) \/ Command(c) \/ Boot(c) PROVE Goal
  BY <1>1, <1>a DEF Connect, Disconnect, Command, Start, Stop, ChatStop, Shutdown, Boot, StartOk,
                    BootFailed, BootTimeout
<1>2. ASSUME NEW c \in Conns, Chat(c) PROVE Goal
  BY <1>2, <1>a, <1>t, Zenon DEF Chat, ChatAttach, ChatRefused, User, UserLost
<1>3. ASSUME NEW h \in Gens, Deliver(h) PROVE Goal
  BY <1>3, <1>t, Zenon DEF Deliver
<1>4. ASSUME NEW h \in Gens, Session(h) \/ Launch(h) PROVE Goal
  BY <1>4, <1>a DEF Session, Handshake, TakePrompt, Respond, Abandon, Launch, VmDies, Reap, Reaped
<1>5. ASSUME NEW p \in Procs, StopResume(p) PROVE Goal
  BY <1>5, <1>a DEF StopResume
<1>6. CASE Signal \/ MainStop \/ MainExit \/ UNCHANGED vars
  BY <1>6, <1>a DEF Signal, MainStop, MainExit, vars
<1> HIDE DEF Goal
<1> QED
  BY <1>1, <1>2, <1>3, <1>4, <1>5, <1>6 DEF Next

LEMMA AwaitsInLineNext ==
  ASSUME TypeInv, AwaitsBoot, AwaitsInLine, [Next]_vars
  PROVE  AwaitsInLine'
<1> SUFFICES ASSUME NEW c \in Conns, pc'[c] = "await" PROVE Has(waiters'[job'[c]], c)
  BY DEF AwaitsInLine
<1>t. waiters \in [Gens -> Seq(Conns)] /\ TypeProcs
  BY DEF TypeInv, TypeQueues
<1>1. CASE pc[c] = "await" /\ job'[c] = job[c]
  <2> DEFINE g == job[c]
  <2>1. g \in Gens /\ Has(waiters[g], c) /\ waiters[g] \in Seq(Conns)
    BY <1>1, <1>t, AwaitsGens, Zenon DEF AwaitsInLine
  <2>2. ASSUME NEW d \in Conns, waiters'[g] = Append(waiters[g], d) PROVE Has(waiters'[g], c)
    BY <2>1, <2>2, HasPut
  <2>3. CASE Deliver(g) /\ waiters'[g] = Tail(waiters[g])
    <3>1. Head(waiters[g]) # c
      <4> SUFFICES ASSUME Head(waiters[g]) = c PROVE FALSE
        OBVIOUS
      <4>1. \E v \in {"chat", "closed"} : pc' = [pc EXCEPT ![c] = v]
        BY <2>3, Zenon DEF Deliver, Receive
      <4>2. pc'[c] \in {"chat", "closed"}
        BY <1>t, <4>1, NotWorking, Zenon DEF TypeProcs
      <4> QED
        BY <4>2
    <3> QED
      BY <1>1, <2>1, <2>3, <3>1, HasGet
  <2> QED
    BY <1>1, <2>1, <2>2, <2>3, LineMoves, Zenon
<1>2. CASE User(c) /\ cur # 0 /\ job'[c] = cur
  <2>1. cur \in Gens
    BY <1>2, <1>t, GensFacts
  <2>2. responses[cur] = <<>>
    <3> SUFFICES ASSUME responses[cur] # <<>> PROVE FALSE
      OBVIOUS
    <3>1. \E v \in {"chat", "closed"} : pc' = [pc EXCEPT ![c] = v]
      BY <1>2, Zenon DEF User, Receive
    <3>2. pc'[c] \in {"chat", "closed"}
      BY <1>t, <3>1, NotWorking, Zenon DEF TypeProcs
    <3> QED
      BY <3>2
  <2>3. waiters'[cur] = Append(waiters[cur], c) /\ waiters[cur] \in Seq(Conns)
    BY <1>2, <1>t, <2>1, <2>2, Zenon DEF User
  <2> QED
    BY <1>2, <2>3, HasPut
<1> QED
  BY <1>1, <1>2, AwaitMoves

LEMMA PutIsThere == \A q \in Seq(Conns \cup {None}), v \in Conns \cup {None} : Append(q, v) # <<>>
<1> DEFINE S == Conns \cup {None}
<1>1. ASSUME NEW q \in Seq(S), NEW v \in S PROVE Append(q, v) # <<>>
  <2> HIDE DEF S
  <2>1. Len(Append(q, v)) = Len(q) + 1 /\ Len(q) \in Nat
    BY SMT
  <2>2. Len(<<>>) = 0
    BY SMT
  <2> QED
    BY <2>1, <2>2, SMT
<1> QED
  BY <1>1

LEMMA StopReleasesNext ==
  ASSUME Allowed = {}, TypeInv, WaitInv, AttachInv, ReplyInv, StopReleases, [Next]_vars
  PROVE  StopReleases'
<1> DEFINE Goal(g) == stop'[g] /\ waiters'[g] # <<>> => responses'[g] # <<>>
<1> SUFFICES ASSUME NEW h \in Gens PROVE Goal(h)
  BY DEF StopReleases
<1> USE DEF stateVars, queueVars
<1>t. TypeFlags /\ TypeQueues /\ TypeProcs
  BY DEF TypeInv
<1>a. ASSUME UNCHANGED <<stop[h], responses[h], waiters[h]>> PROVE Goal(h)
  BY <1>a, Zenon DEF StopReleases
<1>1. ASSUME NEW p, NEW w, NEW n, StopVm(p, w, n), UNCHANGED waiters PROVE Goal(h)
  <2>1. CASE cur = 0
    BY <1>1, <1>a, <2>1, Zenon DEF StopVm
  <2>2. CASE cur # 0
    <3>1. RequestStop(cur) /\ cur \in Gens
      BY <1>1, <1>t, <2>2, GensFacts, Zenon DEF StopVm
    <3>2. CASE h # cur
      BY <1>1, <1>a, <1>t, <3>1, <3>2, Zenon DEF RequestStop, TypeQueues, TypeFlags
    <3>3. CASE h = cur
      BY PutIsThere, <1>t, <3>1, <3>3, Zenon DEF RequestStop, TypeQueues
    <3> QED
      BY <3>2, <3>3
  <2> QED
    BY <2>1, <2>2
<1>2. ASSUME NEW c \in Conns, Connect(c) \/ Disconnect(c) \/ Start(c) PROVE Goal(h)
  BY <1>2, <1>a DEF Connect, Disconnect, Start
<1>3. ASSUME NEW c \in Conns, Stop(c) \/ ChatStop(c) \/ Shutdown(c) PROVE Goal(h)
  BY <1>3, <1>1 DEF Stop, ChatStop, Shutdown
<1>4. ASSUME NEW c \in Conns, Boot(c) PROVE Goal(h)
  <2>1. CASE StopVm(c, "stop_boot", "read")
    BY <1>4, <1>1, <2>1, Zenon DEF Boot, StartOk, BootFailed, BootTimeout
  <2>2. CASE ~StopVm(c, "stop_boot", "read")
    BY <1>4, <1>a, <2>2, Zenon DEF Boot, StartOk, BootFailed, BootTimeout, HandlerDies
  <2> QED
    BY <2>1, <2>2
(* A prompt goes to a boot that nobody stops.                              *)
<1>5. ASSUME NEW c \in Conns, User(c) PROVE Goal(h)
  <2>1. cur \in Gens /\ ~stop[cur] /\ responses[cur] = <<>>
    BY <1>5, UserFinds
  <2>2. CASE h # cur
    BY <1>5, <1>a, <1>t, <2>1, <2>2, Zenon DEF User, TypeQueues
  <2>3. CASE h = cur
    BY <1>5, <2>1, <2>3, Zenon DEF User
  <2> QED
    BY <2>2, <2>3
<1>6. ASSUME NEW c \in Conns, Chat(c), ~User(c) PROVE Goal(h)
  BY <1>6, <1>a DEF Chat, ChatAttach, ChatRefused, UserLost
<1>7. ASSUME NEW p \in Procs, StopResume(p) PROVE Goal(h)
  BY <1>7, <1>a DEF StopResume
(* A delivery leaves nobody in the queue.                                  *)
<1>8. ASSUME NEW g \in Gens, Deliver(g) PROVE Goal(h)
  <2>1. CASE h # g
    BY <1>8, <1>a, <1>t, <2>1, Zenon DEF Deliver, TypeQueues
  <2>2. CASE h = g
    <3>1. /\ waiters[h] \in Seq(Conns) /\ waiters[h] # <<>> /\ waiters'[h] = Tail(waiters[h])
          /\ Len(waiters[h]) <= 1
      BY <1>8, <1>t, <2>2, Zenon DEF Deliver, Deliverable, TypeQueues, ReplyInv, OneWaits
    <3>2. waiters'[h] = <<>>
      BY <3>1, SMT
    <3> QED
      BY <3>2
  <2> QED
    BY <2>1, <2>2
<1>9. ASSUME NEW g \in Gens, Session(g) PROVE Goal(h)
  <2>1. UNCHANGED <<stop, waiters>>
    BY <1>9 DEF Session, Handshake, TakePrompt, Respond, Abandon
  <2>2. CASE UNCHANGED responses
    BY <1>a, <2>1, <2>2
  <2>3. CASE PutResponse(g)
    <3>1. CASE h # g
      BY <1>a, <1>t, <2>1, <2>3, <3>1, Zenon DEF PutResponse, TypeQueues
    <3>2. CASE h = g
      <4>1. /\ responses'[h] = Append(responses[h], query[h])
            /\ responses[h] \in Seq(Conns \cup {None}) /\ query[h] \in Conns \cup {None}
        BY <1>t, <2>3, <3>2, Zenon DEF PutResponse, TypeInv, TypeQueues, TypeGuest
      <4> QED
        BY PutIsThere, <4>1, Zenon
    <3> QED
      BY <3>1, <3>2
  <2> QED
    BY <1>9, <2>2, <2>3, Zenon DEF Session, Handshake, TakePrompt, Respond, Abandon
<1>10. ASSUME NEW g \in Gens, Launch(g) PROVE Goal(h)
  BY <1>10, <1>a DEF Launch, VmDies, Reap, Reaped
<1>11. CASE Signal \/ MainExit \/ UNCHANGED vars
  BY <1>11, <1>a DEF Signal, MainExit, vars
<1>12. CASE MainStop
  BY <1>12, <1>1 DEF MainStop
<1> HIDE DEF Goal
<1> QED
  BY <1>2, <1>3, <1>4, <1>5, <1>6, <1>7, <1>8, <1>9, <1>10, <1>11, <1>12 DEF Next, Command

LEMMA QueryInTurnNext == TypeInv /\ QueryInTurn /\ [Next]_vars => QueryInTurn'
<1> SUFFICES ASSUME TypeGuest, QueryInTurn, [Next]_vars PROVE QueryInTurn'
  BY DEF TypeInv
<1> USE DEF guestVars
<1>a. ASSUME UNCHANGED <<sess, query>> PROVE QueryInTurn'
  BY <1>a DEF QueryInTurn
<1>1. ASSUME NEW c \in Conns, Connect(c) \/ Disconnect(c) \/ Command(c) \/ Boot(c) \/ Chat(c)
      PROVE  QueryInTurn'
  BY <1>1, <1>a DEF Connect, Disconnect, Command, Start, Stop, ChatStop, Shutdown, Boot,
                    StartOk, BootFailed, BootTimeout, Chat, ChatAttach, ChatRefused, User, UserLost
<1>2. ASSUME NEW g \in Gens, Session(g) PROVE QueryInTurn'
  BY <1>2, SMT DEF Session, Handshake, TakePrompt, Respond, Abandon, AwaitPrompt, QueryInTurn,
                   TypeGuest
<1>3. ASSUME NEW g \in Gens, Launch(g) PROVE QueryInTurn'
  BY <1>3, SMT DEF Launch, VmDies, Reap, Reaped, QueryInTurn, TypeGuest
<1>4. ASSUME NEW p \in Procs, StopResume(p) PROVE QueryInTurn'
  BY <1>4, <1>a DEF StopResume
<1>5. ASSUME NEW g \in Gens, Deliver(g) PROVE QueryInTurn'
  BY <1>5, <1>a DEF Deliver
<1>6. CASE Signal \/ MainStop \/ MainExit \/ UNCHANGED vars
  BY <1>6, <1>a DEF Signal, MainStop, MainExit, vars
<1> QED
  BY <1>1, <1>2, <1>3, <1>4, <1>5, <1>6 DEF Next

LEMMA GuestMetNext ==
  ASSUME Allowed = {}, TypeInv, AttachInv, BootInv, BootHeld, GuestMet, [Next]_vars
  PROVE  GuestMet'
<1> SUFFICES ASSUME NEW c \in Conns, pc'[c] = "await"
             PROVE  Met(job[c])'
  BY DEF GuestMet
<1>t. TypeProcs /\ TypeGuest
  BY DEF TypeInv
<1>1. \E g \in Gens : job'[c] = g /\ Met(g)
  <2>1. CASE pc[c] = "await" /\ job'[c] = job[c]
    BY <2>1, AwaitsGens, Zenon DEF AttachInv, GuestMet
  <2>2. CASE User(c) /\ cur # 0 /\ job'[c] = cur
    <3>1. \A d \in Conns : pc[d] # "boot"
      BY <2>2, NotWorking, Zenon DEF User, MayChat, Busy, Working
    <3>2. cur \in Gens /\ ~(cur > boots)
      BY <1>t, <2>2, GensFacts, SMT DEF TypeProcs
    <3>3. launch[cur] = "up" => Met(cur)
      BY <2>2, <3>1, Zenon DEF BootHeld, Met
    <3>4. launch[cur] = "up" \/ outcome[cur] # "pending"
      BY <1>t, <3>2, SMT DEF BootInv, TypeGuest
    <3> QED
      BY <2>2, <3>2, <3>3, <3>4 DEF Met
  <2> QED
    BY <2>1, <2>2, AwaitMoves
<1>2. PICK g \in Gens : job'[c] = g /\ Met(g)
  BY <1>1
<1>3. Moved(g) /\ SessMoved(g)
  BY BootMoves
<1>4. Met(g)'
  BY <1>2, <1>3, ReadyStays, SMT DEF Moved, SessMoved, Met
<1> QED
  BY <1>2, <1>4 DEF Met

(* A prompt leaves the queue for the session, and the session with a       *)
(* response, or when it ends.                                              *)
LEMMA UnderWayKept ==
  ASSUME Allowed = {}, OrderlyInv, AwaitsInLine, QueryInTurn, [Next]_vars,
         NEW c \in Conns, NEW g \in Gens, UnderWay(c, g), Has(waiters[g], c), pc'[c] = "await"
  PROVE  UnderWay(c, g)'
<1> DEFINE Goal == UnderWay(c, g)'
<1> SUFFICES Goal
  OBVIOUS
<1> USE DEF stateVars, queueVars, guestVars
<1>t. TypeProcs /\ TypeQueues /\ TypeGuest /\ TypeInv
  BY DEF OrderlyInv, TypeInv
<1>g. /\ UnderWay(c, g) /\ c # None /\ c \in Conns \cup {None}
      /\ prompts[g] \in Seq(Conns \cup {None}) /\ responses[g] \in Seq(Conns \cup {None})
  BY <1>t, ConnsAssumption, Zenon DEF TypeQueues
<1>a. ASSUME UNCHANGED <<prompts[g], query[g], responses[g], sess[g]>> PROVE Goal
  BY <1>a, <1>g, Zenon DEF UnderWay
<1>b. ASSUME NEW v, prompts'[g] = Append(prompts[g], v),
             UNCHANGED <<query[g], responses[g], sess[g]>>
      PROVE  Goal
  <2>1. Has(prompts[g], c) => Has(prompts'[g], c)
    BY <1>b, <1>g, HasPut
  <2> QED
    BY <1>b, <1>g, <2>1, Zenon DEF UnderWay
<1>1. ASSUME NEW p, NEW w, NEW n, StopVm(p, w, n), UNCHANGED <<query, sess>> PROVE Goal
  <2>1. CASE cur = 0
    BY <1>1, <1>a, <2>1, Zenon DEF StopVm
  <2>2. CASE cur # 0
    <3>1. RequestStop(cur) /\ cur \in Gens
      BY <1>t, <1>1, <2>2, GensFacts, Zenon DEF StopVm
    <3>2. CASE g # cur
      BY <1>t, <1>1, <1>a, <1>g, <3>1, <3>2, Zenon DEF RequestStop, TypeQueues
    <3>3. CASE g = cur
      <4>1. responses'[g] = Append(responses[g], None)
        BY <1>t, <3>1, <3>3, Zenon DEF RequestStop, TypeQueues
      <4> QED
        BY <1>g, <4>1, PutIsThere, Zenon DEF UnderWay
    <3> QED
      BY <3>2, <3>3
  <2> QED
    BY <2>1, <2>2
<1>2. ASSUME NEW d \in Conns, Connect(d) \/ Disconnect(d) \/ Start(d) PROVE Goal
  BY <1>2, <1>a DEF Connect, Disconnect, Start
<1>3. ASSUME NEW d \in Conns, Stop(d) \/ ChatStop(d) \/ Shutdown(d) PROVE Goal
  BY <1>3, <1>1 DEF Stop, ChatStop, Shutdown
<1>4. ASSUME NEW d \in Conns, Boot(d) PROVE Goal
  <2>1. CASE StopVm(d, "stop_boot", "read")
    BY <1>4, <1>1, <2>1, Zenon DEF Boot, StartOk, BootFailed, BootTimeout
  <2>2. CASE ~StopVm(d, "stop_boot", "read")
    BY <1>4, <1>a, <2>2, Zenon DEF Boot, StartOk, BootFailed, BootTimeout, HandlerDies
  <2> QED
    BY <2>1, <2>2
<1>5. ASSUME NEW d \in Conns, User(d) PROVE Goal
  <2>1. /\ cur \in Gens /\ responses[cur] = <<>>
        /\ prompts' = [prompts EXCEPT ![cur] = Append(@, d)]
    BY <1>5, UserFinds DEF OrderlyInv, User
  <2>2. UNCHANGED <<responses, query, sess>>
    BY <1>5, <2>1, Zenon DEF User
  <2>3. CASE g # cur
    BY <1>t, <1>a, <1>g, <2>1, <2>2, <2>3, Zenon DEF TypeQueues
  <2>4. CASE g = cur
    BY <1>t, <1>b, <2>1, <2>2, <2>4, Zenon DEF TypeQueues
  <2> QED
    BY <2>3, <2>4
<1>6. ASSUME NEW d \in Conns, Chat(d), ~User(d) PROVE Goal
  BY <1>6, <1>a DEF Chat, ChatAttach, ChatRefused, UserLost
<1>7. ASSUME NEW p \in Procs, StopResume(p) PROVE Goal
  BY <1>7, <1>a DEF StopResume
(* A delivery to this boot is one to the chat that waits, and ends it.     *)
<1>8. ASSUME NEW h \in Gens, Deliver(h) PROVE Goal
  <2>1. CASE h # g
    BY <1>t, <1>8, <1>a, <1>g, <2>1, Zenon DEF Deliver, TypeQueues
  <2>2. CASE h = g
    <3>1. /\ Has(waiters[g], c) /\ waiters[g] \in Seq(Conns) /\ Len(waiters[g]) <= 1
      BY <1>t, <1>g, Zenon DEF AwaitsInLine, TypeQueues, OrderlyInv, ReplyInv, OneWaits
    <3>2. Head(waiters[g]) = c
      BY <3>1, SMT DEF Has
    <3>3. \E v \in {"chat", "closed"} : pc' = [pc EXCEPT ![c] = v]
      BY <1>8, <2>2, <3>2, Zenon DEF Deliver, Receive
    <3>4. pc'[c] \in {"chat", "closed"}
      BY <1>t, <3>3, NotWorking, Zenon DEF TypeProcs
    <3> QED
      BY <3>4
  <2> QED
    BY <2>1, <2>2
<1>9. ASSUME NEW h \in Gens, Session(h), h # g PROVE Goal
  BY <1>t, <1>9, <1>a, <1>g, Zenon
     DEF Session, Handshake, TakePrompt, Respond, PutResponse, Abandon, AwaitPrompt,
         TypeQueues, TypeGuest
<1>10. CASE Handshake(g)
  <2>1. sess[g] = "none" /\ UNCHANGED <<prompts, query, responses>>
    BY <1>10 DEF Handshake
  <2> QED
    BY <1>g, <2>1 DEF UnderWay
<1>11. CASE TakePrompt(g)
  <2>1. /\ sess[g] = "idle" /\ prompts[g] # <<>> /\ prompts'[g] = Tail(prompts[g])
        /\ responses'[g] = responses[g]
        /\ Head(prompts[g]) # None => query'[g] = Head(prompts[g]) \/ sess'[g] = "ended"
    BY <1>t, <1>11, <1>g, Zenon DEF TakePrompt, TypeQueues, TypeGuest
  <2>2. query[g] # c /\ sess[g] # "ended"
    BY <1>g, <2>1, SMT DEF QueryInTurn
  <2>3. Has(prompts[g], c) => Head(prompts[g]) = c \/ Has(prompts'[g], c)
    BY <1>g, <2>1, HasGet
  <2> QED
    BY <1>g, <2>1, <2>2, <2>3, Zenon DEF UnderWay
<1>12. CASE Respond(g)
  <2>1. responses'[g] = Append(responses[g], query[g]) /\ query[g] \in Conns \cup {None}
    BY <1>t, <1>12, <1>g, Zenon DEF Respond, PutResponse, TypeQueues, TypeGuest
  <2> QED
    BY <1>g, <2>1, PutIsThere, Zenon DEF UnderWay
<1>13. CASE Abandon(g)
  BY <1>t, <1>13, <1>g, Zenon DEF Abandon, TypeGuest, UnderWay
<1>14. ASSUME NEW h \in Gens, Launch(h) PROVE Goal
  <2>1. CASE VmDies(h)
    BY <1>a, <2>1 DEF VmDies
  <2>2. CASE Reap(h)
    <3>1. prompts'[g] \in {prompts[g], Append(prompts[g], None)}
      BY <1>t, <1>g, <2>2, Zenon DEF Reap, TypeQueues
    <3> QED
      BY <1>a, <1>b, <2>2, <3>1, SMT DEF Reap
  <2>3. CASE Reaped(h)
    <3>1. sess'[g] \in {sess[g], "ended"} /\ UNCHANGED <<prompts, query, responses>>
      BY <1>t, <1>g, <2>3, Zenon DEF Reaped, TypeGuest
    <3> QED
      BY <1>g, <3>1, SMT DEF UnderWay
  <2> QED
    BY <1>14, <2>1, <2>2, <2>3 DEF Launch
<1>15. CASE Signal \/ MainExit \/ UNCHANGED vars
  BY <1>15, <1>a DEF Signal, MainExit, vars
<1>16. CASE MainStop
  BY <1>16, <1>1 DEF MainStop
<1>17. ASSUME NEW h \in Gens, Session(h) PROVE Goal
  BY <1>17, <1>9, <1>10, <1>11, <1>12, <1>13, Zenon DEF Session
<1> HIDE DEF Goal
<1> QED
  BY <1>2, <1>3, <1>4, <1>5, <1>6, <1>7, <1>8, <1>14, <1>15, <1>16, <1>17 DEF Next, Command

LEMMA SentOnNext ==
  ASSUME Allowed = {}, OrderlyInv, AwaitsInLine, QueryInTurn, SentOn, [Next]_vars
  PROVE  SentOn'
<1> SUFFICES ASSUME NEW c \in Conns, pc'[c] = "await" PROVE UnderWay(c, job[c])'
  BY DEF SentOn
<1> USE DEF stateVars, queueVars, guestVars
<1>t. TypeProcs /\ TypeQueues
  BY DEF OrderlyInv, TypeInv
<1>1. CASE User(c) /\ cur # 0 /\ job'[c] = cur
  <2>1. cur \in Gens /\ prompts' = [prompts EXCEPT ![cur] = Append(@, c)]
    BY <1>1, <1>t, GensFacts DEF User
  <2>2. prompts[cur] \in Seq(Conns \cup {None}) /\ prompts'[cur] = Append(prompts[cur], c)
    BY <1>t, <2>1, Zenon DEF TypeQueues
  <2>3. Has(prompts'[cur], c)
    BY <2>2, HasPut
  <2> QED
    BY <1>1, <2>3 DEF UnderWay
<1>2. CASE pc[c] = "await" /\ job'[c] = job[c]
  <2>1. PICK g \in Gens : job[c] = g
    BY <1>2, AwaitsGens DEF OrderlyInv, AttachInv
  <2>2. UnderWay(c, g) /\ Has(waiters[g], c)
    BY <1>2, <2>1 DEF SentOn, AwaitsInLine
  <2>3. UnderWay(c, g)'
    BY <2>2, UnderWayKept
  <2> QED
    BY <1>2, <2>1, <2>3 DEF UnderWay
<1> QED
  BY <1>1, <1>2, AwaitMoves DEF OrderlyInv, TypeInv

ChatInv ==
  /\ OrderlyInv /\ BootInv /\ BootHeld
  /\ AwaitsInLine /\ StopReleases /\ QueryInTurn /\ GuestMet /\ SentOn

LEMMA ChatInit == Init => ChatInv
<1> SUFFICES ASSUME Init PROVE ChatInv
  OBVIOUS
<1>1. BootHeld /\ StopReleases /\ QueryInTurn
  BY Zenon DEF Init, BootHeld, StopReleases, QueryInTurn
<1>2. \A c \in Conns : pc[c] # "await"
  BY ConnsAssumption, SMT DEF Init, Procs
<1> QED
  BY <1>1, <1>2, OrderlyInit, BootInit DEF ChatInv, AwaitsInLine, GuestMet, SentOn

LEMMA ChatNext ==
  ASSUME Allowed = {}, ChatInv, [Next]_vars
  PROVE  ChatInv'
<1>1. /\ OrderlyInv /\ BootInv /\ BootHeld
      /\ AwaitsInLine /\ StopReleases /\ QueryInTurn /\ GuestMet /\ SentOn
  BY DEF ChatInv
<1>2. TypeInv /\ GuestInv /\ WaitInv /\ AttachInv /\ ReplyInv /\ AwaitsBoot
  BY <1>1 DEF OrderlyInv, AttachInv
<1>3. OrderlyInv' /\ BootInv' /\ BootHeld'
  BY <1>1, <1>2, OrderlyNext, BootNext, BootHeldNext
<1>4. AwaitsInLine' /\ StopReleases' /\ QueryInTurn'
  BY <1>1, <1>2, AwaitsInLineNext, StopReleasesNext, QueryInTurnNext
<1>5. GuestMet' /\ SentOn'
  BY <1>1, <1>2, GuestMetNext, SentOnNext
<1> QED
  BY <1>3, <1>4, <1>5 DEF ChatInv

LEMMA SomeoneAwaits ==
  ASSUME ChatInv, NEW c \in Conns, pc[c] = "await"
  PROVE  job[c] \in Gens /\ waiters[job[c]] # <<>>
<1>1. job[c] \in Gens /\ Has(waiters[job[c]], c) /\ waiters[job[c]] \in Seq(Conns)
  BY AwaitsGens, Zenon DEF ChatInv, OrderlyInv, AttachInv, AwaitsInLine, TypeInv, TypeQueues
<1> QED
  BY <1>1, SMT DEF Has

(* With orderly clients, a stop leaves every chat that awaits its boot a   *)
(* response or the sentinel to take: what StopReleasesChat rests on        *)
(* besides fairness.                                                       *)
THEOREM StopReachesChat == ASSUME Allowed = {} PROVE Spec => []StopFindsChat
<1>1. ChatInv => StopFindsChat
  BY SomeoneAwaits, Zenon DEF ChatInv, StopReleases, StopFindsChat, Deliverable
<1>2. ChatInv /\ [Next]_vars => ChatInv'
  BY ChatNext
<1> QED
  BY <1>1, <1>2, ChatInit, PTL DEF Spec

(* With orderly clients, the prompt of a chat that waits is never lost:    *)
(* the guest works on it or will take it, the response is there, the guest *)
(* has its result and the boot ends, or it is unmet.  ChatAnsweredWhileUp  *)
(* rests on it besides fairness.                                           *)
THEOREM ChatsAreServed == ASSUME Allowed = {} PROVE Spec => []ChatIsServed
<1>1. ChatInv => ChatIsServed
  <2> SUFFICES ASSUME ChatInv, NEW c \in Conns, pc[c] = "await",
                      ~Deliverable(job[c]), outcome[job[c]] = "pending", ~Unmet(job[c])
               PROVE  \/ sess[job[c]] = "turn" /\ query[job[c]] = c
                      \/ sess[job[c]] = "idle" /\ Has(prompts[job[c]], c)
    BY DEF ChatIsServed, Served
  <2> DEFINE g == job[c]
  <2>1. g \in Gens /\ waiters[g] # <<>> /\ responses[g] = <<>> /\ ~stop[g]
    BY SomeoneAwaits, Zenon DEF Deliverable, ChatInv, StopReleases
  <2>2. Has(prompts[g], c) \/ query[g] = c
    BY <2>1, SMT DEF ChatInv, SentOn, UnderWay, BootInv
  <2>3. query[g] = c => sess[g] = "turn"
    BY <2>1, ConnsAssumption, Zenon DEF ChatInv, QueryInTurn
  <2>4. Has(prompts[g], c) => query[g] = None
    BY <2>1, Zenon DEF ChatInv, OrderlyInv, ReplyInv, OneAwaited, NoPrompt
  <2>u. sess[g] # "none" \/ ready[g] = 0
    <3>1. SetByGuest(g)
      BY <2>1 DEF ChatInv, OrderlyInv, GuestInv, ReadyGuest
    <3>2. launch[g] = "up"
      <4>1. ~(g > boots)
        BY SMT DEF ChatInv, OrderlyInv, AttachInv, AwaitsBoot, TypeInv, TypeProcs
      <4> QED
        BY <2>1, <4>1, SMT DEF ChatInv, BootInv, OrderlyInv, TypeInv, TypeGuest
    <3> QED
      BY <2>1, <3>1, <3>2, SMT DEF SetByGuest, LeftOver, Unmet, SetByAnother, Gens
  <2>5. sess[g] \in {"idle", "turn"}
    BY <2>1, <2>u, SMT DEF ChatInv, GuestMet, Met, BootInv, OrderlyInv, TypeInv, TypeGuest
  <2>6. sess[g] = "turn" => query[g] # None
    BY <2>1, Zenon DEF ChatInv, OrderlyInv, ReplyInv, TurnHasQuery
  <2> QED
    BY <2>2, <2>3, <2>4, <2>5, <2>6
<1>2. ChatInv /\ [Next]_vars => ChatInv'
  BY ChatNext
<1> QED
  BY <1>1, <1>2, ChatInit, PTL DEF Spec
=============================================================================
