------------------------------ MODULE NodeControl ------------------------------
(***************************************************************************)
(* The control plane of the Corvus Node: the asyncio process that listens  *)
(* on the control socket, boots at most one guest VM at a time, stops it,  *)
(* and couples one chat client to the guest through two queues             *)
(* (node/daemon.py), together with the part of a boot that the control     *)
(* plane observes: the launch task (vm/launcher.py, launch_turn) and the   *)
(* point at which the guest session takes a prompt or puts a response      *)
(* (node/session.py).                                                      *)
(*                                                                         *)
(* The code runs on one event loop, so an action is the code between two   *)
(* suspension points.  What a coroutine reads after it resumes is the      *)
(* shared ServeState of that moment, not of the moment it suspended.       *)
(*                                                                         *)
(* Boots are numbered 1..MaxBoots.  boot_task, prompts and responses are   *)
(* assigned together when a VM boots and cleared together by _stop_vm, so  *)
(* one variable, cur, names the boot all three belong to (0 is None).      *)
(* A prompt is named by the connection that sent it, a response by the     *)
(* prompt it answers.                                                      *)
(***************************************************************************)
EXTENDS Naturals, Sequences, FiniteSets

CONSTANTS
  Conns,     \* control connections that clients may open
  Main,      \* the coroutine serve_forever
  None,      \* the sentinel that closes a queue
  MaxBoots,  \* bound: VMs started in one life of the Node
  MaxTurns,  \* MAX_SESSION_TURNS
  Allowed    \* which of the client habits below may occur

(***************************************************************************)
(* Client habits.  With Allowed = {} the clients are orderly: a lifecycle  *)
(* command (start, stop, shutdown, SIGTERM) is issued only when none is in *)
(* progress and no other chat sits idle at its prompt, and a chat attaches *)
(* and types only when no command is in progress.                          *)
(*   "overlap"    commands overlap                                         *)
(*   "open_chat"  a command is issued while a chat sits idle               *)
(*   "late_chat"  a chat attaches or types while a command is in progress  *)
(***************************************************************************)
Habits == {"overlap", "open_chat", "late_chat"}

ASSUME ConnsAssumption ==
  /\ IsFiniteSet(Conns)
  /\ Main \notin Conns
  /\ None \notin Conns
ASSUME BoundsAssumption == MaxBoots \in Nat \ {0} /\ MaxTurns \in Nat \ {0}
ASSUME HabitsAssumption == Allowed \subseteq Habits

VARIABLES
  boots,      \* boots so far: state.ready is the event of the last one
  cur,        \* the boot of state.boot_task, prompts and responses, or 0
  attached,   \* state.chat_attached
  shutdown,   \* state.shutdown is set
  ready,      \* per boot: the boot whose session set its ready event last, or 0
  stop,       \* per boot: its stop event is set
  prompts,    \* per boot: the prompt queue
  responses,  \* per boot: the response queue
  waiters,    \* per boot: who is suspended in responses.get(), oldest first
  launch,     \* per boot: where the launch task is
  outcome,    \* per boot: how the guest, then the launch task, ended
  sess,       \* per boot: where the guest session is
  query,      \* per boot: the prompt the guest is working on, or None
  turns,      \* per boot: queries sent to the guest
  pc,         \* per coroutine: where it is suspended
  job         \* per coroutine: the boot whose task or queue it awaits, or 0

stateVars == <<boots, cur, attached, shutdown>>
queueVars == <<prompts, responses, waiters>>
guestVars == <<sess, query, turns>>
vars == <<boots, cur, attached, shutdown, ready, stop, prompts, responses,
          waiters, launch, outcome, sess, query, turns, pc, job>>

Gens == 1..MaxBoots
Procs == Conns \cup {Main}

(* Coroutines suspended in _stop_vm, by what they do when it returns.      *)
Stopping == {"stop", "stop_shutdown", "stop_boot", "stop_chat", "stop_main"}
Working == Stopping \cup {"boot"}

TypeOK ==
  /\ boots \in 0..MaxBoots
  /\ cur \in 0..boots
  /\ attached \in BOOLEAN
  /\ shutdown \in BOOLEAN
  /\ ready \in [Gens -> 0..MaxBoots]
  /\ stop \in [Gens -> BOOLEAN]
  /\ prompts \in [Gens -> Seq(Conns \cup {None})]
  /\ responses \in [Gens -> Seq(Conns \cup {None})]
  /\ waiters \in [Gens -> Seq(Conns)]
  /\ launch \in [Gens -> {"none", "up", "reaping", "done"}]
  /\ outcome \in [Gens -> {"pending", "ok", "boot", "other", "cancelled"}]
  /\ sess \in [Gens -> {"none", "idle", "turn", "ended"}]
  /\ query \in [Gens -> Conns \cup {None}]
  /\ turns \in [Gens -> 0..MaxTurns]
  /\ pc \in [Procs -> Working \cup {"new", "read", "chat", "await", "closed",
                                    "serve", "closing", "exit"}]
  /\ job \in [Procs -> 0..MaxBoots]

Init ==
  /\ boots = 0
  /\ cur = 0
  /\ attached = FALSE
  /\ shutdown = FALSE
  /\ ready = [g \in Gens |-> 0]
  /\ stop = [g \in Gens |-> FALSE]
  /\ prompts = [g \in Gens |-> <<>>]
  /\ responses = [g \in Gens |-> <<>>]
  /\ waiters = [g \in Gens |-> <<>>]
  /\ launch = [g \in Gens |-> "none"]
  /\ outcome = [g \in Gens |-> "pending"]
  /\ sess = [g \in Gens |-> "none"]
  /\ query = [g \in Gens |-> None]
  /\ turns = [g \in Gens |-> 0]
  /\ pc = [p \in Procs |-> IF p = Main THEN "serve" ELSE "new"]
  /\ job = [p \in Procs |-> 0]

(* Operators marked "Defect" are not part of the specification.  Each is a *)
(* plausible mistake in the definition below it, which some property must  *)
(* notice (PROJECT.json, mutants).                                         *)

(* Defect: a VM that is being cleaned up counts as gone.                   *)
VmUpWhileServing == cur # 0 /\ launch[cur] = "up"

(* ServeState.vm_up: the task exists and is not done.                      *)
VmUp == cur # 0 /\ launch[cur] # "done"

(* A response lies in a queue whose oldest waiter has not resumed yet.     *)
Deliverable(g) == waiters[g] # <<>> /\ responses[g] # <<>>

Busy ==
  \/ \E p \in Procs : pc[p] \in Working
  \/ shutdown /\ pc[Main] = "serve"
  \/ \E g \in Gens : Deliverable(g)

MayCommand(c) ==
  /\ "overlap" \in Allowed \/ ~Busy
  /\ "open_chat" \in Allowed \/ \A d \in Conns \ {c} : pc[d] # "chat"

MayChat == "late_chat" \in Allowed \/ ~Busy

-----------------------------------------------------------------------------
(* Clients come and go.                                                    *)

Connect(c) ==
  /\ pc[c] = "new"
  /\ pc[Main] \in {"serve", "stop_main"}
  /\ pc' = [pc EXCEPT ![c] = "read"]
  /\ UNCHANGED <<stateVars, ready, stop, queueVars, launch, outcome, guestVars, job>>

(* Defect: chat_attached is not cleared when the chat leaves.              *)
DisconnectStaysAttached(c) ==
  /\ pc[c] \in {"read", "chat"}
  /\ pc' = [pc EXCEPT ![c] = "closed"]
  /\ UNCHANGED <<stateVars, ready, stop, queueVars, launch, outcome, guestVars, job>>

(* Defect: a chat that is gone gives up its wait and leaves the response   *)
(* behind in the queue.                                                    *)
DisconnectWhileWaiting(c) ==
  /\ pc[c] \in {"read", "chat", "await"}
  /\ pc' = [pc EXCEPT ![c] = "closed"]
  /\ job' = [job EXCEPT ![c] = 0]
  /\ waiters' = [g \in Gens |-> SelectSeq(waiters[g], LAMBDA d : d # c)]
  /\ attached' = (attached /\ pc[c] = "read")
  /\ UNCHANGED <<boots, cur, shutdown, ready, stop, prompts, responses, launch,
                 outcome, guestVars>>

(* EOF, or a frame that read_frame rejects: the handler returns, through   *)
(* the finally clause of the attach when it was attached.                  *)
Disconnect(c) ==
  /\ pc[c] \in {"read", "chat"}
  /\ pc' = [pc EXCEPT ![c] = "closed"]
  /\ attached' = (attached /\ pc[c] # "chat")
  /\ UNCHANGED <<boots, cur, shutdown, ready, stop, queueVars, launch, outcome,
                 guestVars, job>>

-----------------------------------------------------------------------------
(* stop, shutdown and the other callers of _stop_vm.                       *)

(* Defects: only one of the two queues gets the sentinel.                  *)
RequestStopOfSession(g) ==
  /\ stop' = [stop EXCEPT ![g] = TRUE]
  /\ prompts' = [prompts EXCEPT ![g] = Append(@, None)]
  /\ UNCHANGED responses

RequestStopOfChat(g) ==
  /\ stop' = [stop EXCEPT ![g] = TRUE]
  /\ responses' = [responses EXCEPT ![g] = Append(@, None)]
  /\ UNCHANGED prompts

(* request_stop: the sentinel in both queues of the current boot.          *)
RequestStop(g) ==
  /\ stop' = [stop EXCEPT ![g] = TRUE]
  /\ prompts' = [prompts EXCEPT ![g] = Append(@, None)]
  /\ responses' = [responses EXCEPT ![g] = Append(@, None)]

(* _stop_vm up to its await: there is nothing to stop; or the task is done *)
(* and awaiting it does not suspend, so the state is cleared at once; or   *)
(* the caller suspends at waitPc.  It goes on to nextPc otherwise.         *)
StopVm(p, waitPc, nextPc) ==
  \/ /\ cur = 0
     /\ pc' = [pc EXCEPT ![p] = nextPc]
     /\ job' = [job EXCEPT ![p] = 0]
     /\ attached' = (attached /\ waitPc # "stop_chat")
     /\ UNCHANGED <<cur, stop, prompts, responses>>
  \/ /\ cur # 0 /\ launch[cur] = "done"
     /\ RequestStop(cur)
     /\ pc' = [pc EXCEPT ![p] = nextPc]
     /\ job' = [job EXCEPT ![p] = 0]
     /\ cur' = 0
     /\ attached' = FALSE
  \/ /\ cur # 0 /\ launch[cur] # "done"
     /\ RequestStop(cur)
     /\ pc' = [pc EXCEPT ![p] = waitPc]
     /\ job' = [job EXCEPT ![p] = cur]
     /\ UNCHANGED <<cur, attached>>

Stop(c) ==
  /\ pc[c] = "read"
  /\ MayCommand(c)
  /\ StopVm(c, "stop", "read")
  /\ UNCHANGED <<boots, shutdown, ready, waiters, launch, outcome, guestVars>>

(* A stop frame inside an attach ends the attach as well.                  *)
ChatStop(c) ==
  /\ pc[c] = "chat"
  /\ MayCommand(c)
  /\ StopVm(c, "stop_chat", "closed")
  /\ UNCHANGED <<boots, shutdown, ready, waiters, launch, outcome, guestVars>>

Shutdown(c) ==
  /\ pc[c] = "read"
  /\ MayCommand(c)
  /\ StopVm(c, "stop_shutdown", "closed")
  /\ shutdown' = (shutdown \/ ~VmUp)
  /\ UNCHANGED <<boots, ready, waiters, launch, outcome, guestVars>>

(* SIGTERM or SIGINT.                                                      *)
Signal ==
  /\ ~shutdown
  /\ MayCommand(Main)
  /\ shutdown' = TRUE
  /\ UNCHANGED <<boots, cur, attached, ready, stop, queueVars, launch, outcome,
                 guestVars, pc, job>>

MainStop ==
  /\ pc[Main] = "serve"
  /\ shutdown
  /\ StopVm(Main, "stop_main", "closing")
  /\ UNCHANGED <<boots, shutdown, ready, waiters, launch, outcome, guestVars>>

AfterStop(at) ==
  IF at \in {"stop", "stop_boot"} THEN "read"
  ELSE IF at = "stop_main" THEN "closing" ELSE "closed"

(* Defect: a stop is over once it was requested.                           *)
StopResumeAtOnce(p) ==
  /\ pc[p] \in Stopping
  /\ cur' = 0
  /\ attached' = FALSE
  /\ shutdown' = (shutdown \/ pc[p] = "stop_shutdown")
  /\ pc' = [pc EXCEPT ![p] = IF pc[p] = "stop_main" THEN "closing" ELSE "closed"]
  /\ job' = [job EXCEPT ![p] = 0]
  /\ UNCHANGED <<boots, ready, stop, queueVars, launch, outcome, guestVars>>

(* The awaited task is done: _stop_vm clears whatever the state holds now. *)
StopResume(p) ==
  /\ pc[p] \in Stopping
  /\ launch[job[p]] = "done"
  /\ cur' = 0
  /\ attached' = FALSE
  /\ shutdown' = (shutdown \/ pc[p] = "stop_shutdown")
  /\ pc' = [pc EXCEPT ![p] = AfterStop(pc[p])]
  /\ job' = [job EXCEPT ![p] = 0]
  /\ UNCHANGED <<boots, ready, stop, queueVars, launch, outcome, guestVars>>

(* The server is closed; wait_closed returns once every connection is.     *)
(* Tasks still alive when serve_forever returns are cancelled.             *)
MainExit ==
  /\ pc[Main] = "closing"
  /\ \A c \in Conns : pc[c] \in {"new", "closed"}
  /\ pc' = [pc EXCEPT ![Main] = "exit"]
  /\ outcome' = [g \in Gens |-> IF launch[g] = "up" THEN "cancelled" ELSE outcome[g]]
  /\ UNCHANGED <<stateVars, ready, stop, queueVars, launch, guestVars, job>>

-----------------------------------------------------------------------------
(* start and _boot_vm.                                                     *)

Start(c) ==
  /\ pc[c] = "read"
  /\ MayCommand(c)
  /\ ~VmUp
  /\ boots < MaxBoots
  /\ boots' = boots + 1
  /\ cur' = boots + 1
  /\ launch' = [launch EXCEPT ![boots + 1] = "up"]
  /\ pc' = [pc EXCEPT ![c] = "boot"]
  /\ job' = [job EXCEPT ![c] = boots + 1]
  /\ UNCHANGED <<attached, shutdown, ready, stop, queueVars, outcome, guestVars>>

(* What _boot_vm sees when asyncio.wait returns.  Its own task or event    *)
(* makes it return (else the timeout does), but it then looks at the task  *)
(* and the event that the state holds now.                                 *)
Woken(c) == launch[job[c]] = "done" \/ ready[job[c]] # 0
TaskFinished(c) == cur = job[c] /\ launch[cur] = "done"
IsReady == ready[boots] # 0

(* Defect: start_ok is written when the wait ends, however it ended.       *)
StartOkOnTimeout(c) ==
  /\ pc[c] = "boot"
  /\ ~TaskFinished(c)
  /\ pc' = [pc EXCEPT ![c] = "read"]
  /\ job' = [job EXCEPT ![c] = 0]
  /\ UNCHANGED <<stateVars, ready, stop, queueVars, launch, outcome, guestVars>>

StartOk(c) ==
  /\ pc[c] = "boot"
  /\ Woken(c) /\ ~TaskFinished(c) /\ IsReady
  /\ pc' = [pc EXCEPT ![c] = "read"]
  /\ job' = [job EXCEPT ![c] = 0]
  /\ UNCHANGED <<stateVars, ready, stop, queueVars, launch, outcome, guestVars>>

(* The handler ends, and the state stays as it is.                         *)
HandlerDies(c) ==
  /\ pc' = [pc EXCEPT ![c] = "closed"]
  /\ job' = [job EXCEPT ![c] = 0]
  /\ UNCHANGED <<cur, attached, stop, prompts, responses>>

(* The guest is gone before the boot is over.  An error the handler names  *)
(* is reported and the state cleared, unless the client is gone and the    *)
(* report raises; any other exception ends the handler.                    *)
BootFailed(c) ==
  /\ pc[c] = "boot"
  /\ TaskFinished(c)
  /\ \/ outcome[cur] \in {"ok", "boot"} /\ StopVm(c, "stop_boot", "read")
     \/ HandlerDies(c)
  /\ UNCHANGED <<boots, shutdown, ready, waiters, launch, outcome, guestVars>>

(* No handshake in time.  cancel() reaches a task that awaits the guest,   *)
(* and may or may not cut short one that is already cleaning up.           *)
Cancel(g) ==
  \/ /\ outcome' = [outcome EXCEPT ![g] = IF launch[g] = "up" THEN "cancelled" ELSE @]
     /\ UNCHANGED launch
  \/ /\ launch[g] = "reaping"
     /\ launch' = [launch EXCEPT ![g] = "done"]
     /\ outcome' = [outcome EXCEPT ![g] = "cancelled"]

BootTimeout(c) ==
  /\ pc[c] = "boot"
  /\ ~TaskFinished(c)
  /\ ~Woken(c) \/ ~IsReady
  /\ \/ /\ cur # 0
        /\ Cancel(cur)
        /\ StopVm(c, "stop_boot", "read") \/ HandlerDies(c)
     \/ /\ cur = 0  \* state.boot_task is None and has no cancel()
        /\ HandlerDies(c)
        /\ UNCHANGED <<launch, outcome>>
  /\ UNCHANGED <<boots, shutdown, ready, waiters, guestVars>>

-----------------------------------------------------------------------------
(* chat_attach and the loop inside it.                                     *)

(* Defect: nobody looks at chat_attached.                                  *)
CanAttachAgain == VmUp

CanAttach == VmUp /\ ~attached

ChatAttach(c) ==
  /\ pc[c] = "read"
  /\ MayChat
  /\ CanAttach
  /\ attached' = TRUE
  /\ pc' = [pc EXCEPT ![c] = "chat"]
  /\ UNCHANGED <<boots, cur, shutdown, ready, stop, queueVars, launch, outcome,
                 guestVars, job>>

(* error idle, or error busy: the handler returns.                         *)
ChatRefused(c) ==
  /\ pc[c] = "read"
  /\ MayChat
  /\ ~CanAttach
  /\ pc' = [pc EXCEPT ![c] = "closed"]
  /\ UNCHANGED <<stateVars, ready, stop, queueVars, launch, outcome, guestVars, job>>

(* The connection takes the response r: back to the loop, or, for the      *)
(* sentinel, error stopped and out.                                        *)
Receive(c, r) ==
  /\ pc' = [pc EXCEPT ![c] = IF r = None THEN "closed" ELSE "chat"]
  /\ job' = [job EXCEPT ![c] = 0]
  /\ attached' = (attached /\ r # None)

(* A user frame: put the prompt, then get a response.  get() takes what    *)
(* lies in the queue even when an older waiter has not resumed yet.        *)
User(c) ==
  /\ pc[c] = "chat"
  /\ MayChat
  /\ cur # 0
  /\ prompts' = [prompts EXCEPT ![cur] = Append(@, c)]
  /\ \/ /\ responses[cur] = <<>>
        /\ waiters' = [waiters EXCEPT ![cur] = Append(@, c)]
        /\ pc' = [pc EXCEPT ![c] = "await"]
        /\ job' = [job EXCEPT ![c] = cur]
        /\ UNCHANGED <<responses, attached>>
     \/ /\ responses[cur] # <<>>
        /\ responses' = [responses EXCEPT ![cur] = Tail(@)]
        /\ Receive(c, Head(responses[cur]))
        /\ UNCHANGED waiters
  /\ UNCHANGED <<boots, cur, shutdown, ready, stop, launch, outcome, guestVars>>

(* A user frame when the queues are gone: the assertion ends the handler.  *)
UserLost(c) ==
  /\ pc[c] = "chat"
  /\ MayChat
  /\ cur = 0
  /\ pc' = [pc EXCEPT ![c] = "closed"]
  /\ attached' = FALSE
  /\ UNCHANGED <<boots, cur, shutdown, ready, stop, queueVars, launch, outcome,
                 guestVars, job>>

Deliver(g) ==
  /\ Deliverable(g)
  /\ responses' = [responses EXCEPT ![g] = Tail(@)]
  /\ waiters' = [waiters EXCEPT ![g] = Tail(@)]
  /\ Receive(Head(waiters[g]), Head(responses[g]))
  /\ UNCHANGED <<boots, cur, shutdown, ready, stop, prompts, launch, outcome,
                 guestVars>>

-----------------------------------------------------------------------------
(* The guest session of a boot, as the queues see it.                      *)

(* on_guest resolves the done future once, with the first result.          *)
Resolve(g, how) ==
  outcome' = [outcome EXCEPT ![g] = IF @ = "pending" THEN how ELSE @]

(* _next_prompt calls on_waiting_prompt, which sets the event that         *)
(* state.ready holds now, whichever boot that is the event of.             *)
AwaitPrompt(g) ==
  /\ sess' = [sess EXCEPT ![g] = "idle"]
  /\ ready' = [ready EXCEPT ![boots] = g]

(* The session of a connected guest may be behind its launch task: when    *)
(* the clean-up was cut short the task is done, and what the guest sent    *)
(* before it was killed is still read.                                     *)
Handshake(g) ==
  /\ sess[g] = "none"
  /\ launch[g] # "none"
  /\ AwaitPrompt(g)
  /\ UNCHANGED <<stateVars, stop, queueVars, launch, outcome, query, turns, pc, job>>

(* The sentinel ends the session.  A prompt opens a turn, or is lost with  *)
(* the session when the guest is no longer there to take it.               *)
TakePrompt(g) ==
  /\ sess[g] = "idle"
  /\ prompts[g] # <<>>
  /\ prompts' = [prompts EXCEPT ![g] = Tail(@)]
  /\ \/ /\ Head(prompts[g]) = None
        /\ sess' = [sess EXCEPT ![g] = "ended"]
        /\ Resolve(g, "ok")
        /\ UNCHANGED <<query, turns>>
     \/ /\ Head(prompts[g]) # None /\ launch[g] # "done"
        /\ sess' = [sess EXCEPT ![g] = "turn"]
        /\ query' = [query EXCEPT ![g] = Head(prompts[g])]
        /\ turns' = [turns EXCEPT ![g] = @ + 1]
        /\ UNCHANGED outcome
     \/ /\ Head(prompts[g]) # None /\ launch[g] = "done"
        /\ sess' = [sess EXCEPT ![g] = "ended"]
        /\ turns' = [turns EXCEPT ![g] = @ + 1]
        /\ UNCHANGED <<query, outcome>>
  /\ UNCHANGED <<stateVars, ready, stop, responses, waiters, launch, pc, job>>

(* Defect: one turn more than MAX_SESSION_TURNS.                           *)
OneTurnMore(g) == turns[g] > MaxTurns

LastTurn(g) == turns[g] >= MaxTurns

(* Defect: the response is handed over only when the session ends.         *)
PutAtTheEnd(g) ==
  responses' = [responses EXCEPT ![g] = IF LastTurn(g) THEN Append(@, query[g]) ELSE @]

PutResponse(g) == responses' = [responses EXCEPT ![g] = Append(@, query[g])]

(* agent_response: the response is put; at the turn cap the session ends.  *)
Respond(g) ==
  /\ sess[g] = "turn"
  /\ PutResponse(g)
  /\ query' = [query EXCEPT ![g] = None]
  /\ \/ /\ LastTurn(g)
        /\ sess' = [sess EXCEPT ![g] = "ended"]
        /\ Resolve(g, "ok")
        /\ UNCHANGED ready
     \/ /\ ~LastTurn(g)
        /\ AwaitPrompt(g)
        /\ UNCHANGED outcome
  /\ UNCHANGED <<stateVars, stop, prompts, waiters, launch, turns, pc, job>>

(* The session ends with no response: turn timeout, a cap, a rejected hop  *)
(* or EOF ("ok"), or an exception out of serve: an OSError of the          *)
(* connection, which _boot_vm names ("boot"), or another.                  *)
Abandon(g) ==
  /\ sess[g] \in {"none", "turn"}
  /\ launch[g] # "none"
  /\ sess' = [sess EXCEPT ![g] = "ended"]
  /\ query' = [query EXCEPT ![g] = None]
  /\ \E how \in {"ok", "boot", "other"} : Resolve(g, how)
  /\ UNCHANGED <<stateVars, ready, stop, queueVars, launch, turns, pc, job>>

-----------------------------------------------------------------------------
(* The launch task of a boot.                                              *)

(* Staging fails, the jailer fails or Firecracker exits: GuestBootTimeout, *)
(* IsolationUnavailable or OSError ("boot"), or another exception.         *)
VmDies(g) ==
  /\ launch[g] = "up"
  /\ outcome[g] = "pending"
  /\ \E how \in {"boot", "other"} : Resolve(g, how)
  /\ UNCHANGED <<stateVars, ready, stop, queueVars, launch, guestVars, pc, job>>

(* Defect: the clean-up does not wake the session.                         *)
ReapQuietly(g) ==
  /\ launch[g] = "up"
  /\ outcome[g] # "pending"
  /\ launch' = [launch EXCEPT ![g] = "reaping"]
  /\ UNCHANGED <<stateVars, ready, stop, queueVars, outcome, guestVars, pc, job>>

(* launch_turn resumes from shield(done) and starts its finally clause:    *)
(* the sentinel in prompts, and only in prompts.                           *)
Reap(g) ==
  /\ launch[g] = "up"
  /\ outcome[g] # "pending"
  /\ launch' = [launch EXCEPT ![g] = "reaping"]
  /\ prompts' = [prompts EXCEPT ![g] = Append(@, None)]
  /\ UNCHANGED <<stateVars, ready, stop, responses, waiters, outcome, guestVars, pc, job>>

(* The guest is killed and server.wait_closed has seen the session end.    *)
Reaped(g) ==
  /\ launch[g] = "reaping"
  /\ sess[g] \in {"none", "ended"}
  /\ launch' = [launch EXCEPT ![g] = "done"]
  /\ sess' = [sess EXCEPT ![g] = "ended"]
  /\ UNCHANGED <<stateVars, ready, stop, queueVars, outcome, query, turns, pc, job>>

-----------------------------------------------------------------------------
Command(c) == Start(c) \/ Stop(c) \/ ChatStop(c) \/ Shutdown(c)
Boot(c) == StartOk(c) \/ BootFailed(c) \/ BootTimeout(c)
Chat(c) == ChatAttach(c) \/ ChatRefused(c) \/ User(c) \/ UserLost(c)
Session(g) == Handshake(g) \/ TakePrompt(g) \/ Respond(g) \/ Abandon(g)
Launch(g) == VmDies(g) \/ Reap(g) \/ Reaped(g)

Next ==
  \/ \E c \in Conns : Connect(c) \/ Disconnect(c) \/ Command(c) \/ Boot(c) \/ Chat(c)
  \/ \E p \in Procs : StopResume(p)
  \/ \E g \in Gens : Deliver(g) \/ Session(g) \/ Launch(g)
  \/ Signal \/ MainStop \/ MainExit

Spec == Init /\ [][Next]_vars

(* The control plane keeps its contract with its clients, also when their  *)
(* commands overlap: a stop is never reported while the VM that was up     *)
(* when it was asked for is, and no start boots over a VM that is up.      *)
Contract == INSTANCE ControlContract WITH
  Askers <- Procs,
  vm <- IF VmUp THEN cur ELSE 0,
  waits <- [p \in Procs |-> IF pc[p] \in Stopping THEN job[p] ELSE 0]

ImplementsContract == Contract!Spec

(***************************************************************************)
(* Fairness.  A coroutine that can resume does.  A boot is over within     *)
(* READY_WAIT_SEC and a turn within TURN_TIMEOUT_SEC: the waits have       *)
(* timeouts.  Nothing is assumed of a client, nor of a guest that has not  *)
(* shaken hands, and a VM need not die.                                    *)
(***************************************************************************)
Fairness ==
  /\ \A c \in Conns : WF_vars(Boot(c))
  /\ \A p \in Procs : WF_vars(StopResume(p))
  /\ \A g \in Gens :
       /\ WF_vars(Deliver(g))
       /\ WF_vars(TakePrompt(g))
       /\ WF_vars(sess[g] = "turn" /\ (Respond(g) \/ Abandon(g)))
       /\ WF_vars(Reap(g))
       /\ WF_vars(Reaped(g))
  /\ WF_vars(MainStop)
  /\ WF_vars(MainExit)

FairSpec == Spec /\ Fairness

-----------------------------------------------------------------------------
(* What the control plane promises.                                        *)

Live(g) == launch[g] \in {"up", "reaping"}

(* One guest at a time, and the Node knows it: every VM whose launch task  *)
(* is not over is the one the state refers to, so that a stop reaches it.  *)
OneGuest == \A g \in Gens : Live(g) => g = cur

(* The connections coupled to boot g: in the attach loop of the current VM *)
(* or suspended on the responses of g.                                     *)
Coupled(g) == {c \in Conns : \/ pc[c] = "chat" /\ cur = g
                             \/ pc[c] = "await" /\ job[c] = g}

(* chat_attach is exclusive: two connections are never coupled to one VM,  *)
(* and the one that is coupled to a running VM is known as attached.       *)
ExclusiveAttach ==
  cur # 0 =>
    /\ \A c, d \in Coupled(cur) : c = d
    /\ VmUp /\ Coupled(cur) # {} => attached

(* chat_attached never outlives its chat: when it is set, some connection  *)
(* is in the attach loop and will clear it when it leaves.                 *)
AttachedHasChat ==
  attached => \E c \in Conns : pc[c] \in {"chat", "await", "stop_chat"}

(* A session that waits for a prompt can always be ended: once its VM was  *)
(* asked to stop, or its launch task has begun to clean up, the sentinel   *)
(* lies in its queue, so that wait_closed and _stop_vm do not hang on it.  *)
SentinelPending ==
  \A g \in Gens :
    sess[g] = "idle" /\ (stop[g] \/ launch[g] = "reaping")
      => \E i \in DOMAIN prompts[g] : prompts[g][i] = None

(* Whoever takes a response takes the answer to its own prompt.            *)
ReplyToAsker ==
  [][/\ \A g \in Gens :
          Deliver(g) => Head(responses[g]) \in {Head(waiters[g]), None}
     /\ \A c \in Conns :
          User(c) /\ responses[cur] # <<>> => Head(responses[cur]) = None]_vars

(* Another boot's session set the ready event of g: a session that was     *)
(* still open when the clean-up of its launch task was cancelled.          *)
SetByAnother(g) ==
  /\ ready[g] \notin {0, g}
  /\ launch[ready[g]] = "done" /\ outcome[ready[g]] = "cancelled"

(* start_ok is written for the guest that this start booted, once it has   *)
(* shaken hands.  The one exception: a guest left over by a cancelled      *)
(* clean-up shakes hands late, in the name of the current boot.            *)
StartOkMeansReady ==
  [][\A c \in Conns :
       StartOk(c) => cur = job[c] /\ (sess[cur] # "none" \/ SetByAnother(cur))]_vars

(* A VM whose start was over at the handshake of another's session, and    *)
(* which has not shaken hands: no timeout is left that would end it.       *)
Unmet(g) == g # 0 /\ launch[g] = "up" /\ sess[g] = "none" /\ SetByAnother(g)

(* No stop, shutdown or SIGTERM waits for ever: the sentinel ends the      *)
(* session after the turn in progress.  The stop of an unmet VM may.       *)
StopAnswered ==
  \A p \in Procs :
    pc[p] \in Stopping ~> (pc[p] \notin Stopping \/ []Unmet(job[p]))

(* A stop releases the chat that is waiting for a response.                *)
StopReleasesChat ==
  \A c \in Conns : \A g \in Gens :
    (pc[c] = "await" /\ job[c] = g /\ stop[g]) ~> pc[c] # "await"

(* A chat is answered unless its guest ends by itself, or is unmet.        *)
ChatAnsweredWhileUp ==
  \A c \in Conns :
    pc[c] = "await" ~> (pc[c] # "await" \/ ~Live(job[c]) \/ []Unmet(job[c]))

(* Every chat is answered, with the response or with "stopped".            *)
ChatAnswered == \A c \in Conns : pc[c] = "await" ~> pc[c] # "await"
=============================================================================
