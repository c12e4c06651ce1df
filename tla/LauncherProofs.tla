---------------------------- MODULE LauncherProofs ----------------------------
(***************************************************************************)
(* What a launch task leaves behind, and that it implements what the       *)
(* control plane relies on.  Launcher has no constants: the theorems are   *)
(* about all of its behaviours, and the invariants say why they hold.      *)
(***************************************************************************)
EXTENDS Launcher, TLAPS

-----------------------------------------------------------------------------
(* The inductive invariant, in parts.                                      *)

Killed == fc \in {"killed", "dead"}

(* The jailer makes Firecracker, then the pid file, and a pid is known     *)
(* only from the file.  Before the jailer there is no guest and no result. *)
HostInv ==
  /\ jailer = "none" => fc = "none" /\ done = "pending" /\ sess = "none" /\ fcWatch = "off"
  /\ fc = "none" => pidFile = "absent" /\ sess = "none"
  /\ fcPid => pidFile = "written"

(* What launch_turn has set up when it is suspended.                       *)
StageInv ==
  /\ launch \in {"begin", "bind"} => jailer = "none"
  /\ launch \in {"spawn", "await"} => jailer # "none"
  /\ launch = "begin" => server = "none" /\ ~dir
  /\ launch \in {"bind", "spawn", "await"} => server = "open"
  /\ server \in {"none", "lost"} => jailer = "none"
  /\ server = "lost" => /\ launch \in Cleaning \cup {"done"}
                        /\ outcome = "cancelled" \/ cut = "raise"

(* Once the finally clause has named the process, either it is killed, or  *)
(* there is no pid and nobody is left to write one.                        *)
ReapInv ==
  /\ launch = "reap" => Killed
  /\ launch \in {"jailer", "server", "done"} /\ cut # "raise" =>
       Killed \/ (jailer # "running" /\ pidFile # "written")

(* What the finally clause has taken away so far, as long as nothing cuts  *)
(* it short.                                                               *)
CleanInv ==
  /\ launch # "done" => cut = "no"
  /\ launch \in {"jailer", "server"} => jailer # "running"
  /\ launch = "server" => server # "open"
  /\ NothingLeft

LaunchInv == TypeOK /\ HostInv /\ StageInv /\ ReapInv /\ CleanInv

LEMMA LaunchInit == Init => LaunchInv
BY DEF Init, LaunchInv, TypeOK, HostInv, StageInv, ReapInv, CleanInv, NothingLeft, Up, Connected,
       Listening, Killed

(* The first result stays.                                                 *)
LEMMA ResolveKeeps ==
  ASSUME TypeOK, NEW how \in {"ok", "boot", "other"}, Resolve(how)
  PROVE  done' \in {"pending", "ok", "boot", "other"} /\ (done # "pending" => done' = done)
BY DEF TypeOK, Resolve

LEMMA TypeNext == TypeOK /\ [Next]_vars => TypeOK'
<1> SUFFICES ASSUME TypeOK, [Next]_vars PROVE TypeOK'
  OBVIOUS
<1> USE DEF TypeOK, Up, Cleaning, vars, taskVars, watchVars, hostVars, fileVars, guestVars
<1>1. CASE Refused \/ Stage
  BY <1>1 DEF Refused, Stage, StageFails, Finally, Raised
<1>2. CASE Spawn \/ Watch \/ Await
  BY <1>2 DEF Spawn, Watch, Await, Finally, Raised
<1>3. CASE Cancel
  <2>1. CASE launch \in {"bind", "spawn", "await"}
    <3>1. /\ launch' = "watchers" /\ outcome' = "cancelled" /\ sentinel' = (sentinel \/ ~once)
          /\ cancelled' = TRUE /\ UNCHANGED <<once, done, watchVars, fc, pidFile, dir, sess, cut>>
      BY <1>3, <2>1 DEF Cancel, Finally
    <3>2. server' \in {server, "lost"} /\ jailer' \in {jailer, "failed"}
      BY <1>3, <2>1 DEF Cancel
    <3> QED
      BY <3>1, <3>2
  <2>2. CASE launch \in Cleaning
    <3>1. /\ UNCHANGED <<launch, outcome, cut, sentinel>> \/ Leave("cancelled", "cancel")
          /\ UNCHANGED <<sentinel, server, jailer>>
      BY <1>3, <2>2 DEF Cancel
    <3> QED
      BY <1>3, <3>1 DEF Cancel, Leave
  <2> QED
    BY <1>3, <2>1, <2>2 DEF Cancel
<1>4. CASE CleanUp
  BY <1>4 DEF CleanUp, Reap, Reaped, CloseServer, RemoveDir, KillJailer, Leave
<1>5. CASE Watchers
  BY <1>5, ResolveKeeps DEF Watchers, WatchJailer, PollPid, WatchFirecracker
<1>6. CASE Jailer \/ Crash \/ SigKill
  BY <1>6 DEF Jailer, Crash, SigKill, Dies
<1>7. CASE Guest
  BY <1>7, ResolveKeeps
     DEF Guest, Connect, Listening, AwaitPrompt, Prompt, TakeSentinel, SessionEnds
<1>8. CASE RequestStop \/ UNCHANGED vars
  BY <1>8 DEF RequestStop
<1> QED
  BY <1>1, <1>2, <1>3, <1>4, <1>5, <1>6, <1>7, <1>8 DEF Next, Launch

LEMMA HostNext == LaunchInv /\ [Next]_vars => HostInv'
<1> SUFFICES ASSUME TypeOK, HostInv, StageInv, [Next]_vars PROVE HostInv'
  BY DEF LaunchInv
<1> USE DEF HostInv, vars, taskVars, watchVars, hostVars, fileVars, guestVars
<1>1. CASE Launch
  <2>1. UNCHANGED <<done, fc, pidFile, fcPid, sess>>
    BY <1>1 DEF Launch, Refused, Stage, Spawn, Watch, Await
  <2>2. \/ UNCHANGED <<jailer, fcWatch>>
        \/ launch = "bind" /\ jailer' = "running" /\ UNCHANGED fcWatch
        \/ launch = "spawn" /\ UNCHANGED jailer
    BY <1>1 DEF Launch, Refused, Stage, Spawn, Watch, Await
  <2> QED
    BY <2>1, <2>2 DEF StageInv
<1>2. CASE Cancel
  BY <1>2 DEF Cancel, ServerClosed, Connected, Finally, Leave
<1>3. CASE CleanUp
  BY <1>3 DEF CleanUp, Reap, Reaped, CloseServer, RemoveDir, KillJailer, Leave
<1>4. CASE Watchers
  BY <1>4 DEF StageInv, Watchers, WatchJailer, PollPid, WatchFirecracker, Resolve
<1>5. CASE Jailer \/ Crash \/ SigKill
  BY <1>5 DEF Jailer, Crash, SigKill, Dies
<1>6. CASE Guest
  BY <1>6 DEF Guest, Connect, Listening, AwaitPrompt, Prompt, TakeSentinel, SessionEnds
<1>7. CASE RequestStop \/ UNCHANGED vars
  BY <1>7 DEF RequestStop
<1> QED
  BY <1>1, <1>2, <1>3, <1>4, <1>5, <1>6, <1>7 DEF Next

LEMMA StageNext == LaunchInv /\ [Next]_vars => StageInv'
<1> SUFFICES ASSUME TypeOK, StageInv, [Next]_vars PROVE StageInv'
  BY DEF LaunchInv
<1> USE DEF StageInv, vars, taskVars, watchVars, hostVars, fileVars, guestVars, Cleaning
<1>1. CASE Launch
  BY <1>1 DEF Launch, Refused, Stage, StageFails, Spawn, Watch, Await, Finally
<1>2. CASE Cancel
  BY <1>2 DEF Cancel, ServerClosed, Connected, Finally, Leave
<1>3. CASE Reap
  BY <1>3 DEF Reap, KillJailer, Leave
<1>4. CASE Reaped \/ CloseServer \/ RemoveDir
  BY <1>4 DEF Reaped, CloseServer, RemoveDir, KillJailer
<1>5. CASE Watchers
  BY <1>5 DEF Watchers, WatchJailer, PollPid, WatchFirecracker
<1>6. CASE Jailer \/ Crash \/ SigKill
  BY <1>6 DEF Jailer, Crash, SigKill, Dies
<1>7. CASE Guest
  BY <1>7 DEF Guest, Connect, Listening, AwaitPrompt, Prompt, TakeSentinel, SessionEnds
<1>8. CASE RequestStop \/ UNCHANGED vars
  BY <1>8 DEF RequestStop
<1> QED
  BY <1>1, <1>2, <1>3, <1>4, <1>5, <1>6, <1>7, <1>8 DEF Next, CleanUp

LEMMA ReapNext == LaunchInv /\ [Next]_vars => ReapInv'
<1> SUFFICES ASSUME TypeOK, HostInv, StageInv, ReapInv, CleanInv, [Next]_vars PROVE ReapInv'
  BY DEF LaunchInv
<1> USE DEF ReapInv, Killed, vars, taskVars, watchVars, hostVars, fileVars, guestVars
<1>1. CASE Launch
  BY <1>1 DEF HostInv, StageInv, Launch, Refused, Stage, StageFails, Spawn, Watch, Await, Finally
<1>2. CASE Cancel
  BY <1>2 DEF CleanInv, Cancel, ServerClosed, Connected, Finally, Leave
<1>3. CASE Reap
  BY <1>3 DEF TypeOK, HostInv, Reap, ReadRaises, Named, KillJailer, Leave
<1>4. CASE Reaped \/ CloseServer \/ RemoveDir
  BY <1>4 DEF CleanInv, Reaped, CloseServer, RemoveDir, KillJailer
<1>5. CASE Watchers
  BY <1>5 DEF Watchers, WatchJailer, PollPid, WatchFirecracker
<1>6. CASE Jailer \/ Crash \/ SigKill
  BY <1>6 DEF HostInv, Jailer, Crash, SigKill, Dies
<1>7. CASE Guest
  BY <1>7 DEF Guest, Connect, Listening, AwaitPrompt, Prompt, TakeSentinel, SessionEnds
<1>8. CASE RequestStop \/ UNCHANGED vars
  BY <1>8 DEF RequestStop
<1> QED
  BY <1>1, <1>2, <1>3, <1>4, <1>5, <1>6, <1>7, <1>8 DEF Next, CleanUp

LEMMA CleanNext == LaunchInv /\ [Next]_vars => CleanInv'
<1> SUFFICES ASSUME TypeOK, HostInv, StageInv, CleanInv, [Next]_vars PROVE CleanInv'
  BY DEF LaunchInv
<1> USE DEF CleanInv, NothingLeft, Connected, Listening, vars, taskVars, watchVars, hostVars,
            fileVars, guestVars
<1>1. CASE Launch
  BY <1>1 DEF HostInv, StageInv, Launch, Refused, Stage, StageFails, Spawn, Watch, Await, Finally
<1>2. CASE Cancel
  BY <1>2 DEF Cancel, ServerClosed, Connected, Finally, Leave
<1>3. CASE Reap \/ Reaped \/ CloseServer
  BY <1>3 DEF Reap, Reaped, CloseServer, KillJailer, Leave
<1>4. CASE RemoveDir
  BY <1>4 DEF TypeOK, HostInv, StageInv, RemoveDir, ServerClosed
<1>5. CASE Watchers
  BY <1>5 DEF Watchers, WatchJailer, PollPid, WatchFirecracker
<1>6. CASE Jailer \/ Crash \/ SigKill
  BY <1>6 DEF HostInv, StageInv, Jailer, Crash, SigKill, Dies
<1>7. CASE Guest
  BY <1>7 DEF HostInv, StageInv, Guest, Connect, AwaitPrompt, Prompt, TakeSentinel, SessionEnds
<1>8. CASE RequestStop \/ UNCHANGED vars
  BY <1>8 DEF RequestStop
<1> QED
  BY <1>1, <1>2, <1>3, <1>4, <1>5, <1>6, <1>7, <1>8 DEF Next, CleanUp

LEMMA LaunchNext == LaunchInv /\ [Next]_vars => LaunchInv'
BY TypeNext, HostNext, StageNext, ReapNext, CleanNext DEF LaunchInv

-----------------------------------------------------------------------------
(* The state of a launch task stays within its types: nothing it, the      *)
(* jailer, the guest or the control plane does takes it anywhere else.     *)
THEOREM TypeCorrect == Spec => []TypeOK
<1>1. Init => TypeOK
  BY LaunchInit DEF LaunchInv
<1> QED
  BY <1>1, TypeNext, PTL DEF Spec

(* No VM outlives its launch task, wherever the task was cancelled, once   *)
(* the jailer's file names it and is not met half-written.                 *)
THEOREM NoVmIsOrphaned == Spec => []NoOrphan
<1>1. LaunchInv => NoOrphan
  BY DEF LaunchInv, ReapInv, Killed, NoOrphan
<1> QED
  BY <1>1, LaunchInit, LaunchNext, PTL DEF Spec

(* A launch task that was not cut short leaves no jailer, no directory and *)
(* no session, none comes back after it, and the only listener that stays  *)
(* is that of a task cancelled at its bind, which started no jailer.       *)
THEOREM CleansUp == Spec => []NothingLeft
<1>1. LaunchInv => NothingLeft
  BY DEF LaunchInv, CleanInv
<1> QED
  BY <1>1, LaunchInit, LaunchNext, PTL DEF Spec

-----------------------------------------------------------------------------
(* The safety side of the two liveness properties that TLC checks: while   *)
(* what they wait for has not come, some step that brings it can be taken. *)

(* The clean-up waits for a session that reads from the guest, a wait that *)
(* TURN_TIMEOUT_SEC bounds, or for one that finds the sentinel.            *)
CleanUpIsNotStuck ==
  launch = "server" => \/ ServerClosed
                       \/ sess = "busy"
                       \/ sess = "idle" /\ sentinel

(* The task awaits a result: a watcher is about to give it that of a dead  *)
(* VM or a failed jailer, unless one met the half-written pid file.        *)
DeathIsWatched ==
  launch = "await" /\ done = "pending" /\ (fc = "dead" \/ jailer = "failed") =>
    \/ fcWatch \in {"poll", "failed"}
    \/ fcWatch = "watch" /\ fc = "dead"
    \/ jailWatch = "on" /\ jailer = "failed"

(* Only a session of a VM with a queue waits for a prompt, and the finally *)
(* clause has put the sentinel in every queue before it waits.             *)
WakeInv ==
  /\ once => sess # "idle"
  /\ launch \in Cleaning /\ ~once => sentinel

(* A watcher that is gone without a result has seen the jailer succeed, or *)
(* leaves its failure to the one that still watches it.                    *)
WatchInv ==
  launch = "await" /\ done = "pending" =>
    /\ jailWatch = "on" \/ jailer = "ok"
    /\ fcWatch \in {"poll", "watch", "failed"} \/ (jailWatch = "on" /\ jailer = "failed")

LEMMA WakeNext == WakeInv /\ [Next]_vars => WakeInv'
<1> SUFFICES ASSUME WakeInv, [Next]_vars PROVE WakeInv'
  OBVIOUS
<1> USE DEF WakeInv, vars, taskVars, watchVars, hostVars, fileVars, guestVars, Cleaning
<1>f. ASSUME NEW how, Finally(how) PROVE sentinel' \/ once
  BY <1>f, Zenon DEF Finally
<1>1. CASE Launch
  <2>1. CASE Refused \/ Watch
    BY <2>1 DEF Refused, Watch
  <2>2. CASE \E how : Finally(how)
    <3>1. UNCHANGED <<once, sess>>
      BY <1>1 DEF Launch, Refused, Stage, Spawn, Watch, Await
    <3>2. sentinel' \/ once
      BY <1>f, <2>2, Zenon
    <3> QED
      BY <3>1, <3>2
  <2>3. CASE (Stage \/ Spawn) /\ ~ \E how : Finally(how)
    BY <2>3 DEF Stage, StageFails, Spawn
  <2> QED
    BY <1>1, <2>1, <2>2, <2>3, Zenon DEF Launch, Await
<1>2. CASE Cancel
  <2>1. CASE Finally("cancelled")
    BY <1>2, <1>f, <2>1, Zenon DEF Cancel
  <2>2. CASE UNCHANGED <<launch, sentinel>> \/ (Leave("cancelled", "cancel") /\ UNCHANGED sentinel)
    BY <1>2, <2>2 DEF Cancel, Leave
  <2> QED
    BY <1>2, <2>1, <2>2 DEF Cancel
<1>3. CASE CleanUp
  BY <1>3 DEF CleanUp, Reap, Reaped, CloseServer, RemoveDir, KillJailer, Leave
<1>4. CASE Watchers
  BY <1>4 DEF Watchers, WatchJailer, PollPid, WatchFirecracker
<1>5. CASE Jailer \/ Crash \/ SigKill
  BY <1>5 DEF Jailer, Crash, SigKill, Dies
<1>6. CASE Guest
  BY <1>6 DEF Guest, Connect, Listening, AwaitPrompt, Prompt, TakeSentinel, SessionEnds
<1>7. CASE RequestStop \/ UNCHANGED vars
  BY <1>7 DEF RequestStop
<1> QED
  BY <1>1, <1>2, <1>3, <1>4, <1>5, <1>6, <1>7 DEF Next

LEMMA WatchNext == TypeOK /\ WatchInv /\ [Next]_vars => WatchInv'
<1> SUFFICES ASSUME TypeOK, WatchInv, [Next]_vars PROVE WatchInv'
  OBVIOUS
<1> USE DEF WatchInv, vars, taskVars, watchVars, hostVars, fileVars, guestVars
<1>1. CASE Launch
  BY <1>1 DEF Launch, Refused, Stage, StageFails, Spawn, Watch, Await, Finally
<1>2. CASE Cancel
  BY <1>2 DEF Cancel, Finally, Leave
<1>3. CASE CleanUp
  BY <1>3 DEF CleanUp, Reap, Reaped, CloseServer, RemoveDir, KillJailer, Leave
<1>4. CASE Watchers
  <2>1. CASE WatchJailer
    BY <2>1 DEF WatchJailer, Resolve
  <2>2. CASE PollPid
    BY <2>2 DEF PollPid, Resolve
  <2>3. CASE WatchFirecracker
    BY <2>3 DEF WatchFirecracker, Resolve
  <2> QED
    BY <1>4, <2>1, <2>2, <2>3 DEF Watchers
<1>5. CASE Jailer \/ Crash \/ SigKill
  BY <1>5 DEF Jailer, Crash, SigKill, Dies
<1>6. CASE Guest
  BY <1>6 DEF Guest, Connect, Listening, AwaitPrompt, Prompt, TakeSentinel, SessionEnds, Resolve
<1>7. CASE RequestStop \/ UNCHANGED vars
  BY <1>7 DEF RequestStop
<1> QED
  BY <1>1, <1>2, <1>3, <1>4, <1>5, <1>6, <1>7 DEF Next

(* The finally clause never waits for a session that waits for a prompt    *)
(* which does not come: what CleanUpEnds rests on besides fairness.        *)
THEOREM CleanUpCanGoOn == Spec => []CleanUpIsNotStuck
<1>1. Init => TypeOK /\ WakeInv
  BY LaunchInit DEF LaunchInv, Init, WakeInv, Cleaning
<1>2. TypeOK /\ WakeInv /\ [Next]_vars => TypeOK' /\ WakeInv'
  BY TypeNext, WakeNext
<1>3. TypeOK /\ WakeInv => CleanUpIsNotStuck
  BY DEF TypeOK, WakeInv, CleanUpIsNotStuck, ServerClosed, Connected, Cleaning
<1> QED
  BY <1>1, <1>2, <1>3, PTL DEF Spec

(* No VM dies and no jailer fails unwatched while launch_turn awaits the   *)
(* result, unless watch_firecracker died of a half-written pid file: what  *)
(* DeathNoticed rests on besides fairness.                                 *)
THEOREM DeathHasWatcher == Spec => []DeathIsWatched
<1>1. Init => TypeOK /\ WatchInv
  BY LaunchInit DEF LaunchInv, Init, WatchInv
<1>2. TypeOK /\ WatchInv /\ [Next]_vars => TypeOK' /\ WatchInv'
  BY TypeNext, WatchNext
<1>3. TypeOK /\ WatchInv => DeathIsWatched
  BY DEF TypeOK, WatchInv, DeathIsWatched
<1> QED
  BY <1>1, <1>2, <1>3, PTL DEF Spec

-----------------------------------------------------------------------------
(* The refinement mapping of Contract, by name.                            *)
Task == IF launch \in Up THEN "up" ELSE IF launch = "done" THEN "done" ELSE "reaping"
Ended == IF launch \in Up THEN done ELSE outcome

(* A first result, while launch_turn awaits it or is about to; later ones, *)
(* and those that come while it cleans up, change nothing.                 *)
LEMMA ResolveStep ==
  ASSUME NEW how \in {"ok", "boot", "other"}, Resolve(how), UNCHANGED <<launch, outcome>>
  PROVE  [Contract!Next]_<<Task, Ended>>
<1>1. UNCHANGED Task
  BY DEF Task
<1>2. CASE launch \in Up /\ done = "pending"
  <2>1. Task = "up" /\ Ended = "pending" /\ Ended' = how
    BY <1>2 DEF Task, Ended, Resolve
  <2>2. Contract!Resolve
    BY <1>1, <2>1 DEF Contract!Resolve, Contract!Results, Task, Ended
  <2> QED
    BY <2>2 DEF Contract!Next
<1>3. CASE ~(launch \in Up /\ done = "pending")
  <2>1. UNCHANGED Ended
    BY <1>3 DEF Ended, Resolve
  <2> QED
    BY <1>1, <2>1
<1> QED
  BY <1>2, <1>3

(* The finally clause begins with the first result, with one of its own if *)
(* there was none, or with the cancellation.                               *)
LEMMA FinallyStep ==
  ASSUME NEW how, launch \in Up, Finally(how),
         \/ how = "cancelled"
         \/ IF done = "pending" THEN how \in {"ok", "boot", "other"} ELSE how = done
  PROVE  [Contract!Next]_<<Task, Ended>>
<1>1. Task = "up" /\ Task' = "reaping" /\ Ended = done /\ Ended' = how
  BY DEF Finally, Up, Task, Ended
<1>2. CASE how = "cancelled"
  <2>1. Contract!Cancelled
    BY <1>1, <1>2 DEF Contract!Cancelled, Task, Ended
  <2> QED
    BY <2>1 DEF Contract!Next
<1>3. CASE how # "cancelled"
  <2>1. Contract!Reap
    BY <1>1, <1>3 DEF Contract!Reap, Contract!Results, Task, Ended
  <2> QED
    BY <2>1 DEF Contract!Next
<1> QED
  BY <1>2, <1>3

(* The finally clause ends when it has removed the directory, or is cut    *)
(* short.                                                                  *)
LEMMA DoneStep ==
  ASSUME launch \in Cleaning, launch' = "done",
         UNCHANGED outcome \/ outcome' \in {"cancelled", "other"}
  PROVE  [Contract!Next]_<<Task, Ended>>
<1>1. Task = "reaping" /\ Task' = "done" /\ Ended = outcome /\ Ended' = outcome'
  BY DEF Cleaning, Up, Task, Ended
<1>2. Contract!Reaped \/ Contract!CutShort
  BY <1>1 DEF Contract!Reaped, Contract!CutShort, Task, Ended
<1> QED
  BY <1>2 DEF Contract!Next

LEMMA HiddenStep ==
  ASSUME UNCHANGED <<outcome, done>>,
         \/ UNCHANGED launch
         \/ {launch, launch'} \subseteq Up
         \/ {launch, launch'} \subseteq Cleaning
  PROVE  [Contract!Next]_<<Task, Ended>>
BY DEF Up, Cleaning, Task, Ended

LEMMA ContractNext == LaunchInv /\ [Next]_vars => [Contract!Next]_<<Task, Ended>>
<1> SUFFICES ASSUME TypeOK, HostInv, StageInv, [Next]_vars
             PROVE  [Contract!Next]_<<Task, Ended>>
  BY DEF LaunchInv
<1> USE DEF taskVars, watchVars, hostVars, fileVars, guestVars
<1>1. CASE Refused
  <2>1. launch = "begin" /\ launch' = "done" /\ done = "pending" /\ outcome' \in Raised
    BY <1>1 DEF Refused, HostInv, StageInv
  <2>2. Task = "up" /\ Task' = "done" /\ Ended = "pending" /\ Ended' \in {"boot", "other"}
    BY <2>1 DEF Raised, Up, Task, Ended
  <2>3. Contract!Refused
    BY <2>2 DEF Contract!Refused, Contract!Results, Task, Ended
  <2> QED
    BY <2>3 DEF Contract!Next
<1>2. CASE Stage
  <2>1. launch \in Up /\ done = "pending" /\ UNCHANGED done
    BY <1>2 DEF Stage, HostInv, StageInv, Up
  <2>2. ASSUME NEW how \in Raised, Finally(how) PROVE [Contract!Next]_<<Task, Ended>>
    BY <2>1, <2>2, FinallyStep DEF Raised
  <2>3. CASE launch' = "bind" /\ UNCHANGED outcome
    BY <2>1, <2>3, HiddenStep DEF Up
  <2> QED
    BY <1>2, <2>2, <2>3 DEF Stage, StageFails
<1>3. CASE Spawn
  <2>1. launch \in Up /\ done = "pending" /\ UNCHANGED done
    BY <1>3 DEF Spawn, HostInv, StageInv, Up
  <2>2. ASSUME NEW how \in Raised, Finally(how) PROVE [Contract!Next]_<<Task, Ended>>
    BY <2>1, <2>2, FinallyStep DEF Raised
  <2>3. CASE launch' = "spawn" /\ UNCHANGED outcome
    BY <2>1, <2>3, HiddenStep DEF Up
  <2> QED
    BY <1>3, <2>2, <2>3 DEF Spawn
<1>4. CASE Watch
  BY <1>4, HiddenStep DEF Watch, Up
<1>5. CASE Await
  <2>1. launch \in Up
    BY <1>5 DEF Await, Up
  <2>2. \/ Finally(done) /\ done # "pending"
        \/ Finally("boot") /\ done = "pending"
    BY <1>5 DEF Await
  <2> QED
    BY <2>1, <2>2, FinallyStep
<1>6. CASE Cancel
  <2>1. ASSUME launch \in {"bind", "spawn", "await"}, Finally("cancelled")
        PROVE  [Contract!Next]_<<Task, Ended>>
    BY <2>1, FinallyStep DEF Up
  <2>2. ASSUME launch \in {"reap", "jailer", "server"}, Leave("cancelled", "cancel")
        PROVE  [Contract!Next]_<<Task, Ended>>
    BY <2>2, DoneStep DEF Leave, Cleaning
  <2>3. ASSUME UNCHANGED <<launch, outcome, done>> PROVE [Contract!Next]_<<Task, Ended>>
    BY <2>3, HiddenStep
  <2> QED
    BY <1>6, <2>1, <2>2, <2>3 DEF Cancel
<1>7. CASE Reap
  <2>1. ASSUME Leave("other", "raise") PROVE [Contract!Next]_<<Task, Ended>>
    BY <1>7, <2>1, DoneStep DEF Reap, Leave, Cleaning
  <2>2. ASSUME launch' \in Cleaning, UNCHANGED outcome PROVE [Contract!Next]_<<Task, Ended>>
    BY <1>7, <2>2, HiddenStep DEF Reap, Cleaning
  <2> QED
    BY <1>7, <2>1, <2>2 DEF Reap, KillJailer, Cleaning
<1>8. CASE Reaped \/ CloseServer
  BY <1>8, HiddenStep DEF Reaped, CloseServer, KillJailer, Cleaning
<1>9. CASE RemoveDir
  BY <1>9, DoneStep DEF RemoveDir, Cleaning
<1>10. CASE Watchers \/ TakeSentinel \/ SessionEnds
  <2>1. /\ UNCHANGED <<launch, outcome>>
        /\ UNCHANGED done \/ \E how \in {"ok", "boot", "other"} : Resolve(how)
    BY <1>10 DEF Watchers, WatchJailer, PollPid, WatchFirecracker, TakeSentinel, SessionEnds
  <2> QED
    BY <2>1, HiddenStep, ResolveStep
<1>11. CASE Jailer \/ Crash \/ SigKill \/ Connect \/ AwaitPrompt \/ Prompt \/ RequestStop
            \/ UNCHANGED vars
  <2>1. UNCHANGED <<launch, outcome, done>>
    BY <1>11 DEF Jailer, Crash, SigKill, Dies, Connect, AwaitPrompt, Prompt, RequestStop, vars
  <2> QED
    BY <2>1, HiddenStep
<1> QED
  BY <1>1, <1>2, <1>3, <1>4, <1>5, <1>6, <1>7, <1>8, <1>9, <1>10, <1>11
     DEF Next, Launch, CleanUp, Guest

(* launch_turn implements what NodeControl drives its boots with: the task *)
(* ends with the first result or with the cancellation that came before    *)
(* it, and is done only after its finally clause.                          *)
THEOREM LauncherKeepsContract == Spec => ImplementsContract
<1>1. Init => Contract!Init
  BY DEF Init, Contract!Init, Up
<1>2. LaunchInv /\ [Next]_vars => [Contract!Next]_<<Task, Ended>>
  BY ContractNext
<1> QED
  BY <1>1, <1>2, LaunchInit, LaunchNext, PTL
     DEF Spec, ImplementsContract, Contract!Spec, Task, Ended

===============================================================================
