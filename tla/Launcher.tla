------------------------------- MODULE Launcher -------------------------------
(***************************************************************************)
(* The life of one VM: launch_turn in vm/launcher.py, the two tasks that   *)
(* watch the jailer and Firecracker, the connection of the guest, and the  *)
(* finally clause that must leave nothing behind.  The jailer, Firecracker *)
(* and the kernel are external.  The control plane puts the sentinel in    *)
(* the queue of prompts (request_stop) and may cancel the task once, when  *)
(* the boot takes too long.                                                *)
(*                                                                         *)
(* launch is where launch_turn is suspended.  A cancellation takes effect  *)
(* in the step that sends it.                                              *)
(***************************************************************************)
EXTENDS Naturals

VARIABLES
  launch,     \* "begin", "bind", "spawn", "await" | in the finally clause
              \* "watchers", "reap", "jailer", "server" | "done"
  outcome,    \* how launch_turn ends
  once,       \* config.once: one prompt, no queue, a timeout
  done,       \* the future of the result
  jailer,     \* "none", "running", "ok", "failed"
  fc,         \* Firecracker: "none", "alive", "killed" (SIGKILL is on its
              \* way), "dead"
  pidFile,    \* written by the jailer: "absent", "empty", "written"
  jailWatch,  \* watch_jailer: "off" or "on"
  fcWatch,    \* watch_firecracker: "off", "poll", "watch", or "failed" by an
              \* exception that nobody sees
  fcPid,      \* fc_pid is known
  dir,        \* the instance directory exists
  server,     \* "none", "open", "lost" (open, and no variable holds it),
              \* "closed"
  sess,       \* "none", "busy" (reads from the guest), "idle" (awaits a
              \* prompt), "ended"
  sentinel,   \* the sentinel lies in the queue of prompts
  cancelled,  \* the control plane has cancelled the task
  cut         \* what ended the finally clause early: "no", "cancel", "raise"

taskVars == <<launch, outcome, once, cancelled, cut>>
watchVars == <<jailWatch, fcWatch, fcPid>>
hostVars == <<jailer, fc, pidFile>>
fileVars == <<dir, server>>
guestVars == <<sess, sentinel>>
vars == <<taskVars, done, watchVars, hostVars, fileVars, guestVars>>

Up == {"begin", "bind", "spawn", "await"}
Cleaning == {"watchers", "reap", "jailer", "server"}
Connected == sess \in {"busy", "idle"}
Listening == server \in {"open", "lost"}

TypeOK ==
  /\ launch \in Up \cup Cleaning \cup {"done"}
  /\ outcome \in {"pending", "ok", "boot", "other", "cancelled"}
  /\ {once, fcPid, dir, sentinel, cancelled} \subseteq BOOLEAN
  /\ done \in {"pending", "ok", "boot", "other"}
  /\ jailer \in {"none", "running", "ok", "failed"}
  /\ fc \in {"none", "alive", "killed", "dead"}
  /\ pidFile \in {"absent", "empty", "written"}
  /\ jailWatch \in {"off", "on"}
  /\ fcWatch \in {"off", "poll", "watch", "failed"}
  /\ server \in {"none", "open", "lost", "closed"}
  /\ sess \in {"none", "busy", "idle", "ended"}
  /\ cut \in {"no", "cancel", "raise"}

Init ==
  /\ launch = "begin" /\ outcome = "pending" /\ done = "pending"
  /\ once \in BOOLEAN
  /\ jailer = "none" /\ fc = "none" /\ pidFile = "absent"
  /\ jailWatch = "off" /\ fcWatch = "off" /\ fcPid = FALSE
  /\ dir = FALSE /\ server = "none"
  /\ sess = "none" /\ sentinel = FALSE
  /\ cancelled = FALSE /\ cut = "no"

(* Operators marked "Defect" are not part of the specification.  Each is a *)
(* plausible mistake in the definition below it, which some property must  *)
(* notice (PROJECT.json, mutants).                                         *)

(* Defect: a later result takes the place of the first.                    *)
ResolveAgain(how) == done' = how

(* if not done.done(): the first result stays.                             *)
Resolve(how) == done' = IF done = "pending" THEN how ELSE done

Raised == {"boot", "other"}  \* the errors that the handler names, and others

-----------------------------------------------------------------------------
(* The finally clause.                                                     *)

(* Defect: the session that awaits a prompt is not woken.                  *)
FinallyQuietly(how) ==
  /\ launch' = "watchers"
  /\ outcome' = how
  /\ UNCHANGED sentinel

(* It begins: the sentinel, where there is a queue, and the first watcher  *)
(* is cancelled.  Both are awaited if they still run.                      *)
Finally(how) ==
  /\ launch' = "watchers"
  /\ outcome' = how
  /\ sentinel' = (sentinel \/ ~once)

(* An exception leaves it where it is.                                     *)
Leave(how, why) ==
  /\ launch' = "done"
  /\ outcome' = how
  /\ cut' = why

(* Defect: only the watcher's pid is used.                                 *)
NamedByWatcher == fcPid

(* reap: the watcher's pid, or else the one in the jailer's file.          *)
Named == fcPid \/ pidFile = "written"

(* The jailer is killed if it runs, then the server closes.                *)
KillJailer ==
  /\ jailer' = IF jailer = "running" THEN "failed" ELSE jailer
  /\ launch' = IF jailer = "running" THEN "jailer" ELSE "server"
  /\ server' = IF jailer # "running" /\ server = "open" THEN "closed" ELSE server

(* read_pid_file finds nothing to split.                                   *)
ReadRaises == ~fcPid /\ pidFile = "empty"

(* The watchers are gone.  With a pid, SIGKILL comes before anything else  *)
(* is awaited.                                                             *)
Reap ==
  /\ launch = "watchers"
  /\ jailWatch' = "off" /\ fcWatch' = "off"
  /\ \/ /\ ReadRaises
        /\ Leave("other", "raise")
        /\ UNCHANGED <<jailer, fc, server>>
     \/ /\ ~ReadRaises /\ Named /\ fc = "alive"
        /\ fc' = "killed"
        /\ launch' = "reap"
        /\ UNCHANGED <<outcome, cut, jailer, server>>
     \/ /\ ~ReadRaises /\ (Named => fc = "dead")
        /\ KillJailer
        /\ UNCHANGED <<outcome, cut, fc>>
  /\ UNCHANGED <<once, cancelled, done, fcPid, pidFile, dir, guestVars>>

(* The process is gone, or 50 looks have found it still there.             *)
Reaped ==
  /\ launch = "reap"
  /\ KillJailer
  /\ UNCHANGED <<outcome, once, cancelled, cut, done, watchVars, fc, pidFile, dir, guestVars>>

CloseServer ==
  /\ launch = "jailer"
  /\ launch' = "server"
  /\ server' = IF server = "open" THEN "closed" ELSE server
  /\ UNCHANGED <<outcome, once, cancelled, cut, done, watchVars, hostVars, dir, guestVars>>

(* Defect: nobody waits for the connection of the guest.                   *)
ServerClosedAtOnce == TRUE

(* wait_closed returns when no connection is left.                         *)
ServerClosed == server = "closed" => ~Connected

RemoveDir ==
  /\ launch = "server" /\ ServerClosed
  /\ launch' = "done"
  /\ dir' = FALSE
  /\ UNCHANGED <<outcome, once, cancelled, cut, done, watchVars, hostVars, server, guestVars>>

CleanUp == Reap \/ Reaped \/ CloseServer \/ RemoveDir

-----------------------------------------------------------------------------
(* launch_turn up to its finally clause.                                   *)

(* require_root and ensure_runtime, before the try: nothing is there yet.  *)
Refused ==
  /\ launch = "begin"
  /\ launch' = "done"
  /\ outcome' \in Raised
  /\ UNCHANGED <<once, cancelled, cut, done, watchVars, hostVars, fileVars, guestVars>>

(* Before or after the directory is made: a copy, a mode or a path that is *)
(* too long for a socket.                                                  *)
StageFails ==
  /\ \E how \in Raised : Finally(how)
  /\ dir' \in BOOLEAN
  /\ UNCHANGED server

(* The jail is filled and the listener bound.                              *)
Stage ==
  /\ launch = "begin"
  /\ \/ StageFails
     \/ /\ launch' = "bind"
        /\ dir' = TRUE
        /\ server' = "open"
        /\ UNCHANGED <<outcome, sentinel>>
  /\ UNCHANGED <<once, cancelled, cut, done, watchVars, hostVars, sess>>

(* The files get their owner and the jailer starts, or something fails.    *)
Spawn ==
  /\ launch = "bind"
  /\ \/ /\ \E how \in Raised : Finally(how)
        /\ UNCHANGED jailer
     \/ /\ launch' = "spawn"
        /\ jailer' = "running"
        /\ UNCHANGED <<outcome, sentinel>>
  /\ UNCHANGED <<once, cancelled, cut, done, watchVars, fc, pidFile, fileVars, sess>>

Watch ==
  /\ launch = "spawn"
  /\ launch' = "await"
  /\ jailWatch' = "on"
  /\ fcWatch' = "poll"
  /\ UNCHANGED <<outcome, once, cancelled, cut, done, fcPid, hostVars, fileVars, guestVars>>

(* shield(done) returns or raises, or the timeout of a single turn fires.  *)
Await ==
  /\ launch = "await"
  /\ \/ done # "pending" /\ Finally(done)
     \/ once /\ done = "pending" /\ Finally("boot")
  /\ UNCHANGED <<once, cancelled, cut, done, watchVars, hostVars, fileVars, sess>>

(* The control plane cancels the task (_boot_vm).  What happens depends on *)
(* the await it meets: bound, the listener is held by no variable yet; in  *)
(* create_subprocess_exec, asyncio kills the jailer; the awaits of the     *)
(* watchers swallow it; any other of the finally clause ends it.           *)
Cancel ==
  /\ ~cancelled /\ ~once
  /\ cancelled' = TRUE
  /\ \/ /\ launch \in {"bind", "spawn", "await"}
        /\ Finally("cancelled")
        /\ server' = IF launch = "bind" THEN "lost" ELSE server
        /\ jailer' = IF launch = "spawn" /\ jailer = "running" THEN "failed" ELSE jailer
        /\ UNCHANGED cut
     \/ /\ launch = "watchers" /\ (jailWatch = "on" \/ fcWatch \in {"poll", "watch"})
        /\ UNCHANGED <<launch, outcome, cut, sentinel, server, jailer>>
     \/ /\ launch \in {"reap", "jailer"} \/ (launch = "server" /\ ~ServerClosed)
        /\ Leave("cancelled", "cancel")
        /\ UNCHANGED <<sentinel, server, jailer>>
  /\ UNCHANGED <<once, done, watchVars, fc, pidFile, dir, sess>>

-----------------------------------------------------------------------------
(* The watchers.                                                           *)

(* Defect: whatever its exit code, the jailer has done its work.           *)
WatchJailerAnyCode ==
  /\ launch = "await" /\ jailWatch = "on" /\ jailer \in {"ok", "failed"}
  /\ jailWatch' = "off"
  /\ UNCHANGED <<taskVars, done, fcWatch, fcPid, hostVars, fileVars, guestVars>>

(* The jailer's exit code is 0 once Firecracker runs on its own.  This     *)
(* task is the first that the finally clause cancels.                      *)
WatchJailer ==
  /\ launch = "await" /\ jailWatch = "on" /\ jailer \in {"ok", "failed"}
  /\ jailWatch' = "off"
  /\ IF jailer = "failed" THEN Resolve("boot") ELSE UNCHANGED done
  /\ UNCHANGED <<taskVars, fcWatch, fcPid, hostVars, fileVars, guestVars>>

(* The pid is read, or the file is found empty and IndexError ends the     *)
(* task, or there is none: because the jailer has failed, or in time.      *)
PollPid ==
  /\ fcWatch = "poll"
  /\ \/ /\ pidFile = "written"
        /\ fcWatch' = "watch" /\ fcPid' = TRUE
        /\ UNCHANGED done
     \/ /\ pidFile = "empty"
        /\ fcWatch' = "failed"
        /\ UNCHANGED <<done, fcPid>>
     \/ /\ pidFile = "absent"
        /\ fcWatch' = "off"
        /\ UNCHANGED fcPid
        /\ \/ jailer = "failed" /\ UNCHANGED done
           \/ Resolve("boot")
  /\ UNCHANGED <<taskVars, jailWatch, hostVars, fileVars, guestVars>>

WatchFirecracker ==
  /\ fcWatch = "watch" /\ fc = "dead"
  /\ fcWatch' = "off"
  /\ Resolve("boot")
  /\ UNCHANGED <<taskVars, jailWatch, fcPid, hostVars, fileVars, guestVars>>

-----------------------------------------------------------------------------
(* The jailer clones Firecracker, creates the pid file, writes it and      *)
(* exits; it may fail at any point.  Firecracker may die at any time.      *)

Jailer ==
  /\ jailer = "running"
  /\ \/ fc = "none" /\ fc' = "alive" /\ UNCHANGED <<jailer, pidFile>>
     \/ /\ fc # "none"
        /\ pidFile' = CASE pidFile = "absent" -> "empty" [] OTHER -> "written"
        /\ jailer' = IF pidFile = "written" THEN "ok" ELSE jailer
        /\ UNCHANGED fc
     \/ jailer' = "failed" /\ UNCHANGED <<fc, pidFile>>
  /\ UNCHANGED <<taskVars, done, watchVars, fileVars, guestVars>>

Dies ==
  /\ fc' = "dead"
  /\ UNCHANGED <<taskVars, done, watchVars, jailer, pidFile, fileVars, guestVars>>

Crash == fc = "alive" /\ Dies
SigKill == fc = "killed" /\ Dies

-----------------------------------------------------------------------------
(* The guest's connection (on_guest) and its queue of prompts.             *)

Connect ==
  /\ fc = "alive" /\ Listening /\ sess = "none"
  /\ sess' = "busy"
  /\ UNCHANGED <<taskVars, done, watchVars, hostVars, fileVars, sentinel>>

(* The handshake or a response was the last thing to read for now.         *)
AwaitPrompt ==
  /\ sess = "busy" /\ ~once
  /\ sess' = "idle"
  /\ UNCHANGED <<taskVars, done, watchVars, hostVars, fileVars, sentinel>>

Prompt ==
  /\ sess = "idle" /\ ~sentinel
  /\ sess' = "busy"
  /\ UNCHANGED <<taskVars, done, watchVars, hostVars, fileVars, sentinel>>

TakeSentinel ==
  /\ sess = "idle" /\ sentinel
  /\ sess' = "ended"
  /\ Resolve("ok")
  /\ UNCHANGED <<taskVars, watchVars, hostVars, fileVars, sentinel>>

(* EOF, a timeout, a cap, the end of a single turn, or an exception.       *)
SessionEnds ==
  /\ sess = "busy"
  /\ sess' = "ended"
  /\ \E how \in {"ok", "boot", "other"} : Resolve(how)
  /\ UNCHANGED <<taskVars, watchVars, hostVars, fileVars, sentinel>>

(* request_stop.                                                           *)
RequestStop ==
  /\ ~once /\ ~sentinel
  /\ sentinel' = TRUE
  /\ UNCHANGED <<taskVars, done, watchVars, hostVars, fileVars, sess>>

-----------------------------------------------------------------------------
Launch == Refused \/ Stage \/ Spawn \/ Watch \/ Await
Watchers == WatchJailer \/ PollPid \/ WatchFirecracker
Guest == Connect \/ AwaitPrompt \/ Prompt \/ TakeSentinel \/ SessionEnds

Next ==
  Launch \/ Cancel \/ CleanUp \/ Watchers \/ Jailer \/ Crash \/ SigKill \/ Guest \/ RequestStop

Spec == Init /\ [][Next]_vars

(***************************************************************************)
(* Fairness.  Coroutines that can resume do, a killed process dies, and a  *)
(* session that reads from the guest comes to an end: each of its waits    *)
(* ends by TURN_TIMEOUT_SEC at the latest, and the turns are capped.       *)
(***************************************************************************)
FairSpec ==
  /\ Spec
  /\ WF_vars(Launch) /\ WF_vars(CleanUp) /\ WF_vars(SigKill)
  /\ WF_vars(WatchJailer) /\ WF_vars(PollPid) /\ WF_vars(WatchFirecracker)
  /\ WF_vars(TakeSentinel) /\ WF_vars(SessionEnds)

-----------------------------------------------------------------------------
(* What the launcher promises.                                             *)

(* No VM outlives its launch task, however that ended and wherever it was  *)
(* cancelled: SIGKILL is on its way before the finally clause reaches an   *)
(* await that could cut it short.  The pid must be in the jailer's file,   *)
(* and not be half-written when the clause reads it.                       *)
NoOrphan ==
  launch = "done" /\ pidFile = "written" /\ cut # "raise" => fc \in {"killed", "dead"}

(* A launch task that was not cut short leaves no jailer, no directory and *)
(* no session, and has closed its listener.  One listener stays bound:     *)
(* that of a task cancelled after the bind and before the assignment,      *)
(* which no variable holds and nothing closes.  No jailer was started that *)
(* could reach it.                                                         *)
NothingLeft ==
  launch = "done" /\ cut = "no" =>
    /\ jailer # "running" /\ ~dir /\ ~Connected
    /\ Listening => server = "lost" /\ outcome = "cancelled" /\ jailer = "none"

(* The finally clause never hangs on the session it waits for, whatever    *)
(* that was waiting for: a stop that awaits the task returns.              *)
CleanUpEnds == launch \in Cleaning ~> launch = "done"

(* A VM that dies, or a jailer that fails, ends the launch task; unless    *)
(* watch_firecracker met the half-written pid file and died unseen.        *)
DeathNoticed ==
  fc = "dead" \/ jailer = "failed" ~> launch = "done" \/ fcWatch = "failed"

(* launch_turn implements what the control plane relies on.                *)
Contract == INSTANCE LaunchContract WITH
  launch <- IF launch \in Up THEN "up" ELSE IF launch = "done" THEN "done" ELSE "reaping",
  outcome <- IF launch \in Up THEN done ELSE outcome

ImplementsContract == Contract!Spec
=============================================================================
