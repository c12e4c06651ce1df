----------------------------- MODULE NodeService -----------------------------
(***************************************************************************)
(* The Node as a service: the processes that run `corvus serve`            *)
(* (serve_forever in node/daemon.py), the pid file and the control socket  *)
(* by which everything else finds them (node/control.py), the systemd unit *)
(* (packaging/corvus-node.service.in), and the operator's start, stop and  *)
(* update (cli.py, start_daemon).  Processes crash, the host reboots, and  *)
(* a pid written by a Node that is gone may by now belong to a stranger.   *)
(*                                                                         *)
(* The runtime directory outlives all of them.  One operator command runs  *)
(* at a time; other clients of the control socket only shut the Node down. *)
(* A look at the pid file together with the test that follows it is one    *)
(* step; everything a process does between two of its system calls on the  *)
(* two files is another.                                                   *)
(***************************************************************************)
EXTENDS Naturals

CONSTANTS
  Pids,       \* process ids
  None,       \* no process
  MaxFaults   \* bound: crashes and reboots

Absent == "absent"   \* no such file
Empty == "empty"     \* the pid file between its truncation and its write
Stale == "stale"     \* the socket file of a listener that is gone

ASSUME PidsAssumption ==
  /\ Pids \cap {Absent, Empty, Stale} = {}
  /\ None \notin Pids \cup {Absent, Empty, Stale}
ASSUME FaultsAssumption == MaxFaults \in Nat

VARIABLES
  usable,     \* serve has what it needs: root, KVM, the guest's assets, rules
              \* that can be loaded, a directory that can be written
  installed,  \* the unit exists (an install, not a development tree)
  proc,       \* per pid: "free", "other" (a stranger), or where serve is
  pidFile,    \* Absent, Empty or the pid it names
  sock,       \* Absent, Stale or the pid that listens at the path
  unit,       \* "off", "on" (active or about to be restarted), "stopping"
  main,       \* the unit's MainPID, or None
  child,      \* the process start_daemon spawned, or None
  opc,        \* where the operator's command is, and how the last one ended:
              \* a stop is reported as done by "stopped" (systemd) or "told"
              \* (the socket); "already": no Node was found to begin with
  faults

vars == <<usable, installed, proc, pidFile, sock, unit, main, child, opc, faults>>

Starting == {"check", "clear", "write", "pid", "bind"}
Listening == {"serve", "drain"}
Leaving == {"drain", "closed"}
Serving == Starting \cup Listening \cup {"closed"}
Ended == {"ready", "failed", "stopped", "told", "already"}

TypeOK ==
  /\ {usable, installed} \subseteq BOOLEAN
  /\ proc \in [Pids -> {"free", "other"} \cup Serving]
  /\ pidFile \in {Absent, Empty} \cup Pids
  /\ sock \in {Absent, Stale} \cup Pids
  /\ unit \in {"off", "on", "stopping"}
  /\ main \in Pids \cup {None}
  /\ child \in Pids \cup {None}
  /\ opc \in {"idle", "wait_ready", "poll", "stop_unit", "unit_stops", "stop_rpc",
              "wait_gone"} \cup Ended
  /\ faults \in 0..MaxFaults

(* The unit is enabled: it starts with the host, even after a stop.        *)
Booted(m, u, running) ==
  /\ m \in IF installed THEN Pids ELSE {None}
  /\ u = IF installed THEN "on" ELSE "off"
  /\ running = [p \in Pids |-> IF p = m THEN "check" ELSE "free"]

(* The host has booted.  An earlier life may have left a pid file.         *)
Init ==
  /\ usable \in BOOLEAN /\ installed \in BOOLEAN
  /\ Booted(main, unit, proc)
  /\ pidFile \in {Absent} \cup Pids
  /\ sock \in {Absent, Stale}
  /\ child = None
  /\ opc = "idle"
  /\ faults = 0

-----------------------------------------------------------------------------
(* What control.py lets a process find out.  Operators marked "Defect" are *)
(* not part of the specification.  Each is a plausible mistake in the      *)
(* definition below it, which some property must notice (PROJECT.json,     *)
(* mutants).                                                               *)

(* control_socket_up: somebody accepts at the path.                        *)
SocketUp == sock \in Pids /\ proc[sock] \in Listening

(* Defect: only a Node that answers counts.                                *)
NodePidOfSocket == IF SocketUp THEN pidFile ELSE None

(* node_pid, for a pid file that is not Empty (read_pid_file raises then): *)
(* the pid in the file if it is alive, whoever has it, or if the socket    *)
(* answers; Absent stands for the 0 of a socket without a pid file.        *)
NodePid ==
  IF (pidFile \in Pids /\ proc[pidFile] # "free") \/ SocketUp THEN pidFile ELSE None

NodeFound == NodePid # None

(* _uses_this_systemd_unit.                                                *)
UsesThisUnit ==
  /\ main # None
  /\ NodePid \in Pids => NodePid = main

-----------------------------------------------------------------------------
(* Processes.                                                              *)

(* Process p is gone; what it leaves in the two files stays.  An active    *)
(* unit will be restarted, a stopping one is off.                          *)
Gone(p) ==
  /\ proc' = [proc EXCEPT ![p] = "free"]
  /\ main' = IF main = p THEN None ELSE main
  /\ unit' = IF main = p /\ unit = "stopping" THEN "off" ELSE unit
  /\ child' = IF child = p THEN None ELSE child

(* Defect: a Node that serves does not mind.                               *)
TerminateEarly(p) ==
  proc' = [proc EXCEPT ![p] = IF @ \in Starting THEN "free" ELSE @]

(* SIGTERM, or the shutdown request: the handlers are armed only once the  *)
(* socket is bound.                                                        *)
Terminate(p) ==
  IF proc[p] \in Starting
    THEN proc' = [proc EXCEPT ![p] = "free"]
    ELSE proc' = [proc EXCEPT ![p] = IF @ = "serve" THEN "drain" ELSE @]

Moves(p, from, to) ==
  /\ proc[p] = from
  /\ proc' = [proc EXCEPT ![p] = to]
  /\ UNCHANGED <<usable, installed, unit, main, child, opc, faults>>

(* main cannot merge the rules, require_root or ensure_runtime raises, or a *)
(* file cannot be written: serve exits with code 2 wherever its start-up   *)
(* is.  Of the socket, it may have removed or bound the file.              *)
Refused(p) ==
  /\ ~usable /\ proc[p] \in Starting
  /\ Gone(p)
  /\ sock' \in {sock} \cup (IF proc[p] = "bind" THEN {Absent, Stale} ELSE {})
  /\ UNCHANGED <<usable, installed, pidFile, opc, faults>>

(* Defect: serve gives way to a Node that seems to be there.               *)
CheckGivesWay(p) ==
  \/ /\ pidFile # Empty
     /\ ~NodeFound
     /\ Moves(p, "check", "clear")
     /\ UNCHANGED <<pidFile, sock>>
  \/ /\ proc[p] = "check"
     /\ pidFile = Empty \/ NodeFound
     /\ Gone(p)
     /\ UNCHANGED <<usable, installed, pidFile, sock, opc, faults>>

(* clear_stale_runtime looks.  serve goes on whatever it finds, and dies   *)
(* of an empty pid file.                                                   *)
Check(p) ==
  \/ /\ pidFile # Empty
     /\ Moves(p, "check", IF NodeFound THEN "write" ELSE "clear")
     /\ UNCHANGED <<pidFile, sock>>
  \/ /\ pidFile = Empty
     /\ proc[p] = "check"
     /\ Gone(p)
     /\ UNCHANGED <<usable, installed, pidFile, sock, opc, faults>>

(* clear_stale_runtime removes what it took for stale.                     *)
Clear(p) == Moves(p, "clear", "write") /\ pidFile' = Absent /\ sock' = Absent

(* _write_pid truncates the file, then writes it.                          *)
TruncatePid(p) == Moves(p, "write", "pid") /\ pidFile' = Empty /\ UNCHANGED sock
WritePid(p) == Moves(p, "pid", "bind") /\ pidFile' = p /\ UNCHANGED sock

(* The socket file, whoever it belongs to, is replaced.                    *)
Bind(p) == Moves(p, "bind", "serve") /\ sock' = p /\ UNCHANGED pidFile

(* The guest is stopped, the server closed to new clients.                 *)
Close(p) ==
  /\ Moves(p, "drain", "closed")
  /\ sock' = IF sock = p THEN Stale ELSE sock
  /\ UNCHANGED pidFile

(* The last client is gone: _unlink_runtime, and the process ends.         *)
Unlink(p) ==
  /\ proc[p] = "closed"
  /\ Gone(p)
  /\ pidFile' = Absent
  /\ sock' = Absent
  /\ UNCHANGED <<usable, installed, opc, faults>>

(* A client of the control socket sends shutdown.                          *)
ClientShutdown(p) ==
  /\ sock = p
  /\ Moves(p, "serve", "drain")
  /\ UNCHANGED <<pidFile, sock>>

Serve(p) ==
  Refused(p) \/ Check(p) \/ Clear(p) \/ TruncatePid(p) \/ WritePid(p) \/ Bind(p) \/ Close(p)

-----------------------------------------------------------------------------
(* The host and its service manager.                                       *)

Spawn(p) == proc[p] = "free" /\ proc' = [proc EXCEPT ![p] = "check"]

(* Restart=always; the delay of RestartSec is the time this step takes.    *)
UnitSpawns ==
  /\ unit = "on"
  /\ main = None
  /\ \E p \in Pids : Spawn(p) /\ main' = p
  /\ UNCHANGED <<usable, installed, pidFile, sock, unit, child, opc, faults>>

Killed(p) == Gone(p) /\ sock' = (IF sock = p THEN Stale ELSE sock)

(* A stop that takes longer than the unit's stop timeout ends in SIGKILL.  *)
UnitKills ==
  /\ unit = "stopping"
  /\ Killed(main)
  /\ UNCHANGED <<usable, installed, pidFile, opc, faults>>

Crash(p) ==
  /\ proc[p] \in Serving
  /\ faults < MaxFaults
  /\ faults' = faults + 1
  /\ Killed(p)
  /\ UNCHANGED <<usable, installed, pidFile, opc>>

Reboot ==
  /\ faults < MaxFaults
  /\ faults' = faults + 1
  /\ Booted(main', unit', proc')
  /\ sock' = IF sock \in Pids THEN Stale ELSE sock
  /\ child' = None
  /\ opc' = "idle"
  /\ UNCHANGED <<usable, installed, pidFile>>

(* Assets and rules come and go.                                           *)
Environment ==
  /\ usable' = ~usable
  /\ UNCHANGED <<installed, proc, pidFile, sock, unit, main, child, opc, faults>>

(* A stranger takes a free pid, or ends.  One pid always remains free.     *)
Stranger(p) ==
  /\ \/ /\ proc[p] = "free"
        /\ \E q \in Pids \ {p} : proc[q] = "free"
        /\ proc' = [proc EXCEPT ![p] = "other"]
     \/ /\ proc[p] = "other"
        /\ proc' = [proc EXCEPT ![p] = "free"]
  /\ UNCHANGED <<usable, installed, pidFile, sock, unit, main, child, opc, faults>>

-----------------------------------------------------------------------------
(* The operator.                                                           *)

Step(from, to) == opc = from /\ opc' = to

(* A command that meets the empty pid file ends with an exception.         *)
Trips(from) ==
  /\ pidFile = Empty
  /\ Step(from, "failed")
  /\ UNCHANGED <<proc, pidFile, sock, unit, main, child>>

(* _ensure_node_up: there is a Node, or systemctl start, which may fail.   *)
EnsureNodeUp ==
  /\ installed
  /\ \/ Trips("idle")
     \/ /\ pidFile # Empty /\ NodeFound
        /\ Step("idle", "ready")
        /\ UNCHANGED unit
     \/ /\ pidFile # Empty /\ ~NodeFound
        /\ \/ Step("idle", "wait_ready") /\ unit' = "on"
           \/ Step("idle", "failed") /\ UNCHANGED unit
  /\ UNCHANGED <<proc, pidFile, sock, main, child>>

(* wait_node_ready polls node_pid until it finds one or gives up.          *)
WaitNodeReady ==
  /\ \/ Trips("wait_ready")
     \/ pidFile # Empty /\ NodeFound /\ Step("wait_ready", "ready")
     \/ pidFile # Empty /\ Step("wait_ready", "failed")
  /\ UNCHANGED <<proc, pidFile, sock, unit, main, child>>

(* _start and start_daemon: start over the socket, if it answers; no help  *)
(* for a Node that is found and does not; else clear, and spawn serve.     *)
StartDaemon ==
  /\ ~installed
  /\ \/ /\ SocketUp
        /\ Step("idle", "ready")
        /\ UNCHANGED <<proc, pidFile, sock, child>>
     \/ ~SocketUp /\ Trips("idle")
     \/ /\ ~SocketUp /\ pidFile # Empty /\ NodeFound
        /\ Step("idle", "failed")
        /\ UNCHANGED <<proc, pidFile, sock, child>>
     \/ /\ ~SocketUp /\ pidFile # Empty /\ ~NodeFound
        /\ Step("idle", "poll")
        /\ pidFile' = Absent
        /\ sock' = Absent
        /\ \E p \in Pids : Spawn(p) /\ child' = p
  /\ UNCHANGED <<unit, main>>

(* start_daemon polls for a status, notices that serve has exited, or      *)
(* gives up and terminates it.                                             *)
PollDaemon ==
  /\ \/ /\ SocketUp
        /\ Step("poll", "ready")
        /\ UNCHANGED proc
     \/ /\ child = None
        /\ Step("poll", "failed")
        /\ UNCHANGED proc
     \/ /\ child # None
        /\ Step("poll", "failed")
        /\ Terminate(child)
  /\ child' = None
  /\ UNCHANGED <<pidFile, sock, unit, main>>

(* _execute_product_stop: nothing there; or the unit's Node; or another's. *)
(* The stop of the guest comes next and touches nothing here.              *)
StopLooks ==
  /\ \/ Trips("idle")
     \/ /\ pidFile # Empty
        /\ \/ ~NodeFound /\ ~UsesThisUnit /\ Step("idle", "already")
           \/ UsesThisUnit /\ Step("idle", "stop_unit")
           \/ NodeFound /\ ~UsesThisUnit /\ Step("idle", "stop_rpc")
  /\ UNCHANGED <<proc, pidFile, sock, unit, main, child>>

(* systemctl stop fails, or cancels a pending restart, or terminates the   *)
(* process.                                                                *)
SystemctlStop ==
  /\ \/ /\ Step("stop_unit", "failed")
        /\ UNCHANGED <<proc, unit, main>>
     \/ /\ main = None
        /\ Step("stop_unit", "unit_stops")
        /\ unit' = "off"
        /\ UNCHANGED <<proc, main>>
     \/ /\ main # None
        /\ Step("stop_unit", "unit_stops")
        /\ Terminate(main)
        /\ main' = IF proc[main] \in Starting THEN None ELSE main
        /\ unit' = IF proc[main] \in Starting THEN "off" ELSE "stopping"
  /\ UNCHANGED <<pidFile, sock, child>>

(* It returns when the unit is off.  wait_node_gone follows, and whatever  *)
(* that returns, the Node is reported as stopped.                          *)
UnitStopped ==
  /\ unit = "off"
  /\ Trips("unit_stops") \/ (pidFile # Empty /\ Step("unit_stops", "stopped"))
  /\ UNCHANGED <<proc, pidFile, sock, unit, main, child>>

(* The Node is gone by now, which is reported as a stop like any other; or *)
(* rpc_shutdown reaches it; or that fails.                                 *)
StopByRpc ==
  /\ \/ Trips("stop_rpc")
     \/ pidFile # Empty /\ ~NodeFound /\ Step("stop_rpc", "told") /\ UNCHANGED proc
     \/ /\ pidFile # Empty /\ NodeFound /\ SocketUp
        /\ Step("stop_rpc", "wait_gone")
        /\ Terminate(sock)
     \/ /\ pidFile # Empty /\ NodeFound /\ ~SocketUp
        /\ Step("stop_rpc", "failed")
        /\ UNCHANGED proc
  /\ UNCHANGED <<pidFile, sock, unit, main, child>>

(* rpc_shutdown returns when the Node is gone, or when it has waited long  *)
(* enough; the connection may break before shutdown_ok.                    *)
WaitNodeGone ==
  /\ \/ Trips("wait_gone")
     \/ pidFile # Empty /\ \E how \in {"told", "failed"} : Step("wait_gone", how)
  /\ UNCHANGED <<proc, pidFile, sock, unit, main, child>>

(* _update starts the unit again after it has stopped it.                  *)
UpdateStarts ==
  /\ installed
  /\ Step("stopped", "idle")
  /\ unit' = "on"
  /\ UNCHANGED <<proc, pidFile, sock, main, child>>

Done ==
  /\ opc \in Ended
  /\ opc' = "idle"
  /\ UNCHANGED <<proc, pidFile, sock, unit, main, child>>

Operator ==
  /\ \/ EnsureNodeUp \/ WaitNodeReady \/ StartDaemon \/ PollDaemon \/ StopLooks
     \/ SystemctlStop \/ UnitStopped \/ StopByRpc \/ WaitNodeGone \/ UpdateStarts
     \/ Done
  /\ UNCHANGED <<usable, installed, faults>>

Next ==
  \/ \E p \in Pids : Serve(p) \/ Unlink(p) \/ ClientShutdown(p) \/ Crash(p) \/ Stranger(p)
  \/ UnitSpawns \/ UnitKills \/ Reboot \/ Environment
  \/ Operator

Spec == Init /\ [][Next]_vars

(***************************************************************************)
(* Fairness.  Processes run and the service manager does its part.  A Node *)
(* that shuts down waits for its clients, of which nothing is assumed, nor *)
(* of the operator.                                                        *)
(***************************************************************************)
FairSpec ==
  /\ Spec
  /\ \A p \in Pids : WF_vars(Serve(p))
  /\ WF_vars(UnitSpawns)
  /\ WF_vars(UnitKills)

-----------------------------------------------------------------------------
(* What the service promises.                                              *)

(* There is one Node, and the two files lead to it: whoever looks for the  *)
(* Node finds the process that serves, however the one before it ended.    *)
FilesNameTheNode ==
  \A p \in Pids :
    proc[p] \in Listening =>
      /\ sock = p /\ pidFile = p
      /\ \A q \in Pids : proc[q] \in Serving => q = p

(* A crash, or a serve that was stopped or failed, between the truncation  *)
(* and the write of the pid file: nobody is left to write it.              *)
LeftEmpty == pidFile = Empty /\ \A p \in Pids : proc[p] # "pid"

(* An active unit gets its Node back after any crash or reboot, whatever   *)
(* is left in the files and whoever has the old pid; unless a Node that    *)
(* was told to shut down still waits for its clients, the pid file was     *)
(* left empty, of which every later serve dies, or serve lacks what it     *)
(* needs to start.                                                         *)
NodeComesBack ==
  unit = "on" ~>
    \/ \E p \in Pids : proc[p] = "serve" /\ sock = p /\ pidFile = p
    \/ unit # "on"
    \/ \E p \in Pids : proc[p] \in Leaving
    \/ LeftEmpty
    \/ ~usable

(* A stop through systemd that is reported as done leaves no Node behind,  *)
(* and one over the socket leaves none but the one that it told to go;     *)
(* unless a unit is active, which restarts what was stopped.               *)
StopReachesNode ==
  /\ opc = "stopped" => unit = "off" /\ \A p \in Pids : proc[p] \notin Serving
  /\ opc = "told" /\ unit # "on" => \A p \in Pids : proc[p] \notin Serving \ Leaving
=============================================================================
