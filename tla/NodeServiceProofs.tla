-------------------------- MODULE NodeServiceProofs --------------------------
(***************************************************************************)
(* The pid file and the control socket lead to the one Node, for any       *)
(* number of processes, strangers, crashes and reboots.                    *)
(***************************************************************************)
EXTENDS NodeService, TLAPS

(* Where serve is once it has written its pid.                             *)
Named == {"bind", "serve", "drain", "closed"}

(* The inductive invariant.  With a unit, whoever serves is the unit's     *)
(* main process; without one, whoever has not served yet is the child that *)
(* the operator's start still polls, so that no second start finds the     *)
(* files absent.                                                           *)
OneNode == \A p, q \in Pids : proc[p] \in Serving /\ proc[q] \in Serving => p = q

UnitsNode ==
  installed => child = None /\ \A p \in Pids : proc[p] \in Serving => main = p

StartedNode ==
  ~installed =>
    /\ main = None /\ unit = "off"
    /\ \A p \in Pids : proc[p] \in Starting => child = p /\ opc = "poll"

FilesKept ==
  \A p \in Pids :
    /\ proc[p] \in Named => pidFile = p
    /\ proc[p] \in Listening => sock = p

FilesInv == OneNode /\ UnitsNode /\ StartedNode /\ FilesKept

-----------------------------------------------------------------------------
(* The part of the type invariant that the argument needs.                 *)
TypeFiles ==
  /\ {usable, installed} \subseteq BOOLEAN
  /\ proc \in [Pids -> {"free", "other"} \cup Serving]
  /\ pidFile \in {Absent, Empty} \cup Pids
  /\ sock \in {Absent, Stale} \cup Pids

LEMMA TypeFilesNext == TypeFiles /\ [Next]_vars => TypeFiles'
<1> SUFFICES ASSUME TypeFiles, [Next]_vars PROVE TypeFiles'
  OBVIOUS
<1> USE DEF TypeFiles, Serving, Starting, Listening
<1>1. ASSUME NEW p \in Pids, Serve(p) PROVE TypeFiles'
  BY <1>1, SMT DEF Serve, Refused, Check, Clear, TruncatePid, WritePid, Bind, Close, Moves, Gone
<1>2. ASSUME NEW p \in Pids, Unlink(p) \/ ClientShutdown(p) \/ Crash(p) \/ Stranger(p)
      PROVE TypeFiles'
  BY <1>2, SMT DEF Unlink, ClientShutdown, Crash, Stranger, Moves, Gone, Killed
<1>3. CASE UnitSpawns
  BY <1>3, SMT DEF UnitSpawns, Spawn
<1>4. CASE UnitKills
  <2>1. proc' \in [Pids -> {"free", "other"} \cup Serving]
    <3>1. proc' = [proc EXCEPT ![main] = "free"]
      BY <1>4 DEF UnitKills, Killed, Gone
    <3> QED
      BY <3>1, Zenon
  <2> QED
    BY <1>4, <2>1, SMT DEF UnitKills, Killed
<1>5. CASE Reboot
  BY <1>5, SMT DEF Reboot, Booted
<1>6. CASE Operator
  BY <1>6, SMT DEF Operator, EnsureNodeUp, WaitNodeReady, StartDaemon, PollDaemon,
     StopLooks, SystemctlStop, UnitStopped, StopByRpc, WaitNodeGone, UpdateStarts, Done,
     Trips, Step, Spawn, Terminate, SocketUp
<1>7. CASE Environment
  <2>1. usable' \in BOOLEAN /\ UNCHANGED <<installed, proc, pidFile, sock>>
    BY <1>7, Zenon DEF Environment
  <2> QED
    BY <2>1, SMT
<1> QED
  BY <1>1, <1>2, <1>3, <1>4, <1>5, <1>6, <1>7 DEF Next, vars

-----------------------------------------------------------------------------
(* A start without a unit spawns only when node_pid finds nobody, and then *)
(* nobody serves: StartedNode rules out one that has not written its pid,  *)
(* FilesKept one that has.                                                 *)
LEMMA FilesNext == TypeFiles /\ FilesInv /\ [Next]_vars => FilesInv'
<1> SUFFICES ASSUME TypeFiles, FilesInv, [Next]_vars PROVE FilesInv'
  OBVIOUS
<1> USE PidsAssumption DEF TypeFiles, FilesInv, OneNode, UnitsNode, StartedNode, FilesKept,
        Serving, Starting, Listening, Named
<1>1. ASSUME NEW p \in Pids, Serve(p) PROVE FilesInv'
  <2>1. CASE Refused(p) \/ Check(p)
    BY <2>1, SMT DEF Refused, Check, Moves, Gone
  <2>2. CASE Clear(p)
    BY <2>2, SMT DEF Clear, Moves
  <2>3. CASE TruncatePid(p)
    BY <2>3, SMT DEF TruncatePid, Moves
  <2>4. CASE WritePid(p)
    BY <2>4, SMT DEF WritePid, Moves
  <2>5. CASE Bind(p)
    BY <2>5, SMT DEF Bind, Moves
  <2>6. CASE Close(p)
    BY <2>6, SMT DEF Close, Moves
  <2> QED
    BY <1>1, <2>1, <2>2, <2>3, <2>4, <2>5, <2>6 DEF Serve
<1>2. ASSUME NEW p \in Pids, Unlink(p) PROVE FilesInv'
  BY <1>2, SMT DEF Unlink, Gone
<1>3. ASSUME NEW p \in Pids, ClientShutdown(p) PROVE FilesInv'
  BY <1>3, SMT DEF ClientShutdown, Moves
<1>4. ASSUME NEW p \in Pids, Crash(p) PROVE FilesInv'
  BY <1>4, SMT DEF Crash, Killed, Gone
<1>5. ASSUME NEW p \in Pids, Stranger(p) PROVE FilesInv'
  BY <1>5, SMT DEF Stranger
<1>6. CASE UnitSpawns
  BY <1>6, SMT DEF UnitSpawns, Spawn
<1>7. CASE UnitKills
  BY <1>7, SMT DEF UnitKills, Killed, Gone
<1>8. CASE Reboot \/ Environment
  BY <1>8, SMT DEF Reboot, Booted, Environment
<1>9. CASE Operator
  <2>1. CASE StartDaemon
    BY <1>9, <2>1, SMT DEF Operator, StartDaemon, Step, Trips, Spawn, SocketUp, NodeFound, NodePid
  <2>2. CASE PollDaemon
    BY <1>9, <2>2, SMT DEF Operator, PollDaemon, Step, Terminate, SocketUp
  <2>3. CASE SystemctlStop
    BY <1>9, <2>3, SMT DEF Operator, SystemctlStop, Step, Terminate
  <2>4. CASE StopByRpc
    BY <1>9, <2>4, SMT DEF Operator, StopByRpc, Step, Trips, Terminate, SocketUp
  <2>5. CASE EnsureNodeUp \/ WaitNodeReady \/ StopLooks \/ UnitStopped \/ WaitNodeGone
             \/ UpdateStarts \/ Done
    BY <1>9, <2>5, SMT DEF Operator, EnsureNodeUp, WaitNodeReady, StopLooks, UnitStopped,
       WaitNodeGone, UpdateStarts, Done, Step, Trips, Ended
  <2> QED
    BY <1>9, <2>1, <2>2, <2>3, <2>4, <2>5 DEF Operator
<1>10. CASE UNCHANGED vars
  BY <1>10, SMT DEF vars
<1> QED
  BY <1>1, <1>2, <1>3, <1>4, <1>5, <1>6, <1>7, <1>8, <1>9, <1>10 DEF Next

LEMMA InitFiles == Init => TypeFiles /\ FilesInv
<1> SUFFICES ASSUME Init PROVE TypeFiles /\ FilesInv
  OBVIOUS
<1> USE PidsAssumption DEF Init, Booted
<1>1. TypeFiles
  BY SMT DEF TypeFiles, Serving, Starting, Listening
<1>2. FilesInv
  BY SMT DEF FilesInv, OneNode, UnitsNode, StartedNode, FilesKept, Serving, Starting,
     Listening, Named
<1> QED
  BY <1>1, <1>2

(* Whoever looks for the Node finds the process that serves: there is one  *)
(* Node, and the pid file and the socket lead to it, however the one       *)
(* before it ended and whoever has its pid now.                            *)
THEOREM FilesFindTheNode == Spec => []FilesNameTheNode
<1>1. TypeFiles /\ FilesInv /\ [Next]_vars => (TypeFiles /\ FilesInv)'
  BY TypeFilesNext, FilesNext
<1>2. TypeFiles /\ FilesInv => FilesNameTheNode
  BY SMT DEF TypeFiles, FilesInv, OneNode, FilesKept, FilesNameTheNode, Serving, Starting,
     Listening, Named
<1> QED
  BY <1>1, <1>2, InitFiles, PTL DEF Spec

-----------------------------------------------------------------------------
(* Stops.  The unit is off only when its process is gone, systemctl is     *)
(* used only where there is a unit, and a Node that was told to go, by a   *)
(* unit that stops or where there is none, is on its way out.              *)
StopInv ==
  /\ unit \in {"off", "on", "stopping"}
  /\ unit = "off" => main = None
  /\ opc = "stopped" => unit = "off"
  /\ ~installed => opc \notin {"stop_unit", "unit_stops", "stopped"}
  /\ unit = "stopping" \/ (opc \in {"wait_gone", "told"} /\ ~installed) =>
       \A p \in Pids : proc[p] \in Serving => proc[p] \in Leaving

LEMMA StopNext == TypeFiles /\ FilesInv /\ StopInv /\ [Next]_vars => StopInv'
<1> SUFFICES ASSUME TypeFiles, FilesInv, StopInv, [Next]_vars PROVE StopInv'
  OBVIOUS
<1> USE PidsAssumption DEF TypeFiles, FilesInv, OneNode, UnitsNode, StartedNode, FilesKept,
        StopInv, Serving, Starting, Listening, Named, Leaving
<1>1. ASSUME NEW p \in Pids, Serve(p) PROVE StopInv'
  BY <1>1, SMT DEF Serve, Refused, Check, Clear, TruncatePid, WritePid, Bind, Close, Moves, Gone
<1>2. ASSUME NEW p \in Pids, Unlink(p) \/ ClientShutdown(p) \/ Crash(p) \/ Stranger(p)
      PROVE StopInv'
  BY <1>2, SMT DEF Unlink, ClientShutdown, Crash, Stranger, Moves, Gone, Killed
<1>3. CASE UnitSpawns
  BY <1>3, SMT DEF UnitSpawns, Spawn
<1>4. CASE UnitKills
  BY <1>4, SMT DEF UnitKills, Killed, Gone
<1>5. CASE Reboot \/ Environment
  BY <1>5, SMT DEF Reboot, Booted, Environment
<1>6. CASE Operator
  <2>1. CASE EnsureNodeUp \/ WaitNodeReady \/ UnitStopped \/ WaitNodeGone \/ UpdateStarts
             \/ Done
    BY <1>6, <2>1, SMT DEF Operator, EnsureNodeUp, WaitNodeReady, UnitStopped,
       WaitNodeGone, UpdateStarts, Done, Step, Trips, Ended
  <2>2. CASE StartDaemon
    BY <1>6, <2>2, SMT DEF Operator, StartDaemon, Step, Trips, Spawn
  <2>3. CASE PollDaemon
    BY <1>6, <2>3, SMT DEF Operator, PollDaemon, Step, Terminate
  <2>4. CASE StopLooks
    BY <1>6, <2>4, SMT DEF Operator, StopLooks, Step, Trips, UsesThisUnit
  <2>5. CASE SystemctlStop
    <3>1. /\ installed /\ opc = "stop_unit" /\ opc' \in {"failed", "unit_stops"}
          /\ UNCHANGED <<usable, installed, pidFile, sock, child, faults>>
      BY <1>6, <2>5, SMT DEF Operator, SystemctlStop, Step
    <3>2. CASE UNCHANGED <<proc, unit, main>>
      BY <3>1, <3>2, SMT
    <3>3. CASE main = None /\ unit' = "off" /\ UNCHANGED <<proc, main>>
      BY <3>1, <3>3, SMT
    <3>4. CASE /\ main # None /\ Terminate(main)
               /\ main' = IF proc[main] \in Starting THEN None ELSE main
               /\ unit' = IF proc[main] \in Starting THEN "off" ELSE "stopping"
      <4>1. CASE proc[main] \in Starting
        BY <3>1, <3>4, <4>1, SMT
      <4>2. CASE proc[main] \notin Starting
        <5>1. proc' = [proc EXCEPT ![main] = IF @ = "serve" THEN "drain" ELSE @]
          BY <3>4, <4>2 DEF Terminate
        <5>2. ASSUME NEW p \in Pids, proc'[p] \in Serving PROVE proc'[p] \in Leaving
          BY <3>1, <4>2, <5>1, <5>2, SMT
        <5> QED
          BY <3>1, <3>4, <4>2, <5>2, SMT
      <4> QED
        BY <4>1, <4>2
    <3> QED
      BY <2>5, <3>2, <3>3, <3>4 DEF SystemctlStop
  <2>6. CASE StopByRpc
    <3>1. CASE ~NodeFound /\ opc = "stop_rpc" /\ opc' = "told" /\ UNCHANGED proc
      <4>1. ~installed => \A p \in Pids : proc[p] \notin Serving
        BY <3>1, SMT DEF NodeFound, NodePid, SocketUp
      <4> QED
        BY <1>6, <2>6, <3>1, <4>1, SMT DEF Operator, StopByRpc
    <3>2. CASE ~(~NodeFound /\ opc = "stop_rpc" /\ opc' = "told" /\ UNCHANGED proc)
      BY <1>6, <2>6, <3>2, SMT DEF Operator, StopByRpc, Step, Trips, Terminate, SocketUp
    <3> QED
      BY <3>1, <3>2
  <2> QED
    BY <1>6, <2>1, <2>2, <2>3, <2>4, <2>5, <2>6 DEF Operator
<1>7. CASE UNCHANGED vars
  BY <1>7, SMT DEF vars
<1> QED
  BY <1>1, <1>2, <1>3, <1>4, <1>5, <1>6, <1>7 DEF Next

(* A stop through systemd that is reported as done leaves no Node behind;  *)
(* one over the socket leaves none but the one that it told to go, unless  *)
(* a unit is active, which restarts it.                                    *)
THEOREM StopsReachTheNode == Spec => []StopReachesNode
<1>1. Init => StopInv
  BY PidsAssumption, SMT DEF Init, Booted, StopInv
<1>2. TypeFiles /\ FilesInv /\ StopInv /\ [Next]_vars => (TypeFiles /\ FilesInv /\ StopInv)'
  BY TypeFilesNext, FilesNext, StopNext
<1>3. TypeFiles /\ FilesInv /\ StopInv => StopReachesNode
  BY PidsAssumption, SMT DEF TypeFiles, FilesInv, UnitsNode, StopInv, StopReachesNode,
     Serving, Starting, Listening, Leaving
<1> QED
  BY <1>1, <1>2, <1>3, InitFiles, PTL DEF Spec

-----------------------------------------------------------------------------
(* The safety side of NodeComesBack: while the Node of an active unit does *)
(* not serve, a step that brings it nearer can be taken.                   *)

(* The unit can spawn a serve, or its process is on the way to the socket, *)
(* has reached it and is found, or was told to go.                         *)
NodeIsOnItsWay ==
  unit = "on" =>
    \/ main = None /\ \E p \in Pids : proc[p] = "free"
    \/ /\ main \in Pids /\ proc[main] \in Serving
       /\ proc[main] = "serve" => sock = main /\ pidFile = main

(* Restart=always: the unit knows its process for as long as that lives,   *)
(* and a pid is left for the next.                                         *)
MainRuns ==
  /\ main # None => main \in Pids /\ proc[main] \in Serving
  /\ installed /\ main = None => \E p \in Pids : proc[p] = "free"

LEMMA MainRunsNext == TypeFiles /\ FilesInv /\ MainRuns /\ [Next]_vars => MainRuns'
<1> SUFFICES ASSUME TypeFiles, FilesInv, MainRuns, [Next]_vars PROVE MainRuns'
  OBVIOUS
<1> USE PidsAssumption DEF TypeFiles, FilesInv, OneNode, UnitsNode, StartedNode, MainRuns,
        Serving, Starting, Listening, Leaving
<1>1. ASSUME NEW p \in Pids, Serve(p) PROVE MainRuns'
  BY <1>1, SMT DEF Serve, Refused, Check, Clear, TruncatePid, WritePid, Bind, Close, Moves, Gone
<1>2. ASSUME NEW p \in Pids, Unlink(p) \/ ClientShutdown(p) \/ Crash(p) PROVE MainRuns'
  BY <1>2, SMT DEF Unlink, ClientShutdown, Crash, Moves, Gone, Killed
<1>3. ASSUME NEW p \in Pids, Stranger(p) PROVE MainRuns'
  BY <1>3, SMT DEF Stranger
<1>4. CASE UnitSpawns
  BY <1>4, SMT DEF UnitSpawns, Spawn
<1>5. CASE UnitKills
  BY <1>5, SMT DEF UnitKills, Killed, Gone
<1>6. CASE Reboot \/ Environment
  BY <1>6, SMT DEF Reboot, Booted, Environment
<1>7. CASE Operator
  <2>1. CASE StartDaemon
    BY <1>7, <2>1, SMT DEF Operator, StartDaemon, Step, Trips, Spawn
  <2>2. CASE PollDaemon
    BY <1>7, <2>2, SMT DEF Operator, PollDaemon, Step, Terminate
  <2>3. CASE SystemctlStop
    BY <1>7, <2>3, SMT DEF Operator, SystemctlStop, Step, Terminate
  <2>4. CASE StopByRpc
    BY <1>7, <2>4, SMT DEF Operator, StopByRpc, Step, Trips, Terminate, SocketUp
  <2>5. CASE EnsureNodeUp \/ WaitNodeReady \/ StopLooks \/ UnitStopped \/ WaitNodeGone
             \/ UpdateStarts \/ Done
    BY <1>7, <2>5, SMT DEF Operator, EnsureNodeUp, WaitNodeReady, StopLooks, UnitStopped,
       WaitNodeGone, UpdateStarts, Done, Step, Trips
  <2> QED
    BY <1>7, <2>1, <2>2, <2>3, <2>4, <2>5 DEF Operator
<1>8. CASE UNCHANGED vars
  BY <1>8, SMT DEF vars
<1> QED
  BY <1>1, <1>2, <1>3, <1>4, <1>5, <1>6, <1>7, <1>8 DEF Next

(* An active unit always has a process or can spawn one, and once that     *)
(* serves, the two files lead to it: what NodeComesBack rests on besides   *)
(* fairness, whatever crashes, reboots and strangers do.                   *)
THEOREM NodeCanComeBack == Spec => []NodeIsOnItsWay
<1>1. Init => MainRuns
  <2> SUFFICES ASSUME Init PROVE MainRuns
    OBVIOUS
  <2> QED
    BY PidsAssumption, SMT DEF Init, Booted, MainRuns, Serving, Starting
<1>2. TypeFiles /\ FilesInv /\ MainRuns /\ [Next]_vars => (TypeFiles /\ FilesInv /\ MainRuns)'
  BY TypeFilesNext, FilesNext, MainRunsNext
<1>3. TypeFiles /\ FilesInv /\ MainRuns => NodeIsOnItsWay
  BY SMT DEF TypeFiles, FilesInv, StartedNode, FilesKept, MainRuns, NodeIsOnItsWay,
     Serving, Starting, Listening, Named
<1> QED
  BY <1>1, <1>2, <1>3, InitFiles, PTL DEF Spec
=============================================================================
