------------------------------ MODULE LaunchRules ------------------------------
(***************************************************************************)
(* The commands of the operators that read or write the launch rules, and  *)
(* the VMs these rules end up in: launch.json (node/settings.py), the      *)
(* folders it may name (node/workspace.py), and settings, start, vm start, *)
(* run --once, vm stop and status (cli.py) over the control socket, for    *)
(* which ControlContract stands.                                           *)
(*                                                                         *)
(* Nothing locks launch.json: an action is what a command does up to the   *)
(* next point at which another command may come in between with an effect. *)
(* Every RPC is asked for and answered in separate steps.                  *)
(***************************************************************************)
EXTENDS Naturals, FiniteSets

CONSTANTS
  Operators,
  Tools,
  Folders,      \* directories that a rule may name
  Default,      \* default_workspace_path
  NoFolder,     \* no folder is allowed
  Absent,       \* launch.json: there is none,
  Empty,        \*   truncated and not yet written,
  Garbled,      \*   the remains of two writes
  None,         \* no command; no claim about the rules
  Issued,       \* the commands that the operators may issue
  MaxCommands,  \* bound: commands
  MaxBoots,     \* bound: boots
  MaxHost       \* bound: changes by the host and by hand

Keys == {"tools", "folder"}
Rules == [tools : SUBSET Tools, folder : Folders \cup {NoFolder}]

(* LaunchSettings().                                                       *)
Fresh == [tools |-> {}, folder |-> NoFolder]

(* A command and the rules it names: the one that settings sets or unsets, *)
(* the flags of a start.  Flags cannot take a folder away.                 *)
Starts == {"start", "vm_start", "once"}
Commands ==
  {c \in [kind : Starts \cup {"settings", "vm_stop", "status"}, keys : SUBSET Keys, rules : Rules] :
     c.kind \in Starts /\ "folder" \in c.keys => c.rules.folder # NoFolder}

ASSUME OperatorsAssumption == IsFiniteSet(Operators)
ASSUME FoldersAssumption == Default \in Folders /\ NoFolder \notin Folders
ASSUME FileAssumption ==
  /\ {Absent, Empty, Garbled, None} \cap Rules = {}
  /\ Absent \notin {Empty, Garbled}
ASSUME IssuedAssumption == Issued \subseteq Commands /\ None \notin Commands
ASSUME BoundsAssumption == {MaxCommands, MaxBoots, MaxHost} \subseteq Nat

VARIABLES
  file,      \* launch.json
  folders,   \* the directories that exist
  node,      \* node_pid finds a Node
  boots, vm, waits,  \* what ControlContract says of them
  late,      \* the VMs for whose end the Node still waits with nobody to answer
  orphans,   \* the VMs that run and that the Node has forgotten
  rules,     \* the rules of the VM that was booted last
  at,        \* per operator: where its command is
  cmd,       \* per operator: the last command
  kept,      \* per operator: the rules the command holds
  commands, host,    \* counters
  \* What the properties need to know of the past:
  intended,  \* the rules that the saves so far amount to
  clash,     \* saves overlapped, or one was cut short
  wanted,    \* per operator: what its command's VM should be given
  granted,   \* wanted of the command that booted the last VM
  own,       \* per operator: the VM its run --once booted, or 0
  excused    \* per operator: nobody answers for that VM (OnceLeavesNothing)

Node == INSTANCE ControlContract WITH Askers <- Operators

vmVars == <<boots, vm, waits, late, orphans>>
nodeVars == <<node, vmVars>>
fileVars == <<file, intended, clash>>
bootVars == <<rules, granted>>
onceVars == <<own, excused>>
vars == <<file, folders, nodeVars, bootVars, at, cmd, kept, commands, host, intended, clash,
          wanted, onceVars>>

Saving == {"truncate", "write"}

TypeOK ==
  /\ file \in Rules \cup {Absent, Empty, Garbled}
  /\ folders \subseteq Folders
  /\ node \in BOOLEAN /\ clash \in BOOLEAN
  /\ {boots, commands, host} \subseteq Nat
  /\ vm \in {0, boots}
  /\ waits \in [Operators -> 0..boots] /\ own \in [Operators -> 0..boots]
  /\ {late, orphans} \subseteq SUBSET (1..boots)
  /\ excused \in [Operators -> BOOLEAN]
  /\ {rules, intended} \subseteq Rules
  /\ granted \in Rules \cup {None}
  /\ at \in [Operators -> Saving \cup {"idle", "shown", "ensure", "status", "ask", "started",
                                       "chat", "leave", "left"}]
  /\ cmd \in [Operators -> Issued \cup {None}]
  /\ kept \in [Operators -> Rules]
  /\ wanted \in [Operators -> Rules \cup {None}]

Init ==
  /\ file = Absent /\ folders = {} /\ node = FALSE
  /\ Node!Init /\ late = {} /\ orphans = {}
  /\ rules = Fresh /\ granted = None
  /\ at = [o \in Operators |-> "idle"]
  /\ cmd = [o \in Operators |-> None]
  /\ kept = [o \in Operators |-> Fresh]
  /\ commands = 0 /\ host = 0
  /\ intended = Fresh /\ clash = FALSE
  /\ wanted = [o \in Operators |-> None]
  /\ own = [o \in Operators |-> 0] /\ excused = [o \in Operators |-> FALSE]

(* Operators marked "Defect" are not part of the specification.  Each is a *)
(* plausible mistake in the definition below it, which some property must  *)
(* notice (PROJECT.json, mutants).                                         *)

-----------------------------------------------------------------------------
(* load_launch and merge_launch.                                           *)

(* ensure_default_workspace.                                               *)
Ensured == folders \cup {Default}

(* Defect: what cannot be read is taken for no rules.                      *)
LoadsAnything(dirs) ==
  IF file \in Rules THEN file.folder \in dirs \cup {NoFolder} ELSE TRUE

(* launch.json is not there, or it is whole and its folder exists.         *)
Loads(dirs) ==
  file = Absent \/ (file \in Rules /\ file.folder \in dirs \cup {NoFolder})

Loaded == IF file \in Rules THEN file ELSE Fresh

(* The rules a command names override those it finds.                      *)
Overlay(found, c) == [key \in Keys |-> IF key \in c.keys THEN c.rules[key] ELSE found[key]]

(* The folder a command names has to exist as well.                        *)
Accepts(c, dirs) == Loads(dirs) /\ Overlay(Loaded, c).folder \in dirs \cup {NoFolder}

(* Operator o issues c, which goes on at point next with the rules it      *)
(* found; a refused command is over at once.                               *)
Issue(o, c, dirs, next) ==
  /\ at[o] = "idle" /\ commands < MaxCommands
  /\ commands' = commands + 1
  /\ cmd' = [cmd EXCEPT ![o] = c]
  /\ own' = [own EXCEPT ![o] = 0]
  /\ folders' = dirs
  /\ \/ /\ Accepts(c, dirs)
        /\ at' = [at EXCEPT ![o] = next]
        /\ kept' = [kept EXCEPT ![o] = Overlay(Loaded, c)]
        /\ wanted' = [wanted EXCEPT ![o] = IF clash THEN None ELSE Overlay(intended, c)]
     \/ /\ ~Accepts(c, dirs)
        /\ UNCHANGED <<at, kept, wanted>>
  /\ UNCHANGED <<file, nodeVars, bootVars, host, intended, excused>>

Step(o, from, to) == at[o] = from /\ at' = [at EXCEPT ![o] = to]

-----------------------------------------------------------------------------
(* settings.                                                               *)

Overlaps(o) == \E p \in Operators \ {o} : at[p] \in Saving

(* Show, set and unset, up to save_launch.                                 *)
Settings(o, c) ==
  /\ c.kind = "settings"
  /\ Issue(o, c, Ensured, IF c.keys = {} THEN "idle" ELSE "truncate")
  /\ clash' = (clash \/ (at'[o] = "truncate" /\ Overlaps(o)))

(* write_text opens the file ...                                           *)
Truncate(o) ==
  /\ Step(o, "truncate", "write")
  /\ file' = Empty
  /\ UNCHANGED <<folders, nodeVars, bootVars, cmd, kept, commands, host, intended, clash, wanted,
                 onceVars>>

(* Defect: the rule that is set is all that is written.                    *)
WriteAlone(o) ==
  /\ Step(o, "write", "shown")
  /\ file' = Overlay(Fresh, cmd[o])
  /\ intended' = Overlay(intended, cmd[o])
  /\ UNCHANGED <<folders, nodeVars, bootVars, cmd, kept, commands, host, clash, wanted, onceVars>>

(* ... and writes it, over what another has written since.                 *)
Write(o) ==
  /\ Step(o, "write", "shown")
  /\ file' \in IF file = Empty THEN {kept[o]} ELSE {kept[o], Garbled}
  /\ intended' = Overlay(intended, cmd[o])
  /\ UNCHANGED <<folders, nodeVars, bootVars, cmd, kept, commands, host, clash, wanted, onceVars>>

(* The file is loaded once more to be shown; nothing catches an exception. *)
Show(o) ==
  /\ Step(o, "shown", "idle")
  /\ folders' = IF Loads(folders) THEN Ensured ELSE folders
  /\ UNCHANGED <<fileVars, nodeVars, bootVars, cmd, kept, commands, host, wanted,
                 onceVars>>

-----------------------------------------------------------------------------
(* start, vm start, run --once.                                            *)

(* main loads the rules before anything else; vm start first creates the   *)
(* default folder.                                                         *)
StartCommand(o, c) ==
  /\ \/ c.kind = "start" /\ Issue(o, c, folders, "ensure")
     \/ c.kind = "vm_start" /\ Issue(o, c, Ensured, "ask")
     \/ c.kind = "once" /\ Issue(o, c, folders, IF node THEN "status" ELSE "idle")
  /\ UNCHANGED clash

(* _product_start: the Node is there or is started, then asked whether a   *)
(* VM runs; the operator may decline to start one.                         *)
Ensure(o) ==
  /\ at[o] = "ensure"
  /\ folders' = Ensured
  /\ \/ /\ node' = TRUE
        /\ \/ vm = 0 /\ Step(o, "ensure", "ask")
           \/ Step(o, "ensure", "idle")
     \/ ~node /\ Step(o, "ensure", "idle") /\ UNCHANGED node
  /\ UNCHANGED <<fileVars, vmVars, bootVars, cmd, kept, commands, host, wanted,
                 onceVars>>

After(o, next) == IF cmd[o].kind = "once" THEN next ELSE "idle"

(* The VMs for whose end a handler of the Node waits.                      *)
Pending == (late \cup {waits[p] : p \in Operators}) \ {0}

(* rpc_start: refused, or the Node boots a VM; what it still waits for may *)
(* make it forget this one.                                                *)
Ask(o) ==
  /\ \/ /\ ~node \/ vm # 0
        /\ Step(o, "ask", After(o, "leave"))
        /\ UNCHANGED <<nodeVars, bootVars, onceVars>>
     \/ /\ node /\ boots < MaxBoots
        /\ Node!Start
        /\ Step(o, "ask", "started")
        /\ rules' = kept[o]
        /\ granted' = wanted[o]
        /\ own' = [own EXCEPT ![o] = IF cmd[o].kind = "once" THEN boots' ELSE 0]
        /\ excused' = [excused EXCEPT ![o] = Pending # {}]
        /\ UNCHANGED <<node, late, orphans>>
  /\ UNCHANGED <<fileVars, folders, cmd, kept, commands, host, wanted>>

(* Defect: run --once is over when its start is answered with an error.    *)
AnsweredIsOver(o) ==
  /\ Step(o, "started", After(o, "chat")) \/ Step(o, "started", "idle")
  /\ UNCHANGED <<fileVars, folders, nodeVars, bootVars, cmd, kept, commands, host, wanted,
                 onceVars>>

(* start_ok, or Ctrl-C; or an error, after which the Node goes on to stop  *)
(* the VM that did not come up.                                            *)
Answered(o) ==
  /\ \/ /\ Step(o, "started", After(o, "chat")) \/ Step(o, "started", After(o, "leave"))
        /\ UNCHANGED nodeVars
     \/ /\ Step(o, "started", After(o, "leave"))
        /\ vm # 0
        /\ late' = late \cup {vm}
        /\ UNCHANGED <<node, boots, vm, waits, orphans>>
  /\ UNCHANGED <<fileVars, folders, bootVars, cmd, kept, commands, host, wanted,
                 onceVars>>

(* _run_once_via_node: a session that runs is used, whoever started it.    *)
OnceStatus(o) ==
  /\ \/ ~node /\ Step(o, "status", "leave")
     \/ node /\ vm # 0 /\ Step(o, "status", "chat")
     \/ node /\ vm = 0 /\ Step(o, "status", "ask")
  /\ UNCHANGED <<fileVars, folders, nodeVars, bootVars, cmd, kept, commands, host, wanted,
                 onceVars>>

(* The chat ends, with an answer or without.                               *)
OnceChat(o) ==
  /\ Step(o, "chat", "leave")
  /\ UNCHANGED <<fileVars, folders, nodeVars, bootVars, cmd, kept, commands, host, wanted,
                 onceVars>>

-----------------------------------------------------------------------------
(* rpc_stop: the finally clause of run --once, and vm stop.                *)

(* vm stop looks for a Node, asks what runs, and asks to confirm.          *)
VmStop(o, c) ==
  /\ c.kind = "vm_stop"
  /\ at[o] = "idle" /\ commands < MaxCommands
  /\ commands' = commands + 1
  /\ cmd' = [cmd EXCEPT ![o] = c]
  /\ own' = [own EXCEPT ![o] = 0]
  /\ \/ node /\ Step(o, "idle", "leave")
     \/ UNCHANGED at
  /\ UNCHANGED <<fileVars, folders, nodeVars, bootVars, kept, host, wanted, excused>>

Leave(o) ==
  /\ \/ ~node /\ Step(o, "leave", "idle") /\ UNCHANGED nodeVars
     \/ /\ node /\ Step(o, "leave", "left")
        /\ Node!AskStop(o)
        /\ UNCHANGED <<node, late, orphans>>
  /\ UNCHANGED <<fileVars, folders, bootVars, cmd, kept, commands, host, wanted,
                 onceVars>>

(* The ControlError of an rpc_stop that fails though the Node is up, before *)
(* it was heard or while it waits: run --once swallows it.                  *)
StopFails(o) ==
  /\ node
  /\ Step(o, "leave", "idle") \/ Step(o, "left", "idle")
  /\ excused' = [excused EXCEPT ![o] = TRUE]
  /\ late' = late \cup ({waits[o]} \ {0})
  /\ waits' = [waits EXCEPT ![o] = 0]
  /\ UNCHANGED <<fileVars, folders, node, boots, vm, orphans, bootVars, cmd, kept, commands, host,
                 wanted, own>>

(* _stop_vm goes on when the VM it has waited for is down: it clears the   *)
(* state, whatever VM that is about by now.                                *)
Forgets ==
  /\ vm' = 0
  /\ orphans' = orphans \cup ({vm} \ {0})

(* stop_ok, when the VM has ended even if the Node has forgotten it since; *)
(* at once if there was nothing to stop.                                   *)
Left(o) ==
  /\ Step(o, "left", "idle")
  /\ \/ waits[o] \notin orphans /\ Node!Stopped(o) /\ Forgets
     \/ waits[o] = 0 /\ UNCHANGED <<boots, vm, waits, orphans>>
  /\ UNCHANGED <<fileVars, folders, node, late, bootVars, cmd, kept, commands, host, wanted,
                 onceVars>>

(* Nobody is answered.                                                     *)
LateStop ==
  /\ \E v \in late \ ({vm} \cup orphans) : late' \in {late, late \ {v}}
  /\ Node!End /\ Forgets
  /\ UNCHANGED <<fileVars, folders, node, bootVars, at, cmd, kept, commands, host, wanted,
                 onceVars>>

-----------------------------------------------------------------------------
(* The rest of the world.                                                  *)

(* status: it creates the default folder, and shows the rules if no VM     *)
(* runs.                                                                   *)
Status(o, c) ==
  /\ c.kind = "status"
  /\ at[o] = "idle" /\ commands < MaxCommands
  /\ commands' = commands + 1
  /\ cmd' = [cmd EXCEPT ![o] = c]
  /\ own' = [own EXCEPT ![o] = 0]
  /\ folders' = Ensured
  /\ UNCHANGED <<fileVars, nodeVars, bootVars, at, kept, host, wanted, excused>>

(* A command is killed; the Node does not notice.                          *)
Killed(o) ==
  /\ at[o] # "idle"
  /\ at' = [at EXCEPT ![o] = "idle"]
  /\ clash' = (clash \/ at[o] = "write")
  /\ own' = [own EXCEPT ![o] = 0]
  /\ late' = late \cup ({waits[o]} \ {0})
  /\ waits' = [waits EXCEPT ![o] = 0]
  /\ UNCHANGED <<file, folders, node, boots, vm, orphans, bootVars, cmd, kept, commands, host,
                 intended, wanted, excused>>

(* A VM ends.                                                              *)
Ends ==
  /\ \/ vm # 0 /\ Node!End /\ vm' = 0 /\ UNCHANGED orphans
     \/ \E v \in orphans : orphans' = orphans \ {v} /\ UNCHANGED <<boots, vm, waits>>
  /\ UNCHANGED <<fileVars, folders, node, late, bootVars, at, cmd, kept, commands, host, wanted,
                 onceVars>>

HostStep == host < MaxHost /\ host' = host + 1

(* The Node, started by systemd or ended with its VMs.                     *)
NodeChanges ==
  /\ HostStep
  /\ node' = ~node
  /\ vm' = 0
  /\ waits' = [o \in Operators |-> 0]
  /\ late' = {} /\ orphans' = {}
  /\ UNCHANGED <<fileVars, folders, boots, bootVars, at, cmd, kept, commands, wanted, onceVars>>

FolderChanges ==
  /\ HostStep
  /\ \E d \in Folders :
       folders' = IF d \in folders THEN folders \ {d} ELSE folders \cup {d}
  /\ UNCHANGED <<fileVars, nodeVars, bootVars, at, cmd, kept, commands, wanted, onceVars>>

(* launch.json is removed by hand while no command saves it.               *)
Repair ==
  /\ HostStep
  /\ \A o \in Operators : at[o] \notin Saving
  /\ file' = Absent
  /\ intended' = Fresh
  /\ clash' = FALSE
  /\ UNCHANGED <<folders, nodeVars, bootVars, at, cmd, kept, commands, wanted, onceVars>>

Next ==
  \/ \E o \in Operators :
       \/ \E c \in Issued :
            Settings(o, c) \/ StartCommand(o, c) \/ VmStop(o, c) \/ Status(o, c)
       \/ Truncate(o) \/ Write(o) \/ Show(o)
       \/ Ensure(o) \/ Ask(o) \/ Answered(o) \/ OnceStatus(o) \/ OnceChat(o)
       \/ Leave(o) \/ StopFails(o) \/ Left(o) \/ Killed(o)
  \/ LateStop \/ Ends \/ NodeChanges \/ FolderChanges \/ Repair

Spec == Init /\ [][Next]_vars

-----------------------------------------------------------------------------
(* What an operator may rely on.                                           *)

(* No save is lost and none is half read: between saves, launch.json says  *)
(* what the settings commands amount to in the order they were written,    *)
(* unless two of them overlapped or one was killed while it wrote.         *)
NoLostUpdate ==
  ~clash /\ (\A o \in Operators : at[o] # "write") =>
    file \in Rules \cup {Absent} /\ Loaded = intended

(* A VM runs with the rules that the settings commands amounted to when    *)
(* the command that started it read them, with its own flags laid over:    *)
(* neither a file in the midst of a save nor a folder that is gone passes  *)
(* for fewer or other rules.                                               *)
RulesInForce == granted # None => rules = granted

(* run --once leaves no VM behind that it booted, neither one that status  *)
(* reports nor one that the Node has forgotten, however its start or its   *)
(* chat went: unless it was killed, its stop failed, or the Node accepted  *)
(* its start while it still waited for the end of an earlier VM, after     *)
(* which it clears the state of the new one.                               *)
OnceLeavesNothing ==
  \A o \in Operators :
    at[o] = "idle" /\ own[o] # 0 /\ ~excused[o] => own[o] \notin {vm} \cup orphans
=============================================================================
